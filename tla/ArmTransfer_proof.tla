-------------------------- MODULE ArmTransfer_proof --------------------------
(***************************************************************************)
(* What programs rely on when they move registers to memory and back, for  *)
(* every core, memory, register list and byte order that TypeOK allows.    *)
(***************************************************************************)
EXTENDS ArmTransfer, ArmMachine_proof

-----------------------------------------------------------------------------
(* Words side by side *)

(* A multiple transfer moves at most sixteen words.                        *)
LEMMA ListSize ==
  ASSUME NEW list \in SUBSET RegNumber
  PROVE  Cardinality(list) \in 0 .. 16
<1>1. IsFiniteSet(0 .. 15) /\ Cardinality(0 .. 15) = 16
  <2>1. 0 \in Int /\ 15 \in Int
    OBVIOUS
  <2>2. /\ IsFiniteSet(0 .. 15)
        /\ Cardinality(0 .. 15) = IF 0 > 15 THEN 0 ELSE 15 - 0 + 1
    BY <2>1, FS_Interval, Zenon
  <2> QED
    BY <2>2
<1>2. Cardinality(list) <= Cardinality(0 .. 15) /\ Cardinality(list) \in Nat
  BY <1>1, CountType, FS_Subset DEF RegNumber
<1> QED
  BY <1>1, <1>2

(* A later register of the list has more registers before it.              *)
LEMMA PlacesIncrease ==
  ASSUME NEW list \in SUBSET RegNumber, NEW i \in list, NEW j \in list, i < j
  PROVE  /\ Cardinality({k \in list : k < i}) \in 0 .. 15
         /\ Cardinality({k \in list : k < j}) \in 0 .. 15
         /\ Cardinality({k \in list : k < i}) < Cardinality({k \in list : k < j})
<1> DEFINE A == {k \in list : k < i}
           B == {k \in list : k < j}
<1>1. /\ A \in SUBSET RegNumber /\ B \in SUBSET RegNumber
      /\ A \cup {i} \in SUBSET RegNumber /\ B \cup {j} \in SUBSET RegNumber
  OBVIOUS
<1>2. i \notin A /\ j \notin B /\ A \cup {i} \subseteq B
  <2>1. \A k \in list : k \in Int
    BY DEF RegNumber
  <2>2. i \notin A /\ j \notin B
    BY <2>1
  <2>3. \A k \in list : k < i => k < j
    BY <2>1
  <2> QED
    BY <2>2, <2>3
<1> HIDE DEF A, B
<1>3. /\ Cardinality(A \cup {i}) = Cardinality(A) + 1
      /\ Cardinality(B \cup {j}) = Cardinality(B) + 1
  BY <1>1, <1>2, CountType, FS_AddElement
<1>4. Cardinality(A \cup {i}) <= Cardinality(B)
  BY <1>1, <1>2, CountType, FS_Subset
<1>5. Cardinality(A) \in Nat /\ Cardinality(B) \in Nat /\ Cardinality(B \cup {j}) \in 0 .. 16
  BY <1>1, CountType, ListSize
<1> QED
  BY <1>3, <1>4, <1>5 DEF A, B

(* The words of two registers do not overlap, also when the addresses of   *)
(* the list wrap around between them.                                      *)
LEMMA SlotsApart ==
  ASSUME NEW list \in SUBSET RegNumber, NEW start \in Word,
         NEW i \in list, NEW j \in list, i # j,
         InBounds(Slot(list, start, i), 4), InBounds(Slot(list, start, j), 4),
         NEW a \in Slot(list, start, i) .. Slot(list, start, i) + 3
  PROVE  a \notin Slot(list, start, j) .. Slot(list, start, j) + 3
<1>1. ASSUME NEW x \in list, NEW y \in list, x < y,
             InBounds(Slot(list, start, x), 4), InBounds(Slot(list, start, y), 4)
      PROVE  /\ Slot(list, start, x) \in Nat /\ Slot(list, start, y) \in Nat
             /\ \/ Slot(list, start, x) + 3 < Slot(list, start, y)
                \/ Slot(list, start, y) + 3 < Slot(list, start, x)
  <2> DEFINE m == Cardinality({k \in list : k < x})
             n == Cardinality({k \in list : k < y})
  <2>1. m \in 0 .. 15 /\ n \in 0 .. 15 /\ m < n
    BY <1>1, PlacesIncrease
  <2>2. /\ Slot(list, start, x) = (start + 4 * m) % WordSize
        /\ Slot(list, start, y) = (start + 4 * n) % WordSize
    BY DEF Slot
  <2> HIDE DEF m, n
  <2>3. /\ start \in Nat /\ start < WordSize
        /\ WordSize \in Nat /\ WordSize >= 65536 /\ MemSize \in Nat /\ MemSize <= WordSize
    BY Sizes, MemoryAssumption DEF Word
  <2>4. /\ (start + 4 * m) % WordSize
             = IF start + 4 * m >= WordSize THEN start + 4 * m - WordSize ELSE start + 4 * m
        /\ (start + 4 * n) % WordSize
             = IF start + 4 * n >= WordSize THEN start + 4 * n - WordSize ELSE start + 4 * n
    <3> DEFINE u == start + 4 * m
               v == start + 4 * n
    <3>1. /\ u \in Int /\ -WordSize <= u /\ u < 2 * WordSize /\ ~(u < 0)
          /\ v \in Int /\ -WordSize <= v /\ v < 2 * WordSize /\ ~(v < 0)
      BY <2>1, <2>3
    <3> HIDE DEF u, v
    <3>2. /\ u % WordSize = IF u >= WordSize THEN u - WordSize ELSE u
          /\ v % WordSize = IF v >= WordSize THEN v - WordSize ELSE v
      <4>1. \A z \in Int : -WordSize <= z /\ z < 2 * WordSize =>
              z % WordSize = IF z < 0 THEN z + WordSize
                             ELSE IF z >= WordSize THEN z - WordSize ELSE z
        BY WithinOneTurn
      <4> HIDE DEF WordSize
      <4> QED
        BY <3>1, <4>1
    <3>3. u - WordSize = start + 4 * m - WordSize /\ v - WordSize = start + 4 * n - WordSize
      BY <2>1, <2>3 DEF u, v
    <3> QED
      BY <3>2, <3>3 DEF u, v
  <2> HIDE DEF WordSize
  <2> QED
    BY <1>1, <2>1, <2>2, <2>3, <2>4 DEF InBounds
<1>2. i \in Int /\ j \in Int
  BY DEF RegNumber
<1>3. CASE i < j
  BY <1>1, <1>3
<1>4. CASE j < i
  BY <1>1, <1>4
<1> QED
  BY <1>2, <1>3, <1>4

(* Every word of the list is in the memory. *)
InMemory(list, start) == \A k \in list : InBounds(Slot(list, start, k), 4)

(* The byte of register i that a store puts at address a.                  *)
StoredByte(p, list, start, reg, i, a) ==
  ByteOf(reg[i], IF BigEndian(p) THEN Slot(list, start, i) + 3 - a
                 ELSE a - Slot(list, start, i))

(* The word of register i holds the bytes of its value.                    *)
WordStored(p, old, list, start, reg, i) ==
  \A a \in Slot(list, start, i) .. Slot(list, start, i) + 3 :
    Stored(p, old, list, start, list, reg)[a] = StoredByte(p, list, start, reg, i, a)

(* Every byte of a stored register is its own.                             *)
LEMMA StoredByteOfRegister ==
  ASSUME NEW p, NEW old, NEW list \in SUBSET RegNumber, NEW start \in Word,
         NEW reg, InMemory(list, start), NEW i \in list
  PROVE  WordStored(p, old, list, start, reg, i)
<1> SUFFICES ASSUME NEW a \in Slot(list, start, i) .. Slot(list, start, i) + 3
             PROVE  Stored(p, old, list, start, list, reg)[a]
                      = StoredByte(p, list, start, reg, i, a)
  BY DEF WordStored
<1> DEFINE in(j) == a \in Slot(list, start, j) .. Slot(list, start, j) + 3
           k == CHOOSE j \in list : in(j)
<1>1. a \in Address
  <2>1. Slot(list, start, i) \in Nat /\ InBounds(Slot(list, start, i), 4)
    BY SlotType, Widths DEF InMemory
  <2> QED
    BY <2>1, Sizes DEF InBounds, Address
<1>2. k \in list /\ in(k)
  OBVIOUS
<1>3. k = i
  <2> HIDE DEF k
  <2> QED
    BY <1>2, SlotsApart DEF InMemory
<1>4. Stored(p, old, list, start, list, reg)[a] = StoredByte(p, list, start, reg, k, a)
  BY <1>1, Zenon DEF Stored, StoredByte
<1> QED
  BY <1>3, <1>4

(* The words that a multiple store has written are the ones a multiple     *)
(* load of the same list in the same byte order reads.                     *)
LEMMA StoredReadBack ==
  ASSUME NEW p \in Core, NEW q \in Core, BigEndian(q) = BigEndian(p), NEW old,
         NEW list \in SUBSET RegNumber, NEW start \in Word,
         NEW reg \in [RegNumber -> Word],
         InMemory(list, start), NEW i \in list
  PROVE  LoadedWord(q, Stored(p, old, list, start, list, reg), list, start, i) = reg[i]
<1> DEFINE m == Stored(p, old, list, start, list, reg)
           s == Slot(list, start, i)
           b == [k \in 0 .. 3 |-> ByteOf(reg[i], k)]
           be == BigEndian(p)
<1>1. s \in Nat /\ be \in BOOLEAN
  BY SlotType, Widths DEF BigEndian
<1>2. WordStored(p, old, list, start, reg, i)
  BY StoredByteOfRegister
<1>3. ASSUME NEW k \in 0 .. 3 PROVE m[Place(be, s, 4, k)] = b[k]
  <2> DEFINE a == Place(be, s, 4, k)
  <2>1. a \in s .. s + 3 /\ k = IF be THEN s + 3 - a ELSE a - s
    <3> HIDE DEF s, be
    <3> QED
      BY <1>1 DEF Place
  <2> HIDE DEF a
  <2>2. m[a] = StoredByte(p, list, start, reg, i, a)
    BY <1>2, <2>1 DEF WordStored
  <2> HIDE DEF m
  <2> QED
    BY <2>1, <2>2 DEF StoredByte, a
<1> HIDE DEF m
<1>4. memory_read_bytes(m, be, s, 4) = b
  <2>1. memory_read_bytes(m, be, s, 4) = [k \in 0 .. 3 |-> m[Place(be, s, 4, k)]]
    BY DEF memory_read_bytes
  <2> HIDE DEF s, be
  <2> QED
    BY <1>3, <2>1
<1>5. WordOf(b) = reg[i]
  BY WordOfBytes
<1> QED
  BY <1>4, <1>5 DEF LoadedWord, memory_read_word, m

(* q has the words of reg in the registers of the list, as `mode' names    *)
(* them, and everything else from p.                                       *)
HasRegisters(q, p, list, mode, reg) ==
  /\ q \in Core
  /\ q.cpsr = p.cpsr /\ q.spsr = p.spsr
  /\ \A i \in list : q.storage[registers(mode, i)] = reg[i]
  /\ \A r \in 0 .. 30 : (\A i \in list : registers(mode, i) # r) =>
                          q.storage[r] = p.storage[r]

(* A multiple load of what a multiple store has written.                   *)
LEMMA LoadedBack ==
  ASSUME NEW p \in Core, NEW q \in Core, BigEndian(q) = BigEndian(p), NEW old,
         NEW list \in SUBSET RegNumber, NEW start \in Word,
         NEW reg \in [RegNumber -> Word], NEW mode \in ModeNumber,
         InMemory(list, start)
  PROVE  HasRegisters(Loaded(q, Stored(p, old, list, start, list, reg), list, start,
                             list, mode), q, list, mode, reg)
<1> DEFINE m == Stored(p, old, list, start, list, reg)
           word(r) == IF \E i \in list : registers(mode, i) = r
                      THEN LoadedWord(q, m, list, start,
                                      CHOOSE i \in list : registers(mode, i) = r)
                      ELSE q.storage[r]
           storage == [r \in 0 .. 30 |-> word(r)]
           loaded  == Loaded(q, m, list, start, list, mode)
<1>1. loaded = [q EXCEPT !.storage = storage]
  BY Zenon DEF Loaded
<1>2. \A i \in list : LoadedWord(q, m, list, start, i) = reg[i] /\ reg[i] \in Word
  BY StoredReadBack
<1>3. \A i \in list : registers(mode, i) \in 0 .. 30
  BY RegistersType
<1> HIDE DEF m
<1>4. \A i \in list : word(registers(mode, i)) = reg[i]
  <2> TAKE i \in list
  <2> DEFINE k == CHOOSE j \in list : registers(mode, j) = registers(mode, i)
  <2>1. k \in list /\ registers(mode, k) = registers(mode, i)
    OBVIOUS
  <2> HIDE DEF k
  <2>2. k = i
    BY <2>1, RegistersDistinct
  <2> QED
    BY <1>2, <2>2 DEF k
<1>5. \A r \in 0 .. 30 : (\A i \in list : registers(mode, i) # r) => word(r) = q.storage[r]
  OBVIOUS
<1>6. \A r \in 0 .. 30 : word(r) \in Word
  <2> TAKE r \in 0 .. 30
  <2>1. CASE \E i \in list : registers(mode, i) = r
    BY <1>2, <1>4, <2>1
  <2>2. CASE ~\E i \in list : registers(mode, i) = r
    BY <2>2, CoreFields
  <2> QED
    BY <2>1, <2>2
<1> HIDE DEF word
<1>7. /\ storage \in [0 .. 30 -> Word]
      /\ \A r \in 0 .. 30 : storage[r] = word(r)
  BY <1>6
<1> HIDE DEF storage, loaded
<1>8. /\ loaded \in Core /\ loaded.storage = storage
      /\ loaded.cpsr = q.cpsr /\ loaded.spsr = q.spsr
  BY <1>1, <1>7 DEF Core
<1> QED
  BY <1>3, <1>4, <1>5, <1>7, <1>8 DEF HasRegisters, loaded, m

-----------------------------------------------------------------------------
(* The S forms *)

(* The first and the last address of a block of `size' bytes.              *)
FirstSlot(base, size, before, up) ==
  CASE up  /\ before  -> (base + 4) % WordSize
    [] up  /\ ~before -> base
    [] ~up /\ before  -> (base - size) % WordSize
    [] ~up /\ ~before -> (base - size + 4) % WordSize

LastSlot(base, size, before, up) ==
  CASE up  /\ before  -> (base + size) % WordSize
    [] up  /\ ~before -> (base + size - 4) % WordSize
    [] ~up /\ before  -> (base - 4) % WordSize
    [] ~up /\ ~before -> base

(* Where a block starts is a word.                                         *)
LEMMA FirstSlotType ==
  ASSUME NEW base \in Word, NEW size \in Int, NEW before \in BOOLEAN, NEW up \in BOOLEAN
  PROVE  FirstSlot(base, size, before, up) \in Word
<1>1. base \in Int
  BY Widths
<1>2. /\ (base + 4) % WordSize \in Word /\ (base - size) % WordSize \in Word
      /\ (base - size + 4) % WordSize \in Word
  BY <1>1, Wraps
<1> QED
  BY <1>2 DEF FirstSlot

(* The four multiple transfers without the program counter: q has the base *)
(* written back.                                                           *)
FourForms(p, m, before, up, w, rn, list, q, start, end) ==
  /\ arm_load_store_multiple(p, m, Multiple(FALSE, FALSE, before, up, w, rn, list))
       = stm1(q, m, list, start, end)
  /\ arm_load_store_multiple(p, m, Multiple(TRUE, FALSE, before, up, w, rn, list))
       = ldm1(q, m, list, start, end, 0)
  /\ arm_load_store_multiple(p, m, Multiple(FALSE, TRUE, before, up, w, rn, list))
       = stm2(q, m, list, start, end)
  /\ arm_load_store_multiple(p, m, Multiple(TRUE, TRUE, before, up, w, rn, list))
       = ldm2(q, m, list, start, end)

(* arm_load_store_multiple computes the block and calls one of the four.   *)
LEMMA MultipleForms ==
  ASSUME NEW p, NEW m, NEW before \in BOOLEAN, NEW up \in BOOLEAN, NEW w \in BOOLEAN,
         NEW rn, NEW list, PC \notin list
  PROVE  LET size  == 4 * Cardinality(list)
             base  == arm_read_register(p, rn)
         IN  FourForms(p, m, before, up, w, rn, list,
                       IF w THEN arm_write_register(p, rn, Signed(up, base, size)) ELSE p,
                       FirstSlot(base, size, before, up),
                       LastSlot(base, size, before, up))
<1> DEFINE size  == 4 * Cardinality(list)
           base  == arm_read_register(p, rn)
           start == FirstSlot(base, size, before, up)
           end   == LastSlot(base, size, before, up)
           q     == IF w THEN arm_write_register(p, rn, Signed(up, base, size)) ELSE p
           ins(l, s) == Multiple(l, s, before, up, w, rn, list)
<1>1. ASSUME NEW l \in BOOLEAN, NEW s \in BOOLEAN
      PROVE  /\ ins(l, s).l = l /\ ins(l, s).s = s /\ ins(l, s).p = before
             /\ ins(l, s).u = up /\ ins(l, s).w = w /\ ins(l, s).rn = rn
             /\ ins(l, s).list = list /\ ins(l, s).junk = 0
  BY DEF Multiple
<1> HIDE DEF ins
<1>2. ASSUME NEW l \in BOOLEAN, NEW s \in BOOLEAN
      PROVE  arm_load_store_multiple(p, m, ins(l, s)) =
               CASE ~s /\ ~l -> stm1(q, m, list, start, end)
                 [] ~s /\ l  -> ldm1(q, m, list, start, end, 0)
                 [] s /\ ~l /\ PC \notin list -> stm2(q, m, list, start, end)
                 [] s /\ ~l /\ PC \in list    -> Outcome(q, m, NO_EXCEPTION)
                 [] s /\ l /\ PC \notin list  -> ldm2(q, m, list, start, end)
                 [] s /\ l /\ PC \in list     -> ldm3(q, m, list, start, end)
  BY <1>1, Zenon DEF arm_load_store_multiple, FirstSlot, LastSlot
<1> HIDE DEF q, start, end
<1>3. /\ arm_load_store_multiple(p, m, ins(FALSE, FALSE)) = stm1(q, m, list, start, end)
      /\ arm_load_store_multiple(p, m, ins(TRUE, FALSE)) = ldm1(q, m, list, start, end, 0)
      /\ arm_load_store_multiple(p, m, ins(FALSE, TRUE)) = stm2(q, m, list, start, end)
      /\ arm_load_store_multiple(p, m, ins(TRUE, TRUE)) = ldm2(q, m, list, start, end)
  BY <1>2
<1> QED
  BY <1>3 DEF FourForms, ins, q, start, end

(* A register list that is stored without an abort is stored completely.   *)
LEMMA StoredCompletely ==
  ASSUME NEW list \in SUBSET RegNumber, NEW start \in Word,
         Failure(list, Done(list, start)) = NO_EXCEPTION
  PROVE  Done(list, start) = list /\ InMemory(list, start)
<1>1. Done(list, start) = list
  BY DEF Failure, NO_EXCEPTION, DATA_ABORT
<1> QED
  BY <1>1, DoneFacts DEF InMemory

(* What Asserted leaves alone. *)
LEMMA AssertedParts ==
  ASSUME NEW q, NEW m, NEW result, NEW start, NEW end, NEW attempts
  PROVE  LET o == Asserted(Outcome(q, m, result), start, end, attempts)
         IN  /\ o.core = q /\ o.mem = m /\ o.result = result
             /\ o.process = "running" <=> end = (start + 4 * attempts - 4) % WordSize
BY DEF Asserted, Outcome

(* Two cores with the same fields are the same.                            *)
LEMMA CoreEqual ==
  ASSUME NEW p \in Core, NEW q \in Core, q.cpsr = p.cpsr, q.spsr = p.spsr,
         \A r \in 0 .. 30 : q.storage[r] = p.storage[r]
  PROVE  q = p
BY DEF Core

(* A list saved with the S form and reloaded after the user registers have *)
(* been lost (stm2, then ldm2).                                            *)
LEMMA UserBankReloads ==
  ASSUME NEW p \in Core, NEW m \in Contents, NEW list \in SUBSET RegNumber, PC \notin list
  PROVE  LET save   == arm_load_store_multiple(p, m,
                         Multiple(FALSE, TRUE, TRUE, TRUE, FALSE, 0, list))
             wiped  == [save.core EXCEPT !.storage = [r \in 0 .. 30 |->
                          IF r \in list \ {0} THEN 0 ELSE save.core.storage[r]]]
             reload == arm_load_store_multiple(wiped, save.mem,
                         Multiple(TRUE, TRUE, TRUE, TRUE, FALSE, 0, list))
         IN  save.process = "running" /\ save.result = NO_EXCEPTION =>
               reload.result = NO_EXCEPTION /\ reload.core = p
<1> DEFINE size   == 4 * Cardinality(list)
           base   == arm_read_register(p, 0)
           start  == FirstSlot(base, size, TRUE, TRUE)
           end    == LastSlot(base, size, TRUE, TRUE)
           reg    == [i \in RegNumber |-> arm_read_usr_register(p, i)]
           done   == Done(list, start)
           stored == Stored(p, m, list, start, done, reg)
           save   == arm_load_store_multiple(p, m,
                       Multiple(FALSE, TRUE, TRUE, TRUE, FALSE, 0, list))
           kept   == [r \in 0 .. 30 |-> IF r \in list \ {0} THEN 0 ELSE save.core.storage[r]]
           wiped  == [save.core EXCEPT !.storage = kept]
           reload == arm_load_store_multiple(wiped, save.mem,
                       Multiple(TRUE, TRUE, TRUE, TRUE, FALSE, 0, list))
           loaded == Loaded(wiped, save.mem, list, start, done, USR)
<1>1. 0 \in RegNumber /\ \A i \in RegNumber : i \in 0 .. 30
  BY DEF RegNumber
<1>2. base \in Word /\ size \in Int /\ reg \in [RegNumber -> Word]
  BY <1>1, CountType, ReadRegisterType
<1>3. \A i \in list : reg[i] = p.storage[i]
  BY DEF arm_read_usr_register
<1> HIDE DEF size, reg
<1>4. start \in Word
  BY <1>2, FirstSlotType
<1>5. save = stm2(p, m, list, start, end)
  <2>1. FourForms(p, m, TRUE, TRUE, FALSE, 0, list, p, start, end)
    BY MultipleForms DEF size
  <2> QED
    BY <2>1 DEF FourForms
<1> HIDE DEF end, start, done
<1>6. save.core = p /\ save.mem = stored /\ save.result = Failure(list, done)
  <2>1. save = Asserted(Outcome(p, stored, Failure(list, done)), start, end,
                        Attempts(list, start))
    BY <1>5 DEF stm2, reg, done
  <2> HIDE DEF save, stored
  <2> QED
    BY <2>1, AssertedParts
<1> HIDE DEF save
<1> SUFFICES ASSUME save.result = NO_EXCEPTION
             PROVE  reload.result = NO_EXCEPTION /\ reload.core = p
  BY Zenon DEF save
<1>7. done = list /\ InMemory(list, start)
  BY <1>4, <1>6, StoredCompletely DEF done
<1>8. /\ wiped \in Core /\ wiped.cpsr = p.cpsr /\ wiped.spsr = p.spsr
      /\ \A r \in 0 .. 30 : wiped.storage[r] = IF r \in list \ {0} THEN 0 ELSE p.storage[r]
  <2>1. kept \in [0 .. 30 -> Word]
    <3>1. 0 \in Word
      BY Sizes DEF Word
    <3> QED
      BY <1>6, <3>1, CoreFields
  <2>2. \A r \in 0 .. 30 : kept[r] = IF r \in list \ {0} THEN 0 ELSE p.storage[r]
    BY <1>6
  <2> HIDE DEF kept
  <2>3. wiped \in Core /\ wiped.cpsr = p.cpsr /\ wiped.spsr = p.spsr /\ wiped.storage = kept
    BY <1>6, <2>1 DEF Core
  <2> QED
    BY <2>2, <2>3
<1> HIDE DEF wiped
<1>9. arm_read_register(wiped, 0) = base
  BY <1>8 DEF arm_read_register, registers, SP, LR, PC, FIQ
<1>10. reload = ldm2(wiped, save.mem, list, start, end)
  <2>1. FourForms(wiped, save.mem, TRUE, TRUE, FALSE, 0, list, wiped, start, end)
    BY <1>9, MultipleForms DEF size, start, end
  <2> QED
    BY <2>1 DEF FourForms
<1>11. reload.core = loaded /\ reload.result = NO_EXCEPTION
  <2>1. reload = Asserted(Outcome(loaded, save.mem, Failure(list, done)), start, end,
                          Attempts(list, start))
    BY <1>10 DEF ldm2, done
  <2> HIDE DEF reload, loaded
  <2>2. Failure(list, done) = NO_EXCEPTION
    BY <1>7 DEF Failure
  <2> QED
    BY <2>1, <2>2, AssertedParts
<1>12. HasRegisters(loaded, wiped, list, USR, reg)
  <2>1. BigEndian(wiped) = BigEndian(p) /\ USR \in ModeNumber
    BY <1>8 DEF BigEndian, USR, ModeNumber
  <2> QED
    BY <1>2, <1>4, <1>6, <1>7, <1>8, <2>1, LoadedBack
<1> HIDE DEF loaded, reload, base, stored
<1>13. \A i \in RegNumber : registers(USR, i) = i
  BY DEF registers, USR, FIQ, SVC, ABT, UND, IRQ
<1>14. \A r \in 0 .. 30 : loaded.storage[r] = p.storage[r]
  <2> TAKE r \in 0 .. 30
  <2>1. CASE r \in list
    BY <1>3, <1>12, <1>13, <2>1 DEF HasRegisters
  <2>2. CASE r \notin list
    BY <1>8, <1>12, <1>13, <2>2 DEF HasRegisters
  <2> QED
    BY <2>1, <2>2
<1>15. loaded = p
  BY <1>8, <1>12, <1>14, CoreEqual DEF HasRegisters
<1> QED
  BY <1>11, <1>15

-----------------------------------------------------------------------------
(* Stacks *)

(* A pop starts where the matching push started, ends where the code       *)
(* expects it, and leaves the stack pointer where it was.                  *)
LEMMA StackDiscipline ==
  ASSUME NEW base \in Word, NEW size \in Int, NEW before \in BOOLEAN, NEW up \in BOOLEAN
  PROVE  LET sp    == Signed(up, base, size)
             start == FirstSlot(base, size, before, up)
         IN  /\ Signed(~up, sp, size) = base
             /\ FirstSlot(sp, size, ~before, ~up) = start
             /\ LastSlot(sp, size, ~before, ~up) = (start + size - 4) % WordSize
<1>1. base \in Int /\ base % WordSize = base
  <2>1. base \in Nat /\ base < WordSize /\ WordSize \in Nat
    BY Sizes DEF Word
  <2> HIDE DEF WordSize
  <2> QED
    BY <2>1
<1>2. \A x, y \in Int : ((x % WordSize) + y) % WordSize = (x + y) % WordSize
  BY WrapOnTheWay
<1>3. CASE up
  <2> DEFINE sp == (base + size) % WordSize
  <2>1. Signed(up, base, size) = sp
    BY <1>3 DEF Signed
  <2>2. sp \in Int
    <3>1. base + size \in Int
      BY <1>1
    <3>2. sp \in Word
      BY <3>1, Wraps
    <3> QED
      BY <3>2, Widths
  <2>3. (sp - size) % WordSize = base
    <3>1. (sp + (-size)) % WordSize = (base + size + (-size)) % WordSize
      BY <1>1, <1>2
    <3>2. sp + (-size) = sp - size /\ base + size + (-size) = base
      BY <1>1, <2>2
    <3> QED
      BY <1>1, <3>1, <3>2
  <2>4. (sp - size + 4) % WordSize = (base + 4) % WordSize
    <3>1. (sp + (4 - size)) % WordSize = (base + size + (4 - size)) % WordSize
      BY <1>1, <1>2
    <3>2. sp + (4 - size) = sp - size + 4 /\ base + size + (4 - size) = base + 4
      BY <1>1, <2>2
    <3> QED
      BY <3>1, <3>2
  <2>5. (sp - 4) % WordSize = (base + size - 4) % WordSize
    <3>1. (sp + (-4)) % WordSize = (base + size + (-4)) % WordSize
      BY <1>1, <1>2
    <3>2. sp + (-4) = sp - 4 /\ base + size + (-4) = base + size - 4
      BY <1>1, <2>2
    <3> QED
      BY <3>1, <3>2
  <2>6. sp = (((base + 4) % WordSize) + size - 4) % WordSize
    <3>1. (((base + 4) % WordSize) + (size - 4)) % WordSize
            = (base + 4 + (size - 4)) % WordSize
      BY <1>1, <1>2
    <3>2. base + 4 + (size - 4) = base + size
      BY <1>1
    <3>3. ((base + 4) % WordSize) + (size - 4) = ((base + 4) % WordSize) + size - 4
      BY <1>1, Wraps, Widths
    <3> QED
      BY <3>1, <3>2, <3>3
  <2> HIDE DEF sp
  <2> QED
    BY <1>3, <2>1, <2>3, <2>4, <2>5, <2>6 DEF Signed, FirstSlot, LastSlot
<1>4. CASE ~up
  <2> DEFINE sp == (base - size) % WordSize
  <2>1. Signed(up, base, size) = sp
    BY <1>4 DEF Signed
  <2>2. sp \in Int
    <3>1. base - size \in Int
      BY <1>1
    <3>2. sp \in Word
      BY <3>1, Wraps
    <3> QED
      BY <3>2, Widths
  <2>3. (sp + size) % WordSize = base
    <3>1. (sp + size) % WordSize = (base - size + size) % WordSize
      BY <1>1, <1>2
    <3>2. base - size + size = base
      BY <1>1
    <3> QED
      BY <1>1, <3>1, <3>2
  <2>4. (sp + 4) % WordSize = (base - size + 4) % WordSize
    BY <1>1, <1>2
  <2>5. (sp + size - 4) % WordSize = (base - 4) % WordSize
    <3>1. (sp + (size - 4)) % WordSize = (base - size + (size - 4)) % WordSize
      BY <1>1, <1>2
    <3>2. sp + (size - 4) = sp + size - 4 /\ base - size + (size - 4) = base - 4
      BY <1>1, <2>2
    <3> QED
      BY <3>1, <3>2
  <2>6. base = (((base - size + 4) % WordSize) + size - 4) % WordSize
    <3>1. (((base - size + 4) % WordSize) + (size - 4)) % WordSize
            = (base - size + 4 + (size - 4)) % WordSize
      BY <1>1, <1>2
    <3>2. base - size + 4 + (size - 4) = base
      BY <1>1
    <3>3. ((base - size + 4) % WordSize) + (size - 4) = ((base - size + 4) % WordSize) + size - 4
      BY <1>1, Wraps, Widths
    <3> QED
      BY <1>1, <3>1, <3>2, <3>3
  <2> HIDE DEF sp
  <2> QED
    BY <1>4, <2>1, <2>3, <2>4, <2>5, <2>6 DEF Signed, FirstSlot, LastSlot
<1> QED
  BY <1>3, <1>4

(* p after the pushed registers have been used for something else.         *)
LEMMA ClobberedCore ==
  ASSUME NEW p \in Core, NEW list \in SUBSET RegNumber
  PROVE  LET q == Clobbered(p, list)
         IN  /\ q \in Core /\ q.cpsr = p.cpsr /\ q.spsr = p.spsr
             /\ \A r \in 0 .. 30 : (\A i \in list : registers(p.cpsr.mode, i) # r) =>
                                     q.storage[r] = p.storage[r]
<1> DEFINE value(r) == IF \E i \in list : registers(p.cpsr.mode, i) = r THEN 0 ELSE p.storage[r]
           storage == [r \in 0 .. 30 |-> value(r)]
           q == Clobbered(p, list)
<1>1. q = [p EXCEPT !.storage = storage]
  BY Zenon DEF Clobbered, Mode
<1>2. \A r \in 0 .. 30 : value(r) \in Word
  <2>1. 0 \in Word
    BY Sizes DEF Word
  <2> QED
    BY <2>1, CoreFields
<1>3. \A r \in 0 .. 30 : (\A i \in list : registers(p.cpsr.mode, i) # r) => value(r) = p.storage[r]
  OBVIOUS
<1> HIDE DEF value, q
<1>4. storage \in [0 .. 30 -> Word] /\ \A r \in 0 .. 30 : storage[r] = value(r)
  BY <1>2
<1> HIDE DEF storage
<1>5. q \in Core /\ q.storage = storage /\ q.cpsr = p.cpsr /\ q.spsr = p.spsr
  BY <1>1, <1>4 DEF Core
<1> QED
  BY <1>3, <1>4, <1>5 DEF q

(* A push that does not abort is undone by the matching pop.               *)
PopGivesBack(p, m, list, before, up) ==
  LET push == arm_load_store_multiple(p, m,
                Multiple(FALSE, FALSE, before, up, TRUE, SP, list))
      pop  == arm_load_store_multiple(Clobbered(push.core, list), push.mem,
                Multiple(TRUE, FALSE, ~before, ~up, TRUE, SP, list))
  IN  push.process = "running" /\ push.result = NO_EXCEPTION =>
        /\ pop.process = "running"
        /\ pop.result = NO_EXCEPTION
        /\ Visible(pop.core) = Visible(p)

(* A push and the matching pop (stm1, then ldm1).                          *)
LEMMA PushThenPop ==
  ASSUME NEW p \in Core, NEW m \in Contents, NEW list \in SUBSET RegNumber,
         SP \notin list, PC \notin list, NEW before \in BOOLEAN, NEW up \in BOOLEAN
  PROVE  PopGivesBack(p, m, list, before, up)
<1> DEFINE size   == 4 * Cardinality(list)
           base   == arm_read_register(p, SP)
           start  == FirstSlot(base, size, before, up)
           end    == LastSlot(base, size, before, up)
           sp     == Signed(up, base, size)
           pushed == arm_write_register(p, SP, sp)
           reg    == [i \in RegNumber |-> arm_read_register(pushed, i)]
           done   == Done(list, start)
           stored == Stored(pushed, m, list, start, done, reg)
           push   == arm_load_store_multiple(p, m,
                       Multiple(FALSE, FALSE, before, up, TRUE, SP, list))
           used   == Clobbered(push.core, list)
           last   == LastSlot(sp, size, ~before, ~up)
           popped == arm_write_register(used, SP, base)
           loaded == Loaded(popped, push.mem, list, start, done, popped.cpsr.mode)
           pop    == arm_load_store_multiple(used, push.mem,
                       Multiple(TRUE, FALSE, ~before, ~up, TRUE, SP, list))
           mode   == p.cpsr.mode
<1>1. /\ SP \in RegNumber /\ SP # PC /\ mode \in ModeNumber
      /\ \A r \in RegNumber : registers(mode, r) \in 0 .. 30
      /\ \A r \in 0 .. 14 : r \in RegNumber /\ r # PC
  BY CoreFields, RegistersType DEF RegNumber, SP, PC
<1>2. base \in Word /\ size \in Int /\ size = 4 * Cardinality(list)
  BY <1>1, CountType, ReadRegisterType
<1>3. base = p.storage[registers(mode, SP)]
  BY <1>1 DEF arm_read_register
<1> HIDE DEF size, base
<1>4. sp \in Word /\ start \in Word
  BY <1>2, FirstSlotType, SignedType, Widths
<1>5. /\ Signed(~up, sp, size) = base
      /\ FirstSlot(sp, size, ~before, ~up) = start
      /\ last = (start + size - 4) % WordSize
  <2> HIDE DEF last
  <2> QED
    BY <1>2, StackDiscipline DEF last
<1>6. push = stm1(pushed, m, list, start, end)
  <2>1. FourForms(p, m, before, up, TRUE, SP, list, pushed, start, end)
    BY MultipleForms DEF size, base
  <2> QED
    BY <2>1 DEF FourForms
<1> HIDE DEF end, start, done, sp, last
<1>7. RegisterWritten(p, pushed, SP, sp)
  BY <1>1, <1>4, WriteRegister
<1> HIDE DEF pushed
<1>8. pushed \in Core /\ pushed.cpsr = p.cpsr /\ pushed.spsr = p.spsr
  BY <1>7 DEF RegisterWritten
<1>9. /\ reg \in [RegNumber -> Word]
      /\ \A i \in list : reg[i] = p.storage[registers(mode, i)]
  <2>1. reg \in [RegNumber -> Word]
    BY <1>8, ReadRegisterType
  <2>2. ASSUME NEW i \in list PROVE reg[i] = p.storage[registers(mode, i)]
    <3>1. i # SP /\ i # PC /\ i \in RegNumber
      OBVIOUS
    <3>2. registers(mode, i) # registers(mode, SP)
      BY <1>1, <3>1, RegistersDistinct
    <3>3. reg[i] = pushed.storage[registers(mode, i)]
      BY <1>8, <3>1 DEF arm_read_register
    <3> QED
      BY <1>1, <1>7, <3>1, <3>2, <3>3 DEF RegisterWritten
  <2> QED
    BY <2>1, <2>2
<1>10. push.core = pushed /\ push.mem = stored /\ push.result = Failure(list, done)
  <2>1. push = Asserted(Outcome(pushed, stored, Failure(list, done)), start, end,
                        Attempts(list, start))
    BY <1>6 DEF stm1, done
  <2> HIDE DEF push, stored
  <2> QED
    BY <2>1, AssertedParts
<1> HIDE DEF push, reg
<1> SUFFICES ASSUME push.result = NO_EXCEPTION
             PROVE  /\ pop.process = "running" /\ pop.result = NO_EXCEPTION
                    /\ Visible(pop.core) = Visible(p)
  BY Zenon DEF PopGivesBack, push, pop, used
<1>11. done = list /\ InMemory(list, start)
  BY <1>4, <1>10, StoredCompletely DEF done
<1>12. /\ used \in Core /\ used.cpsr = p.cpsr /\ used.spsr = p.spsr
       /\ \A r \in 0 .. 30 : (\A i \in list : registers(mode, i) # r) =>
                               used.storage[r] = pushed.storage[r]
  BY <1>8, <1>10, ClobberedCore
<1> HIDE DEF used
<1>13. arm_read_register(used, SP) = sp
  <2>1. registers(mode, SP) \in 0 .. 30 /\ \A i \in list : registers(mode, i) # registers(mode, SP)
    BY <1>1, RegistersDistinct
  <2>2. used.storage[registers(mode, SP)] = sp
    BY <1>7, <1>12, <2>1 DEF RegisterWritten
  <2> QED
    BY <1>1, <1>12, <2>2 DEF arm_read_register
<1>14. pop = ldm1(popped, push.mem, list, start, last, 0)
  <2>1. FourForms(used, push.mem, ~before, ~up, TRUE, SP, list, popped, start, last)
    BY <1>5, <1>13, MultipleForms DEF size, last
  <2> QED
    BY <2>1 DEF FourForms
<1>15. RegisterWritten(used, popped, SP, base)
  BY <1>1, <1>2, <1>12, WriteRegister
<1> HIDE DEF popped
<1>16. popped \in Core /\ popped.cpsr = p.cpsr
  BY <1>12, <1>15 DEF RegisterWritten
<1>17. pop.core = loaded /\ pop.result = NO_EXCEPTION /\ pop.process = "running"
  <2>1. list \ {PC} = list
    OBVIOUS
  <2>2. pop = Asserted(Outcome(loaded, push.mem, Failure(list, done)), start, last,
                       Attempts(list, start))
    BY <1>14, <2>1 DEF ldm1, done
  <2> HIDE DEF pop, loaded
  <2>3. Failure(list, done) = NO_EXCEPTION /\ Attempts(list, start) = Cardinality(list)
    <3>1. Cardinality(list) \in Nat
      BY CountType
    <3> QED
      BY <1>11, <3>1 DEF Failure, Attempts, done
  <2>4. last = (start + 4 * Attempts(list, start) - 4) % WordSize
    BY <1>2, <1>5, <2>3
  <2> QED
    BY <2>2, <2>3, <2>4, AssertedParts
<1>18. HasRegisters(loaded, popped, list, mode, reg)
  <2>1. BigEndian(popped) = BigEndian(pushed)
    BY <1>8, <1>16 DEF BigEndian
  <2> QED
    BY <1>1, <1>4, <1>8, <1>9, <1>10, <1>11, <1>16, <2>1, LoadedBack
<1> HIDE DEF loaded, pop, mode
<1>19. ASSUME NEW r \in 0 .. 14
       PROVE  arm_read_register(loaded, r) = arm_read_register(p, r)
  <2> DEFINE x == registers(mode, r)
  <2>1. /\ arm_read_register(loaded, r) = loaded.storage[x]
        /\ arm_read_register(p, r) = p.storage[x]
    BY <1>1, <1>16, <1>18 DEF arm_read_register, HasRegisters, mode
  <2>2. CASE r \in list
    BY <1>9, <1>18, <2>1, <2>2 DEF HasRegisters
  <2>3. CASE r \notin list
    <3>1. x \in 0 .. 30 /\ \A i \in list : registers(mode, i) # x
      BY <1>1, <2>3, RegistersDistinct
    <3>2. loaded.storage[x] = popped.storage[x]
      BY <1>18, <3>1 DEF HasRegisters
    <3>3. CASE r = SP
      BY <1>3, <1>12, <1>15, <2>1, <3>2, <3>3 DEF RegisterWritten, mode
    <3>4. CASE r # SP
      <4>1. x # registers(mode, SP)
        BY <1>1, <3>4, RegistersDistinct
      <4>2. popped.storage[x] = used.storage[x]
        BY <1>12, <1>15, <3>1, <4>1 DEF RegisterWritten, mode
      <4>3. pushed.storage[x] = p.storage[x]
        BY <1>7, <3>1, <4>1 DEF RegisterWritten, mode
      <4> QED
        BY <1>12, <2>1, <3>1, <3>2, <4>2, <4>3
    <3> QED
      BY <3>3, <3>4
  <2> QED
    BY <2>2, <2>3
<1>20. Visible(loaded) = Visible(p)
  BY <1>19 DEF Visible
<1> QED
  BY <1>17, <1>20

-----------------------------------------------------------------------------
(* Aborts *)

(* An outcome that aborts has left the core and the memory as they were.   *)
Untouched(p, m, o) ==
  o.result = DATA_ABORT => o.core = p /\ o.mem = m /\ o.process = "running"

(* An access out of bounds is the only way to abort, and it changes        *)
(* nothing (the handlers of single transfers, ldrd left out).              *)
LEMMA AccessUntouched ==
  ASSUME NEW p \in Core, NEW m \in Contents, NEW rd \in RegNumber, NEW a \in Word, NEW junk
  PROVE  /\ Untouched(p, m, ldr(p, m, rd, a)) /\ Untouched(p, m, str(p, m, rd, a))
         /\ Untouched(p, m, ldrb(p, m, rd, a)) /\ Untouched(p, m, strb(p, m, rd, a))
         /\ Untouched(p, m, ldrh(p, m, rd, a)) /\ Untouched(p, m, strh(p, m, rd, a))
         /\ Untouched(p, m, ldrsb(p, m, rd, a)) /\ Untouched(p, m, ldrsh(p, m, rd, a, junk))
         /\ Untouched(p, m, strd(p, m, rd, a))
<1>1. NO_EXCEPTION # DATA_ABORT
  BY DEF NO_EXCEPTION, DATA_ABORT
<1>2. \A q : Untouched(p, m, Outcome(q, m, NO_EXCEPTION)) /\ Untouched(p, m, Outcome(p, m, DATA_ABORT))
  BY <1>1 DEF Untouched, Outcome
<1>3. Untouched(p, m, ldr(p, m, rd, a))
  BY <1>2 DEF ldr
<1>4. Untouched(p, m, ldrb(p, m, rd, a)) /\ Untouched(p, m, ldrsb(p, m, rd, a))
  BY <1>2 DEF ldrb, ldrsb
<1>5. Untouched(p, m, ldrh(p, m, rd, a))
  BY <1>2 DEF ldrh
<1>6. Untouched(p, m, ldrsh(p, m, rd, a, junk))
  BY <1>2, Zenon DEF ldrsh
<1>7. Untouched(p, m, str(p, m, rd, a))
  BY <1>1 DEF str, Untouched, Outcome, memory_write_word, memory_write_bytes
<1>8. Untouched(p, m, strb(p, m, rd, a))
  BY <1>1 DEF strb, Untouched, Outcome, memory_write_byte, memory_write_bytes
<1>9. Untouched(p, m, strh(p, m, rd, a))
  BY <1>1 DEF strh, Untouched, Outcome, memory_write_half, memory_write_bytes
<1>10. Untouched(p, m, strd(p, m, rd, a))
  <2> DEFINE next == (a + 4) % WordSize
  <2>1. CASE a % 8 = 0 /\ InBounds(a, 4)
    <3>1. a \in Nat /\ 4 \in Word /\ WordSize \in Nat /\ MemSize \in Nat /\ MemSize <= WordSize
      BY Sizes, MemoryAssumption DEF Word
    <3>2. (a + 4) % WordSize = IF a + 4 >= WordSize THEN a + 4 - WordSize ELSE a + 4
      BY <3>1, OneTurn
    <3> HIDE DEF WordSize
    <3>3. a + 4 + 3 < MemSize
      BY <2>1, <3>1, LayoutAssumption DEF InBounds
    <3>4. InBounds(next, 4)
      BY <3>1, <3>2, <3>3 DEF InBounds
    <3> HIDE DEF next
    <3>5. \A w : str(p, w, rd + 1, next).result = NO_EXCEPTION
      BY <3>4 DEF str, Outcome
    <3>6. strd(p, m, rd, a).result = NO_EXCEPTION
      BY <2>1, <3>5 DEF strd, Outcome, next
    <3> QED
      BY <1>1, <3>6 DEF Untouched
  <2>2. CASE ~(a % 8 = 0 /\ InBounds(a, 4))
    BY <1>2, <2>2 DEF strd
  <2> QED
    BY <2>1, <2>2
<1> QED
  BY <1>3, <1>4, <1>5, <1>6, <1>7, <1>8, <1>9, <1>10

(* A transfer without write back that aborts has done nothing.             *)
LEMMA TransferUntouched ==
  ASSUME NEW p \in Core, NEW m \in Contents, NEW ins \in Transfers
  PROVE  Untouched(p, m, Handle(p, m, ins))
<1>1. /\ ins \in SingleInstr \cup MiscInstr /\ ins.p /\ ~ins.w
      /\ ins.op = "MISC" => ins.kind # 2
  BY TransferAssumption
<1>2. CASE ins \in SingleInstr
  <2> DEFINE a == Target(p, ins, ScaledOffset(p, ins))
  <2>1. /\ ins.op = "LDST" /\ ins.l \in BOOLEAN /\ ins.b \in BOOLEAN
        /\ ins.rd \in RegNumber /\ ins.rn \in RegNumber /\ ins.rm \in 0 .. NoReg
        /\ ins.imm \in 0 .. 4095 /\ ins.shift \in Shift /\ ins.amount \in Amount
    BY <1>2 DEF SingleInstr
  <2>2. a \in Word
    BY <2>1, OffsetType, AddressType
  <2>3. Indexed(p, ins, ScaledOffset(p, ins)) = p
    BY <1>1 DEF Indexed
  <2>4. Handle(p, m, ins) = arm_load_store(p, m, ins)
    BY <2>1 DEF Handle
  <2>5. arm_load_store(p, m, ins) \in
          {ldrb(p, m, ins.rd, a), ldr(p, m, ins.rd, a),
           strb(p, m, ins.rd, a), str(p, m, ins.rd, a)}
    BY <1>1, <2>1, <2>3 DEF arm_load_store
  <2> HIDE DEF a
  <2> QED
    BY <2>1, <2>2, <2>4, <2>5, AccessUntouched
<1>3. CASE ins \in MiscInstr
  <2> DEFINE a == Target(p, ins, PlainOffset(p, ins))
  <2>1. /\ ins.op = "MISC" /\ ins.kind \in 0 .. 7
        /\ ins.rd \in RegNumber /\ ins.rn \in RegNumber /\ ins.rm \in 0 .. NoReg
        /\ ins.imm \in 0 .. 255
    BY <1>3 DEF MiscInstr
  <2>2. a \in Word
    BY <2>1, OffsetType, AddressType
  <2>3. Indexed(p, ins, PlainOffset(p, ins)) = p
    BY <1>1 DEF Indexed
  <2>4. Handle(p, m, ins) = arm_load_store_miscellaneous(p, m, ins)
    BY <2>1 DEF Handle
  <2>5. arm_load_store_miscellaneous(p, m, ins) \in
          {strh(p, m, ins.rd, a), strd(p, m, ins.rd, a), ldrh(p, m, ins.rd, a),
           ldrsb(p, m, ins.rd, a), ldrsh(p, m, ins.rd, a, ins.junk),
           Outcome(p, m, NO_EXCEPTION)}
    BY <1>1, <2>1, <2>3 DEF arm_load_store_miscellaneous
  <2> HIDE DEF a
  <2>6. Untouched(p, m, Outcome(p, m, NO_EXCEPTION))
    BY DEF Untouched, Outcome
  <2> QED
    BY <2>1, <2>2, <2>4, <2>5, <2>6, AccessUntouched
<1> QED
  BY <1>1, <1>2, <1>3

(* The step of an aborting transfer is the fetch and handle_data_abort.    *)
LEMMA AbortingStep ==
  ASSUME NEW p \in Core, NEW m \in Contents, NEW ins \in Transfers, ~FetchFails(p),
         arm_step(p, m, ins).result = DATA_ABORT
  PROVE  /\ arm_step(p, m, ins).core = handle_data_abort(arm_fetch(p))
         /\ arm_step(p, m, ins).mem = m
<1> DEFINE q == arm_fetch(p)
           o == arm_execute_instruction(p, m, ins)
<1>1. arm_step(p, m, ins).result = o.result
  BY DEF arm_step, WithException
<1>2. q \in Core
  BY CurrentIsFetched DEF RegisterWritten
<1>3. o \in {Outcome(q, m, UNDEFINED_INSTRUCTION), Outcome(q, m, NO_EXCEPTION),
             Handle(q, m, ins)}
  BY DEF arm_execute_instruction
<1> HIDE DEF o, q
<1>4. Untouched(q, m, o)
  <2>1. /\ Untouched(q, m, Outcome(q, m, UNDEFINED_INSTRUCTION))
        /\ Untouched(q, m, Outcome(q, m, NO_EXCEPTION))
    BY DEF Untouched, Outcome
  <2>2. Untouched(q, m, Handle(q, m, ins))
    BY <1>2, TransferUntouched
  <2> QED
    BY <1>3, <2>1, <2>2
<1>5. o.result = DATA_ABORT /\ o.core = q /\ o.mem = m /\ o.process = "running"
  BY <1>1, <1>4 DEF Untouched
<1>6. arm_step(p, m, ins) = [o EXCEPT !.core = arm_exception(q, DATA_ABORT)]
  BY <1>5 DEF arm_step, WithException, o, NO_EXCEPTION, DATA_ABORT
<1>7. arm_exception(q, DATA_ABORT) = handle_data_abort(q)
  BY DEF arm_exception, RESET, UNDEFINED_INSTRUCTION, SOFTWARE_INTERRUPT, PREFETCH_ABORT,
     DATA_ABORT, INTERRUPT, FAST_INTERRUPT
<1>8. o \in Outcomes
  <2>1. o.result = DATA_ABORT
    BY <1>5
  <2>2. o = Handle(q, m, ins)
    BY <1>3, <2>1 DEF Outcome, UNDEFINED_INSTRUCTION, NO_EXCEPTION, DATA_ABORT
  <2>3. ins \in SingleInstr \/ ins \in MiscInstr
    BY TransferAssumption
  <2>4. ins \in SingleInstr => Handle(q, m, ins) = arm_load_store(q, m, ins)
    BY DEF Handle, SingleInstr
  <2>5. ins \in MiscInstr => Handle(q, m, ins) = arm_load_store_miscellaneous(q, m, ins)
    BY DEF Handle, MiscInstr
  <2> QED
    BY <1>2, <2>2, <2>3, <2>4, <2>5, LoadStoreFine, MiscellaneousFine DEF Fine
<1> QED
  BY <1>5, <1>6, <1>7, <1>8 DEF Outcomes, q

(* SUBS PC, LR, #8 *)
SubsPcLr8 == [op |-> "DP", cond |-> ALWAYS, s |-> TRUE, code |-> "SUB",
              rd |-> PC, rn |-> LR, rm |-> NoReg, shift |-> LSL,
              amount |-> 0, rs |-> NoReg, imm |-> 8, rotate |-> 0]

(* Condition AL holds whatever the flags are.                              *)
LEMMA AlwaysHolds == ASSUME NEW p PROVE instruction_check_condition(p, ALWAYS)
<1> DEFINE n == FlagN(p.cpsr) = 1
           z == FlagZ(p.cpsr) = 1
           c == FlagC(p.cpsr) = 1
           v == FlagV(p.cpsr) = 1
           holds == <<z, c, n, v, c /\ ~z, n = v, ~z /\ n = v, TRUE>>
<1>1. instruction_check_condition(p, ALWAYS)
        = (holds[(ALWAYS \div 2) + 1] = (ALWAYS % 2 = 0))
  BY DEF instruction_check_condition
<1>2. holds[8] = TRUE
  OBVIOUS
<1>3. (ALWAYS \div 2) + 1 = 8 /\ (ALWAYS % 2 = 0) = TRUE
  BY DEF ALWAYS
<1> HIDE DEF holds
<1> QED
  BY <1>1, <1>2, <1>3, Zenon

(* The operand #8 is 8.                                                    *)
LEMMA EightOperand == ASSUME NEW p PROVE ShifterOperand(p, SubsPcLr8).value = 8
<1>1. /\ SubsPcLr8.rm = NoReg /\ SubsPcLr8.imm = 8 /\ SubsPcLr8.rotate = 0
  BY DEF SubsPcLr8
<1>2. 0 % WordBits = 0 /\ 2 * 0 = 0
  BY WidthAssumption
<1>3. ror(8, 0) = 8
  BY <1>2 DEF ror
<1>4. 8 % WordSize = 8
  <2>1. WordSize \in Nat /\ WordSize > 8
    BY Sizes
  <2> HIDE DEF WordSize
  <2> QED
    BY <2>1
<1> QED
  BY <1>1, <1>2, <1>3, <1>4 DEF ShifterOperand, get_immediate, Shifted

(* Returning from an abort: the saved status comes back, and the program   *)
(* counter is the link less 8.                                             *)
LEMMA ReturnFromAbort ==
  ASSUME NEW q \in Core, NEW m, q.cpsr.mode = ABT, ~FetchFails(q)
  PROVE  LET back == arm_step(q, m, SubsPcLr8).core
         IN  /\ back \in Core
             /\ back.cpsr = q.spsr[ABT]
             /\ back.storage[PC] = (q.storage[registers(ABT, LR)] - 8) % WordSize
             /\ \A r \in 0 .. 30 : r # PC => back.storage[r] = q.storage[r]
<1> DEFINE f     == arm_fetch(q)
           link  == arm_read_register(f, LR)
           value == (link - 8) % WordSize
           saved == arm_write_cpsr(f, arm_read_spsr(f))
           back  == arm_write_register(saved, PC, value)
<1>1. RegisterWritten(q, f, PC, (FetchAddress(q) + 4) % WordSize)
  BY CurrentIsFetched
<1> HIDE DEF f
<1>2. /\ f \in Core /\ f.cpsr = q.cpsr /\ f.spsr = q.spsr
      /\ LR \in RegNumber /\ PC \in RegNumber /\ LR # PC
  BY <1>1 DEF RegisterWritten, LR, PC, RegNumber
<1>3. arm_data_processing(f, SubsPcLr8) = back
  <2>1. /\ SubsPcLr8.code = "SUB" /\ SubsPcLr8.s = TRUE /\ SubsPcLr8.rd = PC
        /\ SubsPcLr8.rn = LR
    BY DEF SubsPcLr8
  <2>2. arm_current_mode_has_spsr(f)
    BY <1>2 DEF arm_current_mode_has_spsr, ABT, USR, SYS
  <2>3. dp_result(f.cpsr, "SUB", link, 8) = value
    BY DEF dp_result
  <2>4. ASSUME NEW flags PROVE dp_write(f, SubsPcLr8, flags, value) = back
    BY <2>1, <2>2 DEF dp_write, Tests
  <2>5. "SUB" \notin {"MOV", "MVN"}
    OBVIOUS
  <2> HIDE DEF value, back, link
  <2> QED
    BY <2>1, <2>3, <2>4, <2>5, EightOperand DEF arm_data_processing, dp_operation, link
<1>4. arm_step(q, m, SubsPcLr8).core = back
  <2>1. SubsPcLr8.op = "DP" /\ SubsPcLr8.cond = ALWAYS /\ ALWAYS # NEVER
    BY DEF SubsPcLr8, ALWAYS, NEVER
  <2>2. arm_execute_instruction(q, m, SubsPcLr8) = Outcome(back, m, NO_EXCEPTION)
    BY <1>3, <2>1, AlwaysHolds DEF arm_execute_instruction, Handle, f
  <2> HIDE DEF back
  <2> QED
    BY <2>2 DEF arm_step, WithException, Outcome
<1>5. StatusWritten(f, saved, q.spsr[ABT])
  <2>1. arm_read_spsr(f) = q.spsr[ABT] /\ q.spsr[ABT] \in PSR
    BY <1>2, CoreFields DEF arm_read_spsr
  <2> QED
    BY <1>2, <2>1, WriteStatus
<1> HIDE DEF saved
<1>6. value \in Word
  <2>1. link \in Int
    BY <1>2, ReadRegisterType, Widths
  <2>2. link - 8 \in Int
    BY <2>1
  <2> QED
    BY <2>2, Wraps
<1>7. /\ registers(ABT, LR) \in 0 .. 30 /\ registers(ABT, LR) # PC
      /\ registers(q.cpsr.mode, PC) = PC
  BY CoreFields, RegistersType DEF registers, ABT, FIQ, SVC, SP, LR, PC
<1>8. link = q.storage[registers(ABT, LR)]
  BY <1>1, <1>2, <1>7 DEF RegisterWritten, arm_read_register
<1> HIDE DEF value, link
<1>9. RegisterWritten(saved, back, PC, value)
  BY <1>2, <1>5, <1>6, WriteRegister DEF StatusWritten
<1>10. registers(saved.cpsr.mode, PC) = PC
  BY <1>5, CoreFields, RegistersType DEF StatusWritten, RegNumber, PC
<1> HIDE DEF back
<1>11. /\ back \in Core /\ back.cpsr = q.spsr[ABT] /\ back.storage[PC] = value
  BY <1>5, <1>9, <1>10 DEF StatusWritten, RegisterWritten
<1>12. \A r \in 0 .. 30 : r # PC => back.storage[r] = q.storage[r]
  BY <1>1, <1>5, <1>7, <1>9, <1>10 DEF StatusWritten, RegisterWritten
<1> QED
  BY <1>4, <1>8, <1>11, <1>12 DEF value

(* What the handler that returns with SUBS PC, LR, #8 gives back.          *)
LEMMA Restarted ==
  ASSUME NEW p \in Core, NEW m \in Contents, NEW ins \in Transfers, ~FetchFails(p),
         arm_step(p, m, ins).result = DATA_ABORT
  PROVE  LET o    == arm_step(p, m, ins)
             back == arm_step(o.core, o.mem, SubsPcLr8).core
         IN  /\ FetchAddress(back) = FetchAddress(p)
             /\ back.cpsr = p.cpsr
             /\ p.cpsr.mode # ABT => Visible(back) = Visible(p)
             /\ o.mem = m
<1> DEFINE F    == FetchAddress(p)
           q    == arm_fetch(p)
           link == (arm_address_current_instruction(q) + 8) % WordSize
           e    == handle_data_abort(q)
           back == arm_step(e, m, SubsPcLr8).core
           n    == (F + 4) % WordSize
<1>1. F \in Word /\ FetchedFrom(F) = F /\ arm_address_current_instruction(q) = F
  BY CurrentIsFetched
<1>2. RegisterWritten(p, q, PC, n)
  BY CurrentIsFetched
<1>3. q \in Core /\ q.cpsr = p.cpsr
  BY <1>2 DEF RegisterWritten
<1> HIDE DEF F, q, n
<1>4. F \in Int /\ link \in Word
  <2>1. F \in Int
    BY <1>1, Widths
  <2> QED
    BY <1>1, <2>1, Wraps
<1>5. ExceptionEntered(q, e, ABT, link, 16)
  <2>1. Vector.DABT = 16
    BY DEF Vector
  <2>2. ABT \in Entering /\ 16 \in 0 .. 28
    BY DEF Entering
  <2> HIDE DEF link
  <2> QED
    BY <1>3, <1>4, <2>1, <2>2, EnterExceptionEffect DEF handle_data_abort, link
<1> HIDE DEF e, link
<1>6. /\ e \in Core /\ e.cpsr.mode = ABT /\ e.spsr[ABT] = p.cpsr
      /\ e.storage[PC] = VectorBase + 16
      /\ e.storage[registers(ABT, LR)] = link
      /\ \A r \in (0 .. 30) \ {PC, registers(ABT, SP), registers(ABT, LR)} :
           e.storage[r] = q.storage[r]
  <2>1. p.cpsr \in PSR
    BY CoreFields
  <2>2. [p.cpsr EXCEPT !.mode = ABT, !.T = 0, !.I = 1, !.E = CP15_reg1_EEbit].mode = ABT
    BY <2>1 DEF PSR
  <2> QED
    BY <1>3, <1>5, <2>2 DEF ExceptionEntered
<1>7. ~FetchFails(e)
  <2>1. /\ VectorBase + 16 \in Word /\ (VectorBase + 16) % 4 = 0
        /\ VectorBase + 16 + 3 < MemSize
    <3>1. /\ VectorBase \in Nat /\ VectorBase + 28 < WordSize /\ WordSize \in Nat
          /\ MemSize \in Nat
      BY CoreAssumption, Sizes
    <3> HIDE DEF WordSize
    <3> QED
      BY <3>1, LayoutAssumption DEF Word
  <2>2. FetchAddress(e) = VectorBase + 16
    BY <1>6, <2>1, FetchedFromStorage, FetchedFromAligned
  <2>3. VectorBase \in Nat
    BY CoreAssumption
  <2> QED
    BY <2>1, <2>2, <2>3 DEF FetchFails, InBounds
<1>8. /\ back \in Core /\ back.cpsr = p.cpsr
      /\ back.storage[PC] = (link - 8) % WordSize
      /\ \A r \in 0 .. 30 : r # PC => back.storage[r] = e.storage[r]
  BY <1>6, <1>7, ReturnFromAbort
<1>9. (link - 8) % WordSize = F
  <2>1. (((F + 8) % WordSize) + (-8)) % WordSize = (F + 8 + (-8)) % WordSize
    BY <1>4, WrapOnTheWay
  <2>2. F + 8 + (-8) = F
    BY <1>4
  <2>3. F % WordSize = F
    <3>1. F \in Nat /\ F < WordSize /\ WordSize \in Nat
      BY <1>1, Sizes DEF Word
    <3> HIDE DEF WordSize
    <3> QED
      BY <3>1
  <2>4. link = (F + 8) % WordSize
    BY <1>1 DEF link
  <2>5. link + (-8) = link - 8
    BY <1>4, Widths
  <2> QED
    BY <2>1, <2>2, <2>3, <2>4, <2>5
<1> HIDE DEF back
<1>10. FetchAddress(back) = F
  BY <1>1, <1>8, <1>9, FetchedFromStorage
<1>11. ASSUME p.cpsr.mode # ABT PROVE Visible(back) = Visible(p)
  <2>1. ASSUME NEW r \in 0 .. 14
        PROVE  arm_read_register(back, r) = arm_read_register(p, r)
    <3> DEFINE x == registers(p.cpsr.mode, r)
    <3>1. p.cpsr.mode \in ModeNumber /\ r \in RegNumber /\ r # PC /\ PC \in RegNumber
      BY CoreFields DEF RegNumber, PC
    <3>2. x \in 0 .. 30 /\ x # PC /\ registers(p.cpsr.mode, PC) = PC
      <4>1. x \in 0 .. 30 /\ registers(p.cpsr.mode, PC) = PC
        BY <3>1, RegistersType
      <4>2. x # registers(p.cpsr.mode, PC)
        BY <3>1, RegistersDistinct
      <4> QED
        BY <4>1, <4>2
    <3>3. x # registers(ABT, SP) /\ x # registers(ABT, LR)
      BY <1>11, <3>1 DEF registers, RegNumber, FIQ, SVC, ABT, UND, IRQ, SP, LR, PC
    <3>4. /\ arm_read_register(back, r) = back.storage[x]
          /\ arm_read_register(p, r) = p.storage[x]
      BY <1>8, <3>1 DEF arm_read_register
    <3> HIDE DEF x
    <3>5. q.storage[x] = p.storage[x]
      BY <1>2, <3>2 DEF RegisterWritten
    <3> QED
      BY <1>6, <1>8, <3>2, <3>3, <3>4, <3>5
  <2> QED
    BY <2>1 DEF Visible
<1>12. arm_step(p, m, ins).core = e /\ arm_step(p, m, ins).mem = m
  BY AbortingStep DEF e, q
<1> QED
  BY <1>8, <1>10, <1>11, <1>12 DEF back, F

-----------------------------------------------------------------------------
(* The properties hold in every reachable state                            *)

(* A push with any of the four stack disciplines and the matching pop give *)
(* every register back, in every mode and byte order, for every register   *)
(* list, memory and word width (arm_load_store_multiple, stm1 and ldm1).   *)
THEOREM PushPopHolds == Spec => []PushPopRestores
<1>1. TypeOK => PushPopRestores
  <2> SUFFICES ASSUME TypeOK, NEW list \in Lists, NEW before \in BOOLEAN, NEW up \in BOOLEAN,
                      SP \notin list, PC \notin list
               PROVE  PopGivesBack(core, mem, list, before, up)
    BY Zenon DEF PushPopRestores, PopGivesBack
  <2>1. core \in Core /\ mem \in Contents /\ list \in SUBSET RegNumber
    BY TransferAssumption DEF TypeOK
  <2> QED
    BY <2>1, PushThenPop
<1> QED
  BY <1>1, TypeCorrect, PTL

(* The S forms save and reload the user registers and leave everything     *)
(* else alone, whatever the current mode is (stm2 and ldm2).               *)
THEOREM UserBankHolds == Spec => []UserBankSaved
<1>1. TypeOK => UserBankSaved
  <2> SUFFICES ASSUME TypeOK, NEW list \in Lists, PC \notin list
               PROVE  LET save   == arm_load_store_multiple(core, mem,
                                      Multiple(FALSE, TRUE, TRUE, TRUE, FALSE, 0, list))
                          wiped  == [save.core EXCEPT !.storage = [r \in 0 .. 30 |->
                                       IF r \in list \ {0} THEN 0 ELSE save.core.storage[r]]]
                          reload == arm_load_store_multiple(wiped, save.mem,
                                      Multiple(TRUE, TRUE, TRUE, TRUE, FALSE, 0, list))
                      IN  save.process = "running" /\ save.result = NO_EXCEPTION =>
                            reload.result = NO_EXCEPTION /\ reload.core = core
    BY Zenon DEF UserBankSaved
  <2>1. core \in Core /\ mem \in Contents /\ list \in SUBSET RegNumber
    BY TransferAssumption DEF TypeOK
  <2> QED
    BY <2>1, UserBankReloads, Zenon
<1> QED
  BY <1>1, TypeCorrect, PTL

(* A transfer without write back that aborts can be restarted by a handler *)
(* that returns with SUBS PC, LR, #8 (handle_data_abort's link, and the    *)
(* order in which the handlers of single transfers test and write).        *)
THEOREM AbortRestartHolds == Spec => []AbortRestarts
<1>1. TypeOK => AbortRestarts
  <2> SUFFICES ASSUME TypeOK, NEW ins \in Transfers, ~FetchFails(core),
                      arm_step(core, mem, ins).result = DATA_ABORT
               PROVE  LET o    == arm_step(core, mem, ins)
                          back == arm_step(o.core, o.mem, SubsPcLr8).core
                      IN  /\ FetchAddress(back) = FetchAddress(core)
                          /\ back.cpsr = core.cpsr
                          /\ core.cpsr.mode # ABT => Visible(back) = Visible(core)
                          /\ o.mem = mem
    BY Zenon DEF AbortRestarts, SubsPcLr8, Mode
  <2>1. core \in Core /\ mem \in Contents
    BY DEF TypeOK
  <2> QED
    BY <2>1, Restarted, Zenon
<1> QED
  BY <1>1, TypeCorrect, PTL
=============================================================================
