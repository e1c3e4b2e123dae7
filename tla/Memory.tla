------------------------------- MODULE Memory -------------------------------
(***************************************************************************)
(* The simulated memory of memory.c: a block of MemSize bytes, read and    *)
(* written one, two or four bytes at a time with an explicit byte order.   *)
(* The functions of memory.c are operators here; they take the contents    *)
(* `mem' and return a value or new contents, so that the processor can     *)
(* use them inside one atomic instruction.                                 *)
(*                                                                         *)
(* ByteSize is 256 in the program.  Everything is written for an arbitrary *)
(* even byte, so that TLC can use a narrow one: the C types uint8_t,       *)
(* uint16_t and uint32_t become Byte, Half and Word, and arithmetic on     *)
(* them is modulo WordSize.  Host integers are little-endian.              *)
(***************************************************************************)
EXTENDS Integers

CONSTANTS ByteSize,   \* number of values of a uint8_t
          MemSize     \* mem->size (memory_create(0x20000))

HalfSize == ByteSize * ByteSize
WordSize == HalfSize * HalfSize

Byte == 0 .. ByteSize - 1
Half == 0 .. HalfSize - 1
Word == 0 .. WordSize - 1

(* A byte holds at least four bits; the block is not empty and every one   *)
(* of its addresses is a Word.                                             *)
ASSUME MemoryAssumption ==
  /\ ByteSize \in Nat /\ ByteSize >= 16 /\ ByteSize % 2 = 0
  /\ MemSize \in 1 .. WordSize

Address  == 0 .. MemSize - 1
Contents == [Address -> Byte]

-----------------------------------------------------------------------------
(* Host representation of integers: byte i has weight ByteSize^i.          *)

Weight(i) == IF i = 0 THEN 1
             ELSE IF i = 1 THEN ByteSize
             ELSE IF i = 2 THEN HalfSize
             ELSE HalfSize * ByteSize

ByteOf(v, i) == (v \div Weight(i)) % ByteSize

HalfOf(b) == b[0] + ByteSize * b[1]
WordOf(b) == HalfOf(b) + HalfSize * (b[2] + ByteSize * b[3])

-----------------------------------------------------------------------------
(* The bound test is made in size_t, so it does not wrap around.           *)
InBounds(address, len) == address + len - 1 < MemSize

(* The place of byte i of an access of len bytes.                          *)
Place(be, address, len, i) == IF be THEN address + len - i - 1 ELSE address + i

memory_read_bytes(mem, be, address, len) ==
  [i \in 0 .. len - 1 |-> mem[Place(be, address, len, i)]]

memory_write_bytes(mem, be, address, bytes, len) ==
  IF ~InBounds(address, len) THEN mem
  ELSE [a \in Address |->
          IF a \in address .. address + len - 1
          THEN bytes[IF be THEN address + len - 1 - a ELSE a - address]
          ELSE mem[a]]

(* The public readers; their value is defined when InBounds holds, which   *)
(* is when the C functions return 0.                                       *)
memory_read_byte(mem, add)     == memory_read_bytes(mem, TRUE, add, 1)[0]
memory_read_half(mem, be, add) == HalfOf(memory_read_bytes(mem, be, add, 2))
memory_read_word(mem, be, add) == WordOf(memory_read_bytes(mem, be, add, 4))

memory_write_byte(mem, add, val) ==
  memory_write_bytes(mem, TRUE, add, [i \in 0 .. 0 |-> val], 1)
memory_write_half(mem, be, add, val) ==
  memory_write_bytes(mem, be, add, [i \in 0 .. 1 |-> ByteOf(val, i)], 2)
memory_write_word(mem, be, add, val) ==
  memory_write_bytes(mem, be, add, [i \in 0 .. 3 |-> ByteOf(val, i)], 4)
=============================================================================
