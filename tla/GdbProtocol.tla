----------------------------- MODULE GdbProtocol -----------------------------
(***************************************************************************)
(* What the handlers of gdb_protocol.c read from a request, do to the      *)
(* processor and the memory, and answer.  Module Simulator runs them under *)
(* the lock.                                                               *)
(*                                                                         *)
(* A request is a tuple that begins with the letter of its packet; "U" is  *)
(* any letter without a handler, "insert" and "remove" are the X packets   *)
(* by which gdb puts a breakpoint at BreakAddress and takes it away.  An   *)
(* answer is a tuple that begins with its kind.                            *)
(***************************************************************************)
EXTENDS ArmMachine, Sequences

CONSTANT BreakAddress    \* where the debugger puts its breakpoint

(* The last register number gdb uses is that of the status register.       *)
GdbRegister == 0 .. 25

(* The answer to a read, two digits a byte, has to fit into a packet with  *)
(* its frame of five characters: (MAX_PACKET_SIZE - 5) \div 2.             *)
MaxRead == 509

Request ==
  {<<letter>> : letter \in {"s", "c", "g", "G", "?", "k", "insert", "remove", "U"}}
    \cup ({"q"} \X {"Offsets", "Supported", "TStatus", "Symbol", "other"})
    \cup ({"H"} \X {"c", "g", "m"} \X Int)
    \cup ({"m"} \X Word \X (0 .. MaxRead))
    \cup ({"X"} \X Word \X Seq(Byte))
    \cup ({"p"} \X GdbRegister)
    \cup ({"P"} \X GdbRegister \X Word)

OK      == <<"OK">>
Empty   == <<"">>
Data(d) == <<"data", d>>

-----------------------------------------------------------------------------
(* Values travel as four bytes, which are numbered here by their weight.   *)
(* On the line they stand in the byte order of the target, most            *)
(* significant first when BIG_ENDIAN_SIMULATOR is defined, on any host.    *)
write_uint32(value) == [i \in 0 .. 3 |-> ByteOf(value, i)]
read_uint32(data)   == WordOf(data)

-----------------------------------------------------------------------------
(* Registers *)

(* As a g packet carries them: the program counter is the address of the   *)
(* next instruction.                                                       *)
read_general_registers(p) ==
  [regs |-> [r \in RegNumber |->
               write_uint32(IF r = PC THEN FetchAddress(p)
                            ELSE arm_read_register(p, r))],
   cpsr |-> p.cpsr]

(* Mutant: the status register of the packet is not written. *)
write_general_registers_only(p, packet) ==
  [p EXCEPT !.storage = [x \in 0 .. 30 |->
       IF \E r \in RegNumber : registers(Mode(p), r) = x
       THEN read_uint32(packet.regs[CHOOSE r \in RegNumber :
                                      registers(Mode(p), r) = x])
       ELSE p.storage[x]]]

(* Registers are written in the mode the processor is in, the status       *)
(* register last.                                                          *)
write_general_registers(p, packet) ==
  [p EXCEPT !.storage = [x \in 0 .. 30 |->
       IF \E r \in RegNumber : registers(Mode(p), r) = x
       THEN read_uint32(packet.regs[CHOOSE r \in RegNumber :
                                      registers(Mode(p), r) = x])
       ELSE p.storage[x]],
   !.cpsr = packet.cpsr]

(* gdb writes the number of a register in hexadecimal; p reads it with     *)
(* atoi, which stops at a letter.                                          *)
atoi(reg) == IF reg <= 9 THEN reg ELSE IF reg <= 15 THEN 0 ELSE reg - 6

(* What p and P assert of the number they have read. *)
Numbered(reg) == reg < 16

read_register(p, reg) ==
  write_uint32((arm_read_register(p, reg) - (IF reg = PC THEN 4 ELSE 0))
                 % WordSize)

write_register(p, reg, value) ==
  arm_write_register(p, reg, read_uint32(write_uint32(value)))

-----------------------------------------------------------------------------
(* Memory *)

(* Reading ends with the first byte outside the memory. *)
read_memory(bytes, address, size) ==
  Data([i \in {n \in 0 .. size - 1 : address + n \in Address} |->
          bytes[address + i]])

(* The bytes 0x7d, 0x23 and 0x24 when a byte has 256 values: "}", which    *)
(* announces a byte with the bit 0x20 flipped, "#" and "$".                *)
Escape  == ByteSize \div 2 - 3
Hash    == ByteSize \div 8 + 3
Dollar  == ByteSize \div 8 + 4
Flip(b) == LET bit == ByteSize \div 8
           IN  IF (b \div bit) % 2 = 1 THEN b - bit ELSE b + bit

(* gdb escapes what would end the packet or announce an escape. *)
Escaped(data) ==
  LET upto[i \in 0 .. Len(data)] ==
        IF i = 0 THEN <<>>
        ELSE upto[i - 1] \o
               (IF data[i] \in {Escape, Hash, Dollar}
                THEN <<Escape, Flip(data[i])>> ELSE <<data[i]>>)
  IN  upto[Len(data)]

(* The content of the packet from its i-th byte on, as the loop reads it.  *)
Content(packet) ==
  LET from[i \in 1 .. Len(packet) + 2] ==
        IF i > Len(packet) THEN <<>>
        ELSE IF packet[i] = Escape /\ i < Len(packet)
             THEN <<Flip(packet[i + 1])>> \o from[i + 2]
             ELSE <<packet[i]>> \o from[i + 1]
  IN  from[1]

(* Mutant: the result of the last write is forgotten. *)
Writable_from_start(address, size) == address < MemSize

(* The bytes are written one by one up to the first that fails.  An        *)
(* address outside the memory fails even with no byte to write.            *)
Writable(address, size) ==
  address < MemSize /\ (size > 0 => address + size - 1 < MemSize)

write_memory_binary(bytes, address, content) ==
  [a \in Address |->
     IF a \in address .. address + Len(content) - 1
     THEN content[a - address + 1] ELSE bytes[a]]

-----------------------------------------------------------------------------
(* Answers *)

StopReason(exception) ==
  CASE exception = UNDEFINED_INSTRUCTION          -> <<"S04">>
    [] exception \in {PREFETCH_ABORT, DATA_ABORT} -> <<"S10">>
    [] OTHER                                      -> <<"S05">>

query(name) ==
  CASE name = "Offsets"   -> <<"Text=0;Data=0;Bss=0">>
    [] name = "Supported" -> <<"PacketSize=400">>
    [] name = "TStatus"   -> <<"T0;tnotrun:0">>
    [] OTHER              -> Empty

(* There are no threads: any thread (0) and all threads (-1) will do.      *)
set_thread(type, value) ==
  IF type \in {"c", "g"} /\ value \in {-1, 0} THEN OK ELSE <<"E01">>
=============================================================================
