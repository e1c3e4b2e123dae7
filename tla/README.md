# A verification project for the ARM simulator

The program is a simulator of an ARM v5 processor, written in C.  It reads no
program file: it waits for `gdb` on a socket, lets it fill the memory, set
registers, step and continue, and it accepts interrupts as bytes on a second
socket.  This directory holds TLA+ modules that model it, TLC configurations
that check the models on small instances, and TLAPS proofs of theorems about
the models for every value of their constants.

    tlc -config <file>.cfg <module>       for the runs below
    tlapm <module>_proof.tla              for the proofs

## 1. Inventory

### Components, their state and operations

| Component | Source | State | Operations |
|---|---|---|---|
| memory | `memory.c` | an array of bytes and its size | read and write byte, half word, word, in either byte order |
| processor core | `arm_core.c` | 31 registers in banks, CPSR, 6 SPSRs, cycle count | banked register access, status register access, `arm_fetch`, byte-order-aware memory access |
| exceptions | `arm_exception.c` | none of its own | eight handlers chosen by `arm_exception`, among them the reset |
| operands and data processing | `arm_data_processing.c`, `util.c` | none | sixteen operations, flags, the shifter with its carry |
| load and store | `arm_load_store.c` | none | single, miscellaneous, multiple transfers |
| branch, swi, status registers | `arm_branch_other.c` | none | `arm_branch`, `arm_mrs`, `arm_msr`, swi (one of which ends the process) |
| instruction dispatch | `arm_instruction.c` | a table of masks | `arm_step`: fetch, condition, handler, exception on a result code |
| threads | `arm_simulator.c` | mutex, sockets, ports | command line, gdb thread, irq thread, main thread |
| gdb handlers | `gdb_protocol.c` | `target_exception`, the last packet sent | one handler per request |
| packet link | `scanner.l`, and `scanner.c` that flex makes of it | input buffer, buffer of errors, the last packet sent | packets, acknowledgement, retransmission |
| debug messages | `debug.c` | sorted table of file names | add a name, look one up by bisection |
| interrupt sender | `send_irq.c`, names in `arm_constants.c` | none | connect, write one byte, close |
| traces, hooks, wrappers | `trace.c`, `arm.c`, `csapp.c` | trace options | messages; an error of a wrapped system call ends the process |

### How they interact

`gdb_packet_analysis` takes the mutex, runs one handler, answers, and
releases the mutex.  Handlers `s` and `c` call `arm_step`, which fetches from
the memory through the core, calls one instruction handler and, when that
returns a result code, calls `arm_exception`.  The scanner runs in the gdb
thread: it cuts the stream from the debugger into packets, which it gives to
`gdb_packet_analysis`, and acknowledgements, and has the last packet sent again
when the debugger asks for it.  The irq thread accepts one connection after the
other; for each byte it takes the mutex and calls `arm_exception` directly.
The bytes come from `send_irq`, which shares the table of names with the
simulator.  The main thread joins
the gdb thread only, then frees core and memory and returns, which ends the
irq thread.

### Behaviours that are hard

* Three threads and one mutex; `cont` keeps it for as long as the program runs.
* Exceptions nest.  Each must find LR, SPSR and masks of the levels below
  unharmed, with a return address that differs by exception.
* Banks: the same register number is another register in another mode, and
  instructions read and write across a mode switch (S forms, `handle_*`).
* Multi-access instructions that fail half way.
* Boundaries: the end of the memory, wrap-around of addresses, carry and
  overflow, shift counts of zero.
* Packets and acknowledgements carry no numbers; what is lost, damaged or
  repeated on the line has to be told from what was already done.
* The irq port serves one connection at a time and closes none of them, the debug
  table has a fixed size, the buffer of errors is flushed when it is full.
* Undefined values: contents of `malloc`ed core and memory, variables that are
  read when the read that should have set them failed.

### What makes each component correct

* memory: what is written is read back, out-of-bounds accesses fail and change
  nothing.
* core: a bank belongs to its mode.
* exceptions: they nest like calls; a return resumes the context put away last;
  masks are set until then.
* data processing: after a comparison each condition means its relation; the
  carry links the words of a long number.
* load and store: matching pushes and pops restore; an aborted access can be
  restarted; the S forms move the user bank.
* status registers: an unprivileged program stays unprivileged.
* threads: one user of the processor at a time; no byte left unread for ever; the
  simulator ends with its debugger.
* gdb handlers: a breakpoint is never executed by a continue; registers read
  can be written back; a memory write does what its answer says.
* packet link: on a line that only damages packets every request is executed
  exactly once, in order; on a worse one the harm is bounded and the session
  goes on.
* debug messages: the search finds exactly the names that were added.
* interrupt port: every sender is heard, with the exception it named.

The hazards behind these are listed, at their lines, in `PROJECT.json`.

## 2. Modules

| Module | Models | State and actions |
|---|---|---|
| `Memory` | `memory.c` | operators on a function from `Address` to `Byte`; a read gives `ok` and a value |
| `ArmCore` | `arm_core.c`, constants | a core is a record: `storage` (31 words), `spsr`, `cpsr` |
| `ArmException` | `arm_exception.c` | `arm_exception(p, e)`: the core after exception `e` |
| `ArmOperands` | shifter of `arm_data_processing.c`, `util.c`, `scaled_shift` | operand with its carry |
| `ArmDataProcessing` | `arm_data_processing.c` | `arm_data_processing(p, ins)` |
| `ArmLoadStore` | `arm_load_store.c` | core, memory, result code and fate of the process after a transfer |
| `ArmInstruction` | `arm_branch_other.c`, `arm_instruction.c` | `arm_step(p, m, ins)` |
| `ArmMachine` | processor and memory under a program and interrupts | variables `core`, `mem`, `target_exception`, `process`; actions `Step`, `Interrupt` |
| `ArmTransfer` | `ArmMachine` with the properties of transfers | |
| `ArmArithmetic` | `ArmMachine` with the properties of flags | |
| `ContextStack` | abstract: exceptions are calls of contexts | `Run`, `Enter`, `Resume` |
| `ArmFrames` | `ArmMachine` after the reset code, with the history `frames` of interrupted contexts and `entered` of what each handler found | implements `ContextStack` |
| `GdbProtocol` | handlers of `gdb_protocol.c` | requests as tuples; what a handler computes, writes and answers, as operators |
| `Simulator` | threads and mutex, with `GdbProtocol` around `ArmMachine` | one action per handler and per step of a thread |
| `ScannerTables` | the automaton of `scanner.c` | its tables, and `yy_match`: the rule and length matched at the head of an input |
| `GdbLink` | `scanner.l`, checksum and retransmission of `gdb_protocol.c` | streams of units both ways; one action per rule; a debugger; a line with faults |
| `RequestAnswer` | abstract: what the link promises | `Ask`, `Execute`, `Take`, `Disturb` |
| `DebugTable` | `debug.c` | `files`, and one search, a turn of its loop per action |
| `IrqPort` | `send_irq.c`, the irq thread, the queue of its port | one action per step of a sender, of another client and of the thread |
| `SimulatorMain` | `main` and the ports, with `DebugTable` and `IrqPort` | one action per option; the threads open their ports; the end of the process |
| `Assembler`, `MC*` | mnemonics for instruction records; constants and programs of the runs | |
| `*_proof` | theorems | |

The modules follow the call graph: the instruction semantics are operators on
values, named after the C functions (`arm_read_register`, `handle_irq`,
`ldm1`, ...), because an instruction runs to its end under the mutex; the
actions are what the threads can do between two critical sections, or in one.
`Simulator` extends `ArmMachine` and uses its `Step` and `Interrupt` as they are.

Around the processor each of three modules looks at one side and sees the rest
from afar: `Simulator` has intact packets and one line of interrupt bytes;
`GdbLink` has the bytes of packets, and a request is just its number;
`SimulatorMain` has the connections of the irq port, and the gdb thread is just
somebody who takes the mutex.

### Abstractions

* An instruction is a record of its decoded fields.  `Program` gives, for an
  address, the set of instructions that may be fetched there, so a program may
  leave a choice open; the memory holds data only.  A program that rewrites its own
  code is outside the model, and so is the recognition of encodings.
* Bytes have `ByteSize` values and words `WordBits` bits.  The proofs hold for
  any width from 16; the runs use four-bit bytes.  A status register is a record of
  mode, T, F, I, E and the four flags, the fields on which the simulator decides;
  its other bits, which MRS, g packets and SPSRs carry along, are left out.
  Offsets of fields keep their width.
* Undefined values are inputs: the garbage of `malloc` (`GarbageStorage`,
  `GarbageStatus`, `GarbageMemory`), and the field `junk` of transfers whose C
  code uses a variable that a failed read left unset.
* The model follows the build of the Makefile: `WARNING` is on, so
  UNPREDICTABLE combinations print a message and go on; assertions are on.
* On the debugger's line a packet is a sequence of units: "$", its body, "#" with
  its digits, and single bytes; a body is intact or damaged, and the checksum is
  taken to tell which.  `TablesMatchRules` spells the units out, to compare the
  tables of flex with the rules character by character.
* Names of source files are numbers in the order of `strcmp`.
* The debugger is not part of the repository: in `GdbLink` it waits for an
  acknowledgement, then for an answer, and sends again after a timeout, as the
  gdb protocol asks of it; in `GdbProtocol` it numbers registers in hexadecimal
  and escapes the bytes of an X packet.
* Left out: cycle counts, traces, logging, and everything in components marked
  `not_modelled`.

## 3. Runs

All properties of a passing run have a mutant: a plausible bug in a mapped
definition, written beside the definition as an operator, that makes the property fail.

**cage** (`MCArmMachine_cage.cfg`).  A program that, in user mode and in
handlers, writes every part of both status registers by MSR, returns through
SPSRs that were never saved, uses the S forms of LDM and of data processing,
and traps in every way, under IRQ and FIQ at any point.
`UserConfined`: a user program changes neither mode, masks, byte order, SPSRs
nor other banks, but by entering a handler at its vector with its status saved.
`BanksPrivate`: a bank or SPSR changes only in its mode or on entry to it.
`MasksReopenedByReturn`: a mask set is cleared only by restoring an SPSR whole.
Lengths of behaviours are not bounded: TLC reaches the fixed point.

**reset** (violation).  `ResetMasksInterrupts` states the comments of
`handle_reset`.  See the findings.

**transfer** (`MCArmTransfer.cfg`).  In every state that two transfers lead to, in user,
supervisor, FIQ, undefined and system mode and in both byte orders:
`PushPopRestores` (four stack disciplines, six lists), `UserBankSaved` and
`AbortRestarts` (accesses of each size inside, at and across the end of memory).

**assertion** (violation).  `AssertsHold` states the assertions that close
each multiple transfer.

**arithmetic** (`MCArmArithmetic.cfg`).  Four registers with boundary values
0, 1, 2^15-1, 2^15, 2^16-1 and both carries, then flag-setting instructions.
`ComparisonDecides` relates CMP and the condition table, in two source
files.  `WideArithmetic` relates ADDS/ADCS and SUBS/SBC over two words.
`WideHalving` relates LSR, RRX and ADC through the carry.

**shifter** (violation).  `ZeroCountsAsReferenced` states the reference of the
shifts that the source keeps in a comment.

**frames** (`MCArmFrames.cfg`).  The program of `Examples/demoIntteruption.s` with its
own handlers for SWI, IRQ and FIQ, under IRQs and FIQs at any moment.  So that
exceptions nest up to five deep, its IRQ handler may also execute a SWI, its SWI
handler an undefined instruction, and the handler of that a load that aborts.
`ResumesContext` is the refinement: `ArmFrames`
implements `ContextStack`, so each return resumes exactly the context that
was put away last.  `SavedInBanks` is the reason it works, `InterruptsNest` what the masks
permit.  Handlers have their part in it: `HandlersRestore` says they hand back
the registers they owe, and is the hypothesis of the theorem about `ResumesContext`.  The
run shows that the three handlers of the file do, with r4 and r5 as `Scratch`, which they
overwrite and the program does not use: `irq_handler` saves r0, r1 and r2 with STMDA
and LDMIB on the stack it finds.  Those for undefined instructions and data aborts
do not keep the hypothesis, nor do those of `exampleHandler.s`: they return with `#4`
to where they must not, and where r0 is pushed it is reloaded from the wrong slot
(`demoIntteruption.s:32-36`, `48-50`; `exampleHandler.s:23-27`, `39-47`).  The program of the file
reaches neither, and the run has handlers in their place that only return.
Deadlock is checked here.

**ending** (`MCSimulator_ending.cfg`).  Up to three out of nineteen requests, at
least one per handler, and an interrupt, in every order of the three threads.
`OneUser` and `ContinueObeysBreakpoint`.  `RegistersWrittenBack`: a G packet
undoes what happened since the last g packet, and a P packet changes the
register it names and no other.  `MemoryWriteReported`: an X packet writes what
the debugger meant, with bytes that had to be escaped, and is answered "OK"
exactly when all of it was written; otherwise it has written a beginning of it.
The requests include a write beyond the end of the memory, a number of a
register above 15 and one that p and P read differently.

**live** (`MCSimulator_live.cfg`).  With a program that ends: `IrqRaised`,
`RequestServed`, `EndsWithDebugger`.  A request is served when it has been answered;
the exceptions are the kill, which has no answer and after which any other request
ends the simulator, and the failed assertion on the number of a register, which
p meets here under the lock.

**starved** (violation).  The same `IrqRaised` with a program that waits for an
interrupt in a loop, as `Examples/demoIntteruption.s` does.

**link** (`MCGdbLink.cfg`).  Two requests, one with a "-" in its body, over a line
with one damaged body and two worse faults at any place: a unit or message
lost, a framing byte broken, a stray byte or an end of line added, a timeout
that comes too early.  `LinkKeepsPromise` is the refinement of `RequestAnswer`:
without a worse fault every request is executed exactly once, in order, and the
debugger takes the answer to its own request; the order is kept in any case.
`RepetitionsBounded`: each worse fault costs at most two repetitions, as long as
the buffer holds more than one character.  `RequestSettled`: every
request is settled, unless the debugger leaves or its "-" is swallowed by a
packet whose end was lost (the scanner waits for the longest match).
`TablesMatchRules` compares the automaton of `scanner.c` with the rules on
every input that occurs.  `LinkTypeOK` includes the room that the buffer of
errors keeps for its last character.

**startup** (`MCSimulatorMain.cfg`).  Command lines of up to three options, with
enough names to overrun the debug table, and ports that may collide; searches
of the table; then two senders, of which one names its exception, a client
that connects and holds or resets its connection, and a debugger.  The ports and
connections, and any trace file, take descriptors of which none but that of the gdb port
comes back; the simulator ends when it needs one more.
`SearchFindsNamed`, `SearchEnds`.  `NamedExceptionRaised`: the table of names, the search of the sender and the
byte on the line agree.  `SenderHeard`: every sender is heard in spite of the
others, unless the simulator ends or a client holds its connection for ever.

Deadlock is not checked where the simulated program may halt the process, or
where the clients may fall silent: there the system really stops.

### Bounds, and why they are enough

| Bound | Value | Why |
|---|---|---|
| `ByteSize`, `WordBits` | 16, 16 | four bytes to a word, as in the code; halves and words with two distinct byte orders; the widths appear in the code only as shifts and moduli |
| `MemSize` | 48 (160 in frames) | holds the program, the vectors, and an end that accesses of each size can straddle |
| `VectorBase`, `StackBase`, `StackStep` | small | they stand for 0x1000 and the stack constants of `handle_reset`; only their order and distance matter |
| `Program` | about ten addresses (26 in frames) | it loops, so sequences of any length occur; every address offers several instructions where the choice matters |
| `IrqBytes` | 6, 7 | the two that interrupt; other bytes reach the same handlers as instructions do |
| `MaxRequests` (ending, live) | 2 or 3 | a property of the handlers relates at most two requests (read, then write registers; insert, then continue) and one more to disturb them |
| `MaxIrqs` | 1 or 2 | one byte waiting behind another |
| `BreakAddress` | 8 | a reachable instruction of the program |
| `Requests`, `MaxDamage`, `MaxDisturb` (link) | 2, 1, 2 | a fault does its harm to the request it hits and to the next one; two worse faults meet in one request or hit two; the factor of `RepetitionsBounded` is 2 because a broken frame with a "-" in it is refused twice |
| `MaxErrorSize` | 3 | the buffer is filled and flushed by the stray and orphaned bytes of two faults; with 2 every character but the first would be refused by itself, which `RepetitionsBounded` excludes |
| `MaxTries` | 3 | one more than the messages that can be lost: a debugger gives up only when its "-" is swallowed |
| `Scratch` | r4, r5 | what the handlers of the file overwrite; the theorem holds for any |
| `MaxFiles`, `Names` | 2, 2 | an empty, a partly filled, a full table and an overrun one; the theorem holds for all |
| `MaxOptions` | 3 | one option more than the table holds; both ports and a trace file, or three trace files |
| `Descriptors` | 6 | enough for two ports, the debugger and three clients; with a trace file or more they run out |
| `Senders`, `Others`, `Backlog` | 2, 1, 1 | a connection served, one waiting in the queue of `listen(socket, 1)`, one that waits for a place |
| `MaxRequests` (startup) | 1 | the gdb thread takes the mutex once while a byte waits for it |
| `MaxRead` | 509 | the answer to a read of more bytes does not fit the packet (see the hazards) |

### Fairness

Weak fairness for each of the three threads: the operating system runs every
thread that can run.  Nothing is assumed of the debugger and of the senders of
interrupts, nor of the order in which a mutex is granted.  Where `IrqRaised`
passes, the number of requests is finite, so the irq thread cannot be
overtaken for ever; that is a property of the bound, not of pthread.  The
violated run does not depend on it: one continue holds the mutex throughout.

In `GdbLink` the scanner goes on as long as it can, and the debugger reads what
has come and times out when nothing is on its way; it need neither ask again
nor stay.  In `SimulatorMain` a search runs on, the irq thread and the senders
run on, and a request is finished (that a continue may not be is the matter of
the run **starved**); the other clients and the debugger owe nothing.

## 4. Proofs

Theorems hold for every word width from 16 bits, memory size, place of the
vectors, program, initial garbage, and set of requests.  They assume only the
named assumptions of the modules (`MemoryAssumption`, `CoreAssumption`,
`WidthAssumption`, `MachineAssumption`, `TransferAssumption`,
`LayoutAssumption`, `SimulatorAssumption`, `TableAssumption`,
`OptionAssumption`, `DescriptorAssumption`, `BootAssumption`, `LinkAssumption`), which TLC evaluates in the runs.
`BootAssumption` says that the code which starts a program leaves a well-formed core in
user mode with both interrupts enabled; that code is a constant, of any length,
so what it does is not proved but evaluated.  The two of `ArmTransfer` are worth a word: the instructions whose abort is looked at move
one datum and do not write their base back (the others do not promise to be
restartable), and the vectors are aligned words inside a memory of whole double
words, as `memory_create(0x20000)` and `0x1000` are.

| Theorem | Module | Says |
|---|---|---|
| `WordReadBack`, `FailingWriteChangesNothing` | `ArmCore_proof` | memory keeps words; a failed write changes nothing |
| `TypeCorrect` | `ArmMachine_proof` | `Spec => []TypeOK` |
| `CageHolds` | `ArmMachine_proof` | `Spec => UserConfined` |
| `BanksStayPrivate` | `ArmMachine_proof` | `Spec => BanksPrivate` |
| `MasksHold` | `ArmMachine_proof` | `Spec => MasksReopenedByReturn` |
| `PushPopHolds` | `ArmTransfer_proof` | `Spec => []PushPopRestores` |
| `UserBankHolds` | `ArmTransfer_proof` | `Spec => []UserBankSaved` |
| `AbortRestartHolds` | `ArmTransfer_proof` | `Spec => []AbortRestarts` |
| `ComparisonHolds` | `ArmArithmetic_proof` | `Spec => []ComparisonDecides` |
| `WideArithmeticHolds` | `ArmArithmetic_proof` | `Spec => []WideArithmetic` |
| `WideHalvingHolds` | `ArmArithmetic_proof` | `Spec => []WideHalving` |
| `SavedInBanksHolds` | `ArmFrames_proof` | `FSpec /\ HandlersOrderly => []SavedInBanks` |
| `InterruptsNestHolds` | `ArmFrames_proof` | `FSpec /\ HandlersOrderly => []InterruptsNest` |
| `ContextsResumed` | `ArmFrames_proof` | `FSpec /\ HandlersRestore => ResumesContext`, the refinement of `ContextStack` |
| `OneUserHolds` | `Simulator_proof` | `SimSpec => OneUser` |
| `ContinueHolds` | `Simulator_proof` | `SimSpec => ContinueObeysBreakpoint` |
| `ContentOfEscaped` | `Simulator_proof` | the content of an X packet is decoded to the bytes meant |
| `SimTypeCorrect` | `Simulator_proof` | `SimSpec => []SimTypeOK` |
| `RegistersWrittenBackHolds` | `Simulator_proof` | `SimSpec => RegistersWrittenBack` |
| `MemoryWriteHolds` | `Simulator_proof` | `SimSpec => MemoryWriteReported` |
| `LinkTypeCorrect` | `GdbLink_proof` | `LinkSpec => []LinkTypeOK` |
| `LinkPromiseKept` | `GdbLink_proof` | `LinkSpec => LinkKeepsPromise`, the refinement of `RequestAnswer` |
| `RepetitionsBoundedHolds` | `GdbLink_proof` | `LinkSpec => []RepetitionsBounded`, when `MaxErrorSize >= 3` |
| `TablesMatchRulesHold` | `GdbLink_proof` | `LinkSpec => []TablesMatchRules` |
| `SearchFinds` | `SimulatorMain_proof` | `MainSpec => []SearchFindsNamed` |
| `NamedExceptionHolds` | `SimulatorMain_proof` | `MainSpec => []NamedExceptionRaised` |

The modules with proofs follow the modules they are about: `ArmCore_proof`
(numbers, memory, registers, fetch, operands), `ArmMachine_proof` (the effect
of an instruction, then the steps of the machine); `ArmTransfer_proof`,
`ArmArithmetic_proof`, `ArmFrames_proof` and `Simulator_proof` build on that;
`GdbLink_proof` and `SimulatorMain_proof` stand alone.

*The processor.*  `TypeOK` is inductive by itself.  It is needed by all the
rest: that a mode in the CPSR is one of the seven makes the bank table total,
and that an SPSR, though never written, is a status register makes a return
from it a step the model covers.  Definition `Effect` of `ArmMachine_proof`
states once what any instruction can do to the core before an exception: it
writes registers of the bank of the current mode or of the user bank and the
SPSR of the current mode; and either it leaves control alone as far as its
privilege requires, or it restores the whole SPSR.  It is proved handler by handler (data
processing, single, miscellaneous and multiple transfers, branch, MRS, MSR),
with a lemma for each.  `ExceptionEffect` says what an exception adds.
`Transition` combines both for `Step` and `Interrupt`, and the three action
properties are read off it.

*Transfers.*  Each property is a statement about one typed core and memory.  For
`PushPopRestores` and `UserBankSaved` the argument is about slots: the list of a multiple
transfer gives each register a place (`ListSize`, `PlacesIncrease`), words at
different places do not overlap (`SlotsApart`), so every word is still there
when the last has been stored (`WordStored`, `StoredReadBack`), and the load
that starts at the same address reads each into its register (`LoadedBack`).
That it starts there is the arithmetic of the four stack disciplines, modulo the word
size (`StackDiscipline`, `WrapOnTheWay`).  For `AbortRestarts` a single transfer
that fails is shown to have written neither register nor memory
(`AccessUntouched`), and the link of the data abort less eight is the address of
the fetch (`SubsPcLr8`), which the abort can only have come from when it is aligned
(`Straight`).

*Nested exceptions.*  That they nest cannot hold for every program: a handler may
write its SPSR, or return to where it likes.  So the theorems have a
hypothesis about the program.  `HandlersOrderly`: no handler writes its mode or
SPSR by MSR or causes an exception of a mode that is active, a FIQ handler causes none, what raises an
exception has left the status register alone, and the irq port brings no
reset and nothing that only instructions cause.  `HandlersRestore` adds: a
handler returns to its link less what its vector requires, with the registers it
shares with the interrupted program as it found them, but for those of `Scratch`; it does not load the user
bank; no assertion fails.  Both speak of one handler between its entry and its
return; neither says anything of what
lies below it.  That the rest is still there is what is proved, and is the simulator's
part: SPSR, link, stack pointer and banks.
The inductive invariant `FramesInv` says that every active handler has a mode of its own,
whose SPSR holds the status it will restore (`SavedIn`), that handlers run
with interrupts masked (`MaskedIn`), and so where IRQ and FIQ handlers may stand
(`OrderedIn`).  The masks are needed for the modes: an unmasked IRQ could enter
IRQ mode twice.  `ReturnsInv` adds for each frame that the link its handler
found leads to the frame's program counter, and that each of its registers is
either shared with the handler, which found it unchanged, or still in a bank no
active handler writes (`ReturnsIn`).  `EnterReturns`
is the step of an entry: the bank of the new mode is nobody's (`BankApart`).
`ReturnResumes` is that of a return, where the bank and the SPSR of the
interrupted program come back into use together.

*Arithmetic.*  Each property is a statement about one typed core, so it follows
from `TypeCorrect`.  The work is in lemmas about sign, carry and overflow as
integers modulo `WordSize`.

*Threads.*  `OneUser` needs the inductive invariant `LockInv`: a thread that is
serving or raising holds the mutex.  The mutex has one value, so not both do.
`ContinueObeysBreakpoint` needs it too, for the steps of the irq thread: while
a continue is being served no interrupt is raised.

*Requests.*  The inductive invariant `Session` adds to the types what the threads
know of each other: a gdb thread that is serving has a request in hand, an irq
thread that is not reading has its byte before it, the requests answered, in hand
and waiting are no more than were sent, and the registers kept from the last g
packet are what such a packet can show of some core.
TLC has checked it on the run **ending**.  It gives `SimTypeOK`.  With it
`RegistersWrittenBack` follows from the disjointness of the sixteen registers of
a mode (`RegistersDistinct`) and from what the access to the program counter adds and
takes off (`FetchedFrom`).  `MemoryWriteReported` rests on `ContentOfEscaped`,
an induction over the bytes of the packet.  The library's induction theorems
cannot be used here, so it goes by the least number that would be a
counterexample (`LeastNumber`), and a recursive function is taken apart by
`Recursion` of `ArmCore_proof`.

*Packet link.*  Two invariants carry the refinement, and a third the types.
`LinkTyped` adds to the types that the debugger waits for the answer to the
request it asked last.  `Ordered` holds through faults of every kind: the numbers in the
frames on their way to the simulator never decrease and are at least that of the
request executed last; the answers on their way back never decrease, lie
between the last one taken and the last one executed, and answer requests that have been
executed.  Losing, damaging and breaking keep a sequence in order (`RemoveOrder`,
`ExceptOrder`), and so does what is sent behind it (`JoinOrder`).  `Undisturbed`
speaks of a line on which bodies were damaged and nothing worse happened.  There
the whole contents of the line are known, by the stage of the request: `Idle`, `Asking`,
`Refused`, `Accepted`, `Answered`, `Reclaimed`.  That the scanner matches a
frame to its own end is `FrameScanned`; that the debugger's timeout never comes
there is `Patient`.  Only in `Accepted` is anything executed, and the request executed
before is then an earlier one; only in `Answered` is anything taken.  TLC has
checked the three on the run **link**.

*Repetitions.*  That a worse fault costs two repetitions at most is a matter of
what the line still holds: a whole frame is one execution or one refusal, and of
what a fault has left of a frame every two characters are a refusal, as the
buffer of errors takes two before it is flushed.  So the invariant `Account`
keeps a ledger (`Settles`).  On one side stand the requests executed and in execution, the
refusals that the errors kept, the line and the messages on their way back will cost, and one
packet more when the debugger waits for an acknowledgement and neither its packet
nor a reply is on the way (`Missing`).  On the other side stand the requests
asked and two for each fault.  The price of the line depends on how the scanner
reads it, which a fault far ahead can change.  `Before` computes it from the end to
the front, for five states of the buffer of errors (`Costs`): with an even or an odd
number of characters kept, outside a packet; with an even number of them behind a
"$"; with an odd number, of which the "$" is the first or not.
`Covers` says that a price is enough.  To lose a unit or to break a framing byte raises every price by
one at most (`BeforeLost`, `BeforeBroken`, `CoversChanged`), which is where the factor two comes
from, with the packet that may be missing then.  A match takes the price
of its "$" (`CoversMatched`), and an error that of its place (`CoversUnmatched`,
`ErrorCosts`).  That a timeout finds a packet missing, and so pays for the one it sends, is in
`DebuggerSettles`; that the stream ends only behind a debugger that has left
(`Closed`) is needed there.  The hypothesis is what the code has: `MAX_ERROR_SIZE` is
1024, and with room for one character (`MaxErrorSize = 2`) TLC finds a broken frame that is
refused more often.  TLC has checked `Account` on the run **link** and with other
bounds.

*Scanner tables.*  That the tables of flex match what the rules of `scanner.l` say is a
statement about every line the link brings about, of any length.  The tables are
compressed: a state that has no entry of its own for a class of characters takes
that of its default, under a class of classes.  `Automaton` is what they compress,
written as cases, and `SuccessorFound` shows that the search through the tables finds it
for every state and class.  `StatesFound` then follows the scanner along a line, and
`FrameStates` along a frame: behind the "$" it is in state 6, and in 9 until a "#", another
"$" or the end.  `MatchStops` and `MatchRunsOut` are the loop of `yylex`: it stops
in a state without successors and goes back to the last that accepted, or finds no more
characters.  So a frame with its digits is rule 3 to its last digit (`MatchWhole`),
one broken off leaves its "$" to rule 4 (`MatchBroken`), and one that is not finished waits, or
at the end of the stream leaves its "$" to rule 4 (`MatchUnfinished`).
`CharactersWritten` spells a line out unit by unit, so that these places in the characters are
the places of the units (`FrameEnd`).  The invariant beside `LinkTyped` and
`Closed` is `EOFLast`: nothing stands behind the end of the stream, for otherwise the
characters behind it would be scanned as if it were not there.  TLC has checked it on the run **link**.
The recursive functions (`Successor`, `StatesOf`, the flat sequence) are defined by CHOOSE; that
the function exists is shown each time, by a least counterexample (`Induct`).

*Debug table.*  The invariant `TableInv` says that the table is sorted, that the
part still searched holds every place of the name, and that a finished search
has decided rightly.  Insertion keeps the order, with a case for each side of
the new name; a turn of the loop leaves out only places that the order excludes.

*Interrupt port.*  The invariant `PortInv` follows the byte of each sender: it is on the
line, in the hands of the irq thread, or raised, and in one of these places only;
wherever it is, it names what its sender asked for.  TLC has checked it on the
run **startup**.

*Only model-checked.*  Liveness (out of the prover's reach), and what is about one
program: `HandlersRestore` of the handlers of **frames**.
Modules with theorems contain no recursive operator.

## 5. Findings

* **reset**: `arm_exception.c:63-64` comment "Disable fast interrupts",
  "Disable normal interrupts", and clear the bits, which enables them.  Every
  other handler sets them under the same comment.
* **assertion**: `assert(e_add == (address - 4))` (`arm_load_store.c:199`,
  217, 235, 253, 281) is false when a multiple transfer aborts before its last
  access: the simulator ends where the program should see a data abort.
* **starved**: `cont` (`gdb_protocol.c:163`) keeps the mutex while the
  program runs, so a simulator that "can receive interrupts"
  (`arm_simulator.c:118-119`) receives none while the program waits for one.
* **shifter**: for a count of zero the code differs from the reference it
  keeps in a comment (`arm_data_processing.c:610-732`).

## 6. Not modelled, and why

* `instruction_get_handler` and its masks: planned (`Decode`).
* `trace.c`: output only.  Its options are parsed in `SimulatorMain` and change
  nothing that the program or the debugger can observe.
* The buffers of flex (`yy_get_next_buffer`, `yy_create_buffer`, ...): code of
  the generator, the same in every scanner.  What the scanner does at the end of
  a buffer, waiting or ending, is modelled.
* `csapp.c`: vendored wrappers.  That an error ends the process is modelled where
  it can happen in this program: `Socket`, `Bind` and `Listen` on a port that is taken
  or without a descriptor left, `Accept` without a descriptor, `Read` from a
  connection that was reset.
* What an overrun of the debug table or of the packet overwrites, and use after
  free beyond "the process may end": undefined behaviour.
* Requests that gdb does not send: without ":" or "=", with letters for digits.
* The messages printed, the help text, the names of modes and registers.

## 7. Plan

The order puts what every program of the simulator relies on first.

1. Done: memory, core, exceptions, instructions, their composition
   (`ArmMachine`), transfers, arithmetic, nested exceptions, threads.
2. Done: all handlers of `gdb_protocol.c`; the packet link with its abstract
   specification and the refinement, and the tables of the scanner; the debug
   table with its theorem; the irq port with its senders; the command line and
   the start of the threads; `ContinueObeysBreakpoint` proved.
3. `Decode`: the table of `instruction_get_handler` at the level of fields,
   with the property that an encoding reaches at most one intended handler.
4. Done: theorems about transfers, arithmetic, nested exceptions with the
   refinement of `ContextStack`, all requests of the debugger, the packet link
   with the refinement of `RequestAnswer` and the bound on repetitions, the tables of the
   scanner, the debug table and the interrupt port: every invariant that a passing
   run checks is proved.
5. Proofs left: none but those the provers cannot do (liveness), and what is about one program
   (`HandlersRestore`).
