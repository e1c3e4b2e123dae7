------------------------------ MODULE Simulator ------------------------------
(***************************************************************************)
(* The threads of arm_simulator.c around the processor of ArmMachine: the  *)
(* gdb thread serves one debugger connection (gdb_protocol.c), the irq     *)
(* thread turns bytes into exceptions, the main thread waits for the gdb   *)
(* thread and tears everything down.  One mutex protects the processor.    *)
(*                                                                         *)
(* Requests and what their handlers do are those of GdbProtocol.  Packets  *)
(* arrive intact; how damaged and lost ones are dealt with is the business *)
(* of module GdbLink.                                                      *)
(***************************************************************************)
EXTENDS GdbProtocol

CONSTANTS Requests,       \* requests the debugger may send
          MaxRequests,    \* how many it sends at most
          MaxIrqs         \* how many bytes clients of the irq port send

ASSUME SimulatorAssumption ==
  /\ Requests \subseteq Request
  /\ MaxRequests \in Nat /\ MaxIrqs \in Nat
  /\ BreakAddress \in Address

VARIABLES
  lock,         \* shared.lock: "free" or the thread that holds it
  gdb,          \* gdb thread: "reading", "locking", "serving", "ended"
  request,      \* the request it is serving
  fresh,        \* in cont: no instruction word has been read yet
  inbox,        \* requests in the socket; EOF once the debugger has left
  requests,     \* number of requests sent
  answer,       \* the last answer sent
  answered,     \* number of answers sent
  writable,     \* the sending side has not been shut down
  breakpoint,   \* the breakpoint is in the memory
  registersRead,\* the debugger's copy of the registers
  irq,          \* irq thread: "reading", "locking", "raising"
  line,         \* bytes in the irq socket
  irqs,         \* number of bytes sent
  main          \* main thread: "joining", "returning"

gdbVars == <<gdb, request, fresh, answer, answered, writable, breakpoint,
             registersRead>>
irqVars == <<irq, line, irqs>>
cpuVars == <<core, mem, target_exception>>
svars   == <<vars, lock, gdbVars, inbox, requests, irqVars, main>>

EOF == <<"EOF">>

SimInit ==
  /\ Init
  /\ lock = "free"
  /\ gdb = "reading" /\ request = <<"none">> /\ fresh = TRUE
  /\ inbox = <<>> /\ requests = 0
  /\ answer = <<"none">> /\ answered = 0
  /\ writable = TRUE /\ breakpoint = FALSE
  /\ registersRead = read_general_registers(core)
  /\ irq = "reading" /\ line = <<>> /\ irqs = 0
  /\ main = "joining"

Alive == process = "running"

-----------------------------------------------------------------------------
(* The clients, external to the program. *)

(* The debugger has closed its connection, read to its end or not. *)
Left == gdb = "ended" \/ (inbox # <<>> /\ inbox[Len(inbox)] = EOF)

Send(r) ==
  /\ Alive /\ requests < MaxRequests
  /\ ~Left
  /\ inbox' = Append(inbox, r)
  /\ requests' = requests + 1
  /\ UNCHANGED <<vars, lock, gdbVars, irqVars, main>>

Leave ==
  /\ Alive
  /\ ~Left
  /\ inbox' = Append(inbox, EOF)
  /\ UNCHANGED <<vars, lock, gdbVars, requests, irqVars, main>>

Raise(byte) ==
  /\ Alive /\ irqs < MaxIrqs
  /\ line' = Append(line, byte)
  /\ irqs' = irqs + 1
  /\ UNCHANGED <<vars, lock, gdbVars, inbox, requests, irq, main>>

-----------------------------------------------------------------------------
(* The gdb thread *)

(* The acknowledgement of a packet is the first thing written to a         *)
(* connection; once "k" has shut it down, that ends the process (SIGPIPE). *)
ReadRequest ==
  /\ Alive /\ gdb = "reading" /\ inbox # <<>>
  /\ inbox' = Tail(inbox)
  /\ request' = Head(inbox)
  /\ gdb' = IF request' = EOF THEN "ended"
            ELSE IF request' = <<"U">> THEN "reading" ELSE "locking"
  /\ process' = IF request' # EOF /\ ~writable THEN "exited" ELSE process
  /\ IF request' = <<"U">> /\ writable
     THEN answer' = Empty /\ answered' = answered + 1
     ELSE UNCHANGED <<answer, answered>>
  /\ UNCHANGED <<cpuVars, lock, fresh, writable, breakpoint, registersRead,
                 requests, irqVars, main>>

LockForRequest ==
  /\ Alive /\ gdb = "locking" /\ lock = "free"
  /\ lock' = "gdb" /\ gdb' = "serving" /\ fresh' = TRUE
  /\ UNCHANGED <<vars, request, inbox, requests, answer, answered, writable,
                 breakpoint, registersRead, irqVars, main>>

Serving(letter) == Alive /\ gdb = "serving" /\ request[1] = letter

(* Mutant: the packet is handled again after its answer. *)
Finish_twice(text) ==
  /\ answer' = text /\ answered' = answered + 1
  /\ lock' = "free" /\ gdb' = "locking"

(* Mutant: the lock is not released. *)
Finish_locked(text) ==
  /\ answer' = text /\ answered' = answered + 1
  /\ lock' = lock /\ gdb' = "reading"

(* The answer is sent, then the lock is released and the next packet read. *)
Finish(text) ==
  /\ answer' = text /\ answered' = answered + 1
  /\ lock' = "free" /\ gdb' = "reading"

(* 0xE7F000F0, executed as what it encodes: LDRB r0, [r0, r0 ...]!.        *)
Breakpoint == [op |-> "LDST", cond |-> ALWAYS, p |-> TRUE, u |-> TRUE,
               w |-> TRUE, l |-> TRUE, b |-> TRUE, rd |-> 0, rn |-> 0,
               rm |-> 0, shift |-> ROR, amount |-> 1, imm |-> 0]

AtBreakpoint == breakpoint /\ FetchAddress(core) = BreakAddress

Execute == \E ins \in (IF AtBreakpoint THEN {Breakpoint} ELSE Fetched(core)) :
             Step(ins)

ServeStep ==
  /\ Serving("s")
  /\ Execute
  /\ IF process' = "running" THEN Finish(StopReason(target_exception'))
     ELSE UNCHANGED <<answer, answered, lock, gdb>>
  /\ UNCHANGED <<request, fresh, inbox, requests, writable, breakpoint,
                 registersRead, irqVars, main>>

(* Mutant: the instruction is executed before the test for a breakpoint. *)
ContinueRuns_first ==
  /\ Serving("c")
  /\ Execute
  /\ fresh' = FALSE
  /\ UNCHANGED <<lock, gdb, request, inbox, requests, answer, answered,
                 writable, breakpoint, registersRead, irqVars, main>>

(* One turn of the loop of cont, lock held throughout.  When the word at   *)
(* the program counter cannot be read, `instruction' is what it was: an    *)
(* ordinary instruction, or on the first turn anything.                    *)
ContinueRuns ==
  /\ Serving("c")
  /\ ~AtBreakpoint
  /\ Execute
  /\ fresh' = FALSE
  /\ UNCHANGED <<lock, gdb, request, inbox, requests, answer, answered,
                 writable, breakpoint, registersRead, irqVars, main>>

ContinueStops ==
  /\ Serving("c")
  /\ AtBreakpoint \/ (fresh /\ FetchFails(core))
  /\ Finish(StopReason(target_exception))
  /\ UNCHANGED <<vars, request, fresh, inbox, requests, writable,
                 breakpoint, registersRead, irqVars, main>>

ServeReadRegisters ==
  /\ Serving("g")
  /\ registersRead' = read_general_registers(core)
  /\ Finish(<<"registers">>)
  /\ UNCHANGED <<vars, request, fresh, inbox, requests, writable,
                 breakpoint, irqVars, main>>

ServeWriteRegisters ==
  /\ Serving("G")
  /\ core' = write_general_registers(core, registersRead)
  /\ Finish(OK)
  /\ UNCHANGED <<mem, target_exception, process, request, fresh, inbox,
                 requests, writable, breakpoint, registersRead, irqVars, main>>

ServeReason ==
  /\ Serving("?")
  /\ Finish(StopReason(target_exception))
  /\ UNCHANGED <<vars, request, fresh, inbox, requests, writable, breakpoint,
                 registersRead, irqVars, main>>

ServeBreakpoint ==
  /\ Serving("insert") \/ Serving("remove")
  /\ breakpoint' = (request[1] = "insert")
  /\ Finish(OK)
  /\ UNCHANGED <<vars, request, fresh, inbox, requests, writable,
                 registersRead, irqVars, main>>

ServeReadRegister ==
  /\ Serving("p")
  /\ IF Numbered(atoi(request[2]))
     THEN Finish(Data(read_register(core, atoi(request[2])))) /\ UNCHANGED vars
     ELSE /\ process' = "aborted"
          /\ UNCHANGED <<cpuVars, lock, gdb, answer, answered>>
  /\ UNCHANGED <<request, fresh, inbox, requests, writable, breakpoint,
                 registersRead, irqVars, main>>

ServeWriteRegister ==
  /\ Serving("P")
  /\ IF Numbered(request[2])
     THEN /\ core' = write_register(core, request[2], request[3])
          /\ Finish(OK)
          /\ UNCHANGED process
     ELSE /\ process' = "aborted"
          /\ UNCHANGED <<core, lock, gdb, answer, answered>>
  /\ UNCHANGED <<mem, target_exception, request, fresh, inbox, requests,
                 writable, breakpoint, registersRead, irqVars, main>>

ServeReadMemory ==
  /\ Serving("m")
  /\ Finish(read_memory(mem, request[2], request[3]))
  /\ UNCHANGED <<vars, request, fresh, inbox, requests, writable, breakpoint,
                 registersRead, irqVars, main>>

ServeWriteMemory ==
  /\ Serving("X")
  /\ LET content == Content(Escaped(request[3]))
     IN  /\ mem' = write_memory_binary(mem, request[2], content)
         /\ Finish(IF Writable(request[2], Len(content)) THEN OK ELSE <<"E02">>)
  /\ UNCHANGED <<core, target_exception, process, request, fresh, inbox,
                 requests, writable, breakpoint, registersRead, irqVars, main>>

ServeQuery ==
  /\ \/ Serving("q") /\ Finish(query(request[2]))
     \/ Serving("H") /\ Finish(set_thread(request[2], request[3]))
  /\ UNCHANGED <<vars, request, fresh, inbox, requests, writable, breakpoint,
                 registersRead, irqVars, main>>

(* Mutant: the early return of a kill request keeps the lock. *)
ServeKill_locked ==
  /\ Serving("k")
  /\ writable' = FALSE
  /\ gdb' = "reading"
  /\ UNCHANGED <<vars, lock, request, fresh, inbox, requests, answer, answered,
                 breakpoint, registersRead, irqVars, main>>

(* Nothing is answered to a kill request. *)
ServeKill ==
  /\ Serving("k")
  /\ writable' = FALSE
  /\ lock' = "free" /\ gdb' = "reading"
  /\ UNCHANGED <<vars, request, fresh, inbox, requests, answer, answered,
                 breakpoint, registersRead, irqVars, main>>

GdbThread ==
  \/ ReadRequest \/ LockForRequest \/ ServeStep \/ ContinueRuns
  \/ ContinueStops \/ ServeReadRegisters \/ ServeWriteRegisters
  \/ ServeReason \/ ServeReadRegister \/ ServeWriteRegister
  \/ ServeReadMemory \/ ServeWriteMemory \/ ServeQuery
  \/ ServeBreakpoint \/ ServeKill

-----------------------------------------------------------------------------
(* The irq thread *)

ReadByte ==
  /\ Alive /\ irq = "reading" /\ line # <<>>
  /\ irq' = "locking"
  /\ UNCHANGED <<vars, lock, gdbVars, inbox, requests, line, irqs, main>>

(* Mutant: the exception is raised without the lock. *)
LockForIrq_unprotected ==
  /\ Alive /\ irq = "locking"
  /\ irq' = "raising"
  /\ UNCHANGED <<vars, lock, gdbVars, inbox, requests, line, irqs, main>>

LockForIrq ==
  /\ Alive /\ irq = "locking" /\ lock = "free"
  /\ lock' = "irq" /\ irq' = "raising"
  /\ UNCHANGED <<vars, gdbVars, inbox, requests, line, irqs, main>>

(* Once the main thread has freed the processor, the write goes to freed   *)
(* memory: it may end the process.                                         *)
RaiseException ==
  /\ Alive /\ irq = "raising"
  /\ IF main = "joining" THEN Interrupt(Head(line))
     ELSE /\ process' \in {"running", "aborted"}
          /\ UNCHANGED cpuVars
  /\ line' = Tail(line) /\ irq' = "reading" /\ lock' = "free"
  /\ UNCHANGED <<gdbVars, inbox, requests, irqs, main>>

IrqThread == ReadByte \/ LockForIrq \/ RaiseException

-----------------------------------------------------------------------------
(* The main thread *)

(* Mutant: the main thread also joins the irq thread, which never ends. *)
Destroy_joins_both ==
  /\ Alive /\ main = "joining" /\ gdb = "ended" /\ irq = "ended"
  /\ main' = "returning"
  /\ UNCHANGED <<vars, lock, gdbVars, inbox, requests, irqVars>>

Destroy ==
  /\ Alive /\ main = "joining" /\ gdb = "ended"
  /\ main' = "returning"
  /\ UNCHANGED <<vars, lock, gdbVars, inbox, requests, irqVars>>

Return ==
  /\ Alive /\ main = "returning"
  /\ process' = "exited"
  /\ UNCHANGED <<cpuVars, lock, gdbVars, inbox, requests, irqVars, main>>

MainThread == Destroy \/ Return

-----------------------------------------------------------------------------
Clients == \/ \E r \in Requests : Send(r)
           \/ Leave
           \/ \E byte \in IrqBytes : Raise(byte)

SimNext == Clients \/ GdbThread \/ IrqThread \/ MainThread

(* Every thread that can run does in the end: the operating system's       *)
(* scheduler.  Nothing is asked of the clients, nor of the order in which  *)
(* a pthread mutex is granted.                                             *)
SimSpec == /\ SimInit /\ [][SimNext]_svars
           /\ WF_svars(GdbThread) /\ WF_svars(IrqThread) /\ WF_svars(MainThread)

-----------------------------------------------------------------------------
SimTypeOK ==
  /\ TypeOK
  /\ lock \in {"free", "gdb", "irq"}
  /\ gdb \in {"reading", "locking", "serving", "ended"}
  /\ irq \in {"reading", "locking", "raising"}
  /\ main \in {"joining", "returning"}
  /\ breakpoint \in BOOLEAN /\ writable \in BOOLEAN /\ fresh \in BOOLEAN
  /\ answered <= requests

(* The processor has one user at a time: its state changes only in a       *)
(* critical section, of the gdb thread or of the irq thread but never      *)
(* both, and only as that thread's work requires.                          *)
OneUser ==
  [][<<core, mem, target_exception>>' # <<core, mem, target_exception>> =>
       \/ lock = "gdb" /\ gdb = "serving" /\ irq # "raising"
       \/ lock = "irq" /\ irq = "raising" /\ gdb # "serving"]_svars

(* A continue request never executes the debugger's breakpoint             *)
(* ("This is a breakpoint, we will not execute it"), and answers only when *)
(* it stands on one or could not read an instruction.                      *)
ContinueObeysBreakpoint ==
  [][request[1] = "c" /\ gdb = "serving" =>
       /\ AtBreakpoint => core' = core /\ mem' = mem
       /\ answered' # answered => AtBreakpoint \/ FetchFails(core)]_svars

(* What the debugger reads it can write back: a G packet that carries the  *)
(* registers of the last g packet puts the processor where it was, when    *)
(* the mode has not changed in between; and a P packet changes, of all     *)
(* that a g packet shows, the one register it names (the program counter   *)
(* has to be the address of a word).                                       *)
RegistersWrittenBack ==
  [][gdb = "serving" /\ answered' # answered =>
       /\ request[1] = "G" /\ registersRead.cpsr.mode = Mode(core) =>
            read_general_registers(core') = registersRead
       /\ request[1] = "P" /\ (request[2] = PC => request[3] % 4 = 0) =>
            read_general_registers(core') =
              [read_general_registers(core) EXCEPT
                 !.regs[request[2]] = write_uint32(request[3])]]_svars

(* An X packet writes what the debugger meant, whatever bytes had to be    *)
(* escaped: "OK" says that all of it stands in the memory, anything else   *)
(* that it does not, and then no more than a beginning of it was written   *)
(* (write_memory_binary).                                                  *)
MemoryWriteReported ==
  [][request[1] = "X" /\ gdb = "serving" /\ answered' # answered =>
       LET start  == request[2]
           given  == request[3]
           Holds(n) == mem' = [a \in Address |-> IF a \in start .. start + n - 1
                                                 THEN given[a - start + 1]
                                                 ELSE mem[a]]
       IN  IF answer' = OK
           THEN start + Len(given) <= MemSize /\ Holds(Len(given))
           ELSE /\ start >= MemSize \/ start + Len(given) > MemSize
                /\ \E n \in 0 .. Len(given) : Holds(n)]_svars

(* A byte that reaches the irq port raises its exception, or the simulator *)
(* ends.                                                                   *)
IrqRaised == \A n \in 1 .. MaxIrqs :
  (irqs >= n) ~> (~Alive \/ irqs - Len(line) >= n)

(* Every request but a kill is answered, whatever came before it and the   *)
(* irq thread between, or the simulator ends; a kill is the last request   *)
(* there is (gdb_packet_analysis).                                         *)
RequestServed == \A n \in 1 .. MaxRequests :
  (requests >= n) ~> \/ ~Alive
                     \/ answered >= n
                     \/ ~writable /\ answered = n - 1

(* When the debugger leaves, the simulator ends. *)
EndsWithDebugger == Left ~> ~Alive
=============================================================================
