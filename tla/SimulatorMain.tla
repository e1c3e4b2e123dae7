---------------------------- MODULE SimulatorMain ----------------------------
(***************************************************************************)
(* main of arm_simulator.c: the command line, the debug table it fills,    *)
(* and the two threads it starts, each of which opens a port.              *)
(*                                                                         *)
(* An option is a pair of its letter and its argument; "?" is any that     *)
(* getopt does not know.  The debugger is only seen to connect, to have    *)
(* the gdb thread take the lock for a request, and to leave.               *)
(***************************************************************************)
EXTENDS DebugTable, IrqPort

CONSTANTS Options,      \* options that may be given
          MaxOptions,   \* how many are given at most
          MaxRequests   \* how many requests the debugger sends at most

ASSUME OptionAssumption ==
  \A option \in Options : option[1] = "d" => option[2] \in Names

VARIABLES
  given,      \* number of options given so far
  gdb_port,   \* shared.gdb_port
  irq_port,   \* shared.irq_port
  gdb,        \* gdb thread: "starting", "accepting", "reading", "serving", "ended"
  requests    \* requests served

mainVars == <<given, gdb_port, irq_port, gdb, requests>>
allVars  == <<tableVars, portVars, mainVars>>

MainInit ==
  /\ TableInit /\ PortInit
  /\ given = 0 /\ gdb_port = 0 /\ irq_port = 0
  /\ gdb = "starting" /\ requests = 0

-----------------------------------------------------------------------------
(* The loop around getopt_long *)

Option(letter, argument) ==
  /\ process = "parsing" /\ search.state = "idle" /\ given < MaxOptions
  /\ <<letter, argument>> \in Options
  /\ given' = given + 1

PortOption(letter, port) ==
  /\ Option(letter, port)
  /\ gdb_port' = IF letter = "g" THEN port ELSE gdb_port
  /\ irq_port' = IF letter = "i" THEN port ELSE irq_port
  /\ UNCHANGED <<tableVars, portVars, gdb, requests>>

(* What is traced is not modelled. *)
TraceOption(letter) ==
  /\ Option(letter, "")
  /\ UNCHANGED <<tableVars, portVars, gdb_port, irq_port, gdb, requests>>

(* A table that was overrun leaves nothing to rely on. *)
DebugOption(name) ==
  /\ Option("d", name)
  /\ add_debug_to(name)
  /\ process' = IF overrun' THEN "undefined" ELSE process
  /\ UNCHANGED <<clientVars, queue, threadVars, lock, raised, descriptors,
                 gdb_port, irq_port, gdb, requests>>

(* Help, an unknown option, and a trace file that cannot be opened; one    *)
(* that can stays open.                                                    *)
EndingOption(letter) ==
  /\ Option(letter, "")
  /\ \/ process' = "exited" /\ UNCHANGED descriptors
     \/ letter = "t" /\ TakeDescriptor /\ UNCHANGED process
  /\ UNCHANGED <<tableVars, clientVars, queue, threadVars, lock, raised,
                 gdb_port, irq_port, gdb, requests>>

ParseOption ==
  \/ \E option \in Options :
       \/ option[1] \in {"g", "i"} /\ PortOption(option[1], option[2])
       \/ option[1] \in {"r", "m", "s", "p"} /\ TraceOption(option[1])
       \/ option[1] = "d" /\ DebugOption(option[2])
       \/ option[1] \in {"h", "?", "t"} /\ EndingOption(option[1])

(* The messages of gdb_init and of the modules it initialises ask whether  *)
(* their file is in the table.                                             *)
DebugMessage ==
  /\ process = "parsing"
  /\ \E name \in Names : BeginSearch(name)
  /\ UNCHANGED <<portVars, mainVars>>

SearchOn == Search /\ UNCHANGED <<portVars, mainVars>>

StartThreads ==
  /\ process = "parsing" /\ search.state = "idle"
  /\ process' = "running" /\ given' = 0
  /\ UNCHANGED <<tableVars, clientVars, queue, threadVars, lock, raised,
                 descriptors, gdb_port, irq_port, gdb, requests>>

-----------------------------------------------------------------------------
(* The threads open their ports.  Port 0 is any free one; another one may  *)
(* be taken, by the other thread or by another program, and the wrappers   *)
(* of socket, bind, listen and accept end the simulator when they fail.    *)

Opens(port, other, taken) == port = 0 \/ ~(taken /\ port = other)

OpenGdbPort ==
  /\ Running /\ gdb = "starting"
  /\ \/ /\ Opens(gdb_port, irq_port, listener # "starting")
        /\ TakeDescriptor
        /\ gdb' = "accepting" /\ UNCHANGED process
     \/ /\ gdb_port # 0 \/ descriptors = 0
        /\ process' = "exited" /\ UNCHANGED <<gdb, descriptors>>
  /\ UNCHANGED <<tableVars, clientVars, queue, threadVars, lock, raised, given,
                 gdb_port, irq_port, requests>>

OpenIrqPort ==
  /\ Running /\ listener = "starting"
  /\ \/ /\ Opens(irq_port, gdb_port, gdb # "starting")
        /\ TakeDescriptor
        /\ listener' = "accepting" /\ UNCHANGED process
     \/ /\ irq_port # 0 \/ descriptors = 0
        /\ process' = "exited" /\ UNCHANGED <<listener, descriptors>>
  /\ UNCHANGED <<tableVars, clientVars, queue, peer, byte, lock, raised, mainVars>>

-----------------------------------------------------------------------------
(* The gdb thread and the end of main *)

AcceptDebugger ==
  /\ Running /\ gdb = "accepting"
  /\ \/ TakeDescriptor /\ gdb' = "reading" /\ UNCHANGED process
     \/ /\ descriptors = 0
        /\ process' = "exited" /\ UNCHANGED <<gdb, descriptors>>
  /\ UNCHANGED <<tableVars, clientVars, queue, threadVars, lock, raised, given,
                 gdb_port, irq_port, requests>>

LockForGdb ==
  /\ Running /\ gdb = "reading" /\ requests < MaxRequests /\ lock = "free"
  /\ lock' = "gdb" /\ gdb' = "serving" /\ requests' = requests + 1
  /\ UNCHANGED <<tableVars, clientVars, queue, threadVars, raised, process,
                 descriptors, given, gdb_port, irq_port>>

FinishRequest ==
  /\ Running /\ gdb = "serving"
  /\ lock' = "free" /\ gdb' = "reading"
  /\ UNCHANGED <<tableVars, clientVars, queue, threadVars, raised, process,
                 descriptors, given, gdb_port, irq_port, requests>>

(* The port is closed, its connection is not. *)
DebuggerLeaves ==
  /\ Running /\ gdb = "reading"
  /\ gdb' = "ended" /\ descriptors' = descriptors + 1
  /\ UNCHANGED <<tableVars, clientVars, queue, threadVars, lock, raised, process,
                 given, gdb_port, irq_port, requests>>

Return ==
  /\ Running /\ gdb = "ended"
  /\ process' = "exited"
  /\ UNCHANGED <<tableVars, clientVars, queue, threadVars, lock, raised,
                 descriptors, mainVars>>

-----------------------------------------------------------------------------
(* Clients are watched while the simulator runs: earlier they fare as      *)
(* before the port is open, later they find nobody.                        *)
Aside == Running /\ UNCHANGED <<tableVars, mainVars>>

MainNext ==
  \/ ParseOption \/ DebugMessage \/ SearchOn \/ StartThreads
  \/ OpenGdbPort \/ OpenIrqPort
  \/ AcceptDebugger \/ LockForGdb \/ FinishRequest \/ DebuggerLeaves \/ Return
  \/ \E s \in Senders : Sender(s) /\ Aside
  \/ \E c \in Others : Other(c) /\ Aside
  \/ IrqThread /\ Aside

(* The threads and the senders run on; a request is finished, as every one *)
(* is but a continue request.  The debugger and the other clients owe      *)
(* nothing.                                                                *)
MainSpec ==
  /\ MainInit /\ [][MainNext]_allVars
  /\ WF_allVars(SearchOn)
  /\ WF_allVars(OpenIrqPort) /\ WF_allVars(FinishRequest)
  /\ WF_allVars(IrqThread /\ Aside)
  /\ \A s \in Senders : WF_allVars(Sender(s) /\ Aside)
=============================================================================
