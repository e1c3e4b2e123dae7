-------------------------------- MODULE IrqPort --------------------------------
(***************************************************************************)
(* Interrupts on their way: the program send_irq.c, of which several may   *)
(* run, the connections between, and the irq thread of arm_simulator.c,    *)
(* which serves one connection at a time, byte by byte, and takes the lock *)
(* for each.  What the lock protects is the business of module Simulator;  *)
(* the gdb thread is only seen to take it for a while.                     *)
(*                                                                         *)
(* Besides the senders there are other clients of the port: they connect,  *)
(* send nothing, and close or reset their connection when they like.       *)
(*                                                                         *)
(* The irq thread shuts a connection down but does not close it, so each   *)
(* costs the simulator a descriptor for good.                              *)
(***************************************************************************)
EXTENDS Integers, Sequences

CONSTANTS Senders,   \* processes that run send_irq
          IrqName,   \* IrqName[s]: the name on its command line, or "none"
          Others,    \* other clients of the port
          Backlog,   \* connections that may wait for accept (listen(socket, 1))
          Descriptors \* how many descriptors the simulator may have at its start

ASSUME DescriptorAssumption == Descriptors \subseteq Nat

VARIABLES
  client,    \* of each client: "ready", "connected", "written", "closed",
             \*   "reset" or, when it gave up, "failed"
  unread,    \* bytes of each client that have not been read
  queue,     \* clients connected and not yet accepted, in order
  listener,  \* irq thread: "starting", "accepting", "reading", "locking", "raising"
  peer,      \* the client of the accepted connection
  byte,      \* the byte read last
  lock,      \* shared.lock: "free", "gdb" or "irq"
  raised,    \* history: the exceptions raised, each with its client
  process,   \* the simulator: "parsing", "running", "exited" or "undefined"
  descriptors \* descriptors it may still open

clientVars == <<client, unread>>
threadVars == <<listener, peer, byte>>
portVars   == <<clientVars, queue, threadVars, lock, raised, process, descriptors>>

Clients == Senders \cup Others

RESET == 1
INTERRUPT == 6

(* NULL for the number 0 and above 7. *)
ExceptionNames == <<"reset", "undefined instruction", "software interrupt",
           "prefetch abort", "data abort", "interrupt", "fast interrupt">>

arm_get_exception_name(exception) ==
  IF exception \in DOMAIN ExceptionNames THEN ExceptionNames[exception] ELSE "NULL"

PortInit ==
  /\ client = [c \in Clients |-> "ready"]
  /\ unread = [c \in Clients |-> <<>>]
  /\ queue = <<>>
  /\ listener = "starting" /\ byte = 0
  /\ \E c \in Clients : peer = c
  /\ lock = "free" /\ raised = <<>>
  /\ process = "parsing" /\ descriptors \in Descriptors

(* An open file, port or connection. *)
TakeDescriptor == descriptors > 0 /\ descriptors' = descriptors - 1

Running   == process = "running"
Listening == Running /\ listener # "starting"

Becomes(c, state) == client' = [client EXCEPT ![c] = state]

-----------------------------------------------------------------------------
(* send_irq *)

(* Mutant: the names are counted from 0. *)
IsIrq_from_zero(name, n) ==
  /\ n \in 0 .. 7 /\ arm_get_exception_name(n + 1) \in {name, "NULL"}
  /\ \A m \in 1 .. n : arm_get_exception_name(m) \notin {name, "NULL"}

(* Where the search for a name ends: at the name, or where there is none.  *)
IsIrq(name, n) ==
  /\ n >= RESET /\ arm_get_exception_name(n) \in {name, "NULL"}
  /\ \A m \in RESET .. n - 1 : arm_get_exception_name(m) \notin {name, "NULL"}

SentByte(s) == IF IrqName[s] = "none" THEN INTERRUPT
               ELSE CHOOSE n \in 0 .. 8 : IsIrq(IrqName[s], n)

(* What send_irq looks up before it connects. *)
Known(s) == IrqName[s] = "none" \/ arm_get_exception_name(SentByte(s)) # "NULL"

(* A full queue keeps the client waiting; without a listener there is no   *)
(* connection.                                                             *)
Connect(c) ==
  /\ client[c] = "ready"
  /\ IF Listening /\ (c \in Senders => Known(c))
     THEN /\ Len(queue) <= Backlog
          /\ queue' = Append(queue, c) /\ Becomes(c, "connected")
     ELSE Becomes(c, "failed") /\ UNCHANGED queue
  /\ UNCHANGED <<unread, threadVars, lock, raised, process, descriptors>>

WriteByte(s) ==
  /\ client[s] = "connected"
  /\ unread' = [unread EXCEPT ![s] = <<SentByte(s)>>]
  /\ Becomes(s, "written")
  /\ UNCHANGED <<queue, threadVars, lock, raised, process, descriptors>>

Close(c) ==
  /\ client[c] = (IF c \in Senders THEN "written" ELSE "connected")
  /\ Becomes(c, "closed")
  /\ UNCHANGED <<unread, queue, threadVars, lock, raised, process, descriptors>>

ResetConnection(c) ==
  /\ client[c] = "connected"
  /\ Becomes(c, "reset")
  /\ UNCHANGED <<unread, queue, threadVars, lock, raised, process, descriptors>>

Sender(s) == Connect(s) \/ WriteByte(s) \/ Close(s)
Other(c)  == Connect(c) \/ Close(c) \/ ResetConnection(c)

-----------------------------------------------------------------------------
(* The irq thread *)

Accept ==
  /\ Running /\ listener = "accepting" /\ queue # <<>>
  /\ TakeDescriptor
  /\ peer' = Head(queue) /\ queue' = Tail(queue)
  /\ listener' = "reading"
  /\ UNCHANGED <<clientVars, byte, lock, raised, process>>

(* accept needs a descriptor before it looks for a connection; its wrapper *)
(* ends the simulator when there is none.                                  *)
AcceptFails ==
  /\ Running /\ listener = "accepting" /\ descriptors = 0
  /\ process' = "exited"
  /\ UNCHANGED <<clientVars, queue, threadVars, lock, raised, descriptors>>

ReadByte ==
  /\ Running /\ listener = "reading" /\ unread[peer] # <<>>
  /\ byte' = Head(unread[peer])
  /\ unread' = [unread EXCEPT ![peer] = Tail(@)]
  /\ listener' = "locking"
  /\ UNCHANGED <<client, queue, peer, lock, raised, process, descriptors>>

(* Mutant: the thread ends with its first connection. *)
ReadEnd_ends ==
  /\ Running /\ listener = "reading" /\ unread[peer] = <<>>
  /\ client[peer] \in {"closed", "reset"}
  /\ IF client[peer] = "closed"
     THEN listener' = "ended" /\ UNCHANGED process
     ELSE process' = "exited" /\ UNCHANGED listener
  /\ UNCHANGED <<clientVars, queue, peer, byte, lock, raised, descriptors>>

(* The end of a connection makes room for the next, but frees no           *)
(* descriptor; an error of read ends the whole simulator.                  *)
ReadEnd ==
  /\ Running /\ listener = "reading" /\ unread[peer] = <<>>
  /\ client[peer] \in {"closed", "reset"}
  /\ IF client[peer] = "closed"
     THEN listener' = "accepting" /\ UNCHANGED process
     ELSE process' = "exited" /\ UNCHANGED listener
  /\ UNCHANGED <<clientVars, queue, peer, byte, lock, raised, descriptors>>

LockForIrq ==
  /\ Running /\ listener = "locking" /\ lock = "free"
  /\ lock' = "irq" /\ listener' = "raising"
  /\ UNCHANGED <<clientVars, queue, peer, byte, raised, process, descriptors>>

RaiseException ==
  /\ Running /\ listener = "raising"
  /\ raised' = Append(raised, <<peer, byte>>)
  /\ lock' = "free" /\ listener' = "reading"
  /\ UNCHANGED <<clientVars, queue, peer, byte, process, descriptors>>

IrqThread == Accept \/ AcceptFails \/ ReadByte \/ ReadEnd \/ LockForIrq \/ RaiseException

-----------------------------------------------------------------------------
HeardFrom(s) == \E i \in DOMAIN raised : raised[i][1] = s

(* The exception raised is the one the sender named, or an interrupt when  *)
(* it named none, and it is raised once (arm_exception_names, send_irq,    *)
(* irq_listener).                                                          *)
NamedExceptionRaised ==
  /\ \A i \in DOMAIN raised :
       LET s == raised[i][1]
       IN  /\ s \in Senders
           /\ arm_get_exception_name(raised[i][2]) =
                IF IrqName[s] = "none" THEN "interrupt" ELSE IrqName[s]
  /\ \A i, j \in DOMAIN raised : raised[i][1] = raised[j][1] => i = j

(* A client that stays connected keeps all others out. *)
HeldUp == listener = "reading" /\ peer \in Others /\ client[peer] = "connected"

(* Every sender of a known name is heard once the port is open, in spite   *)
(* of the other senders, of the other clients and of the gdb thread,       *)
(* unless the simulator ends, be it for want of descriptors, or a client   *)
(* holds its connection for ever (send_irq, irq_listener).                 *)
SenderHeard ==
  \A s \in {k \in Senders : Known(k)} :
    [](Listening /\ client[s] = "ready" =>
         \/ <>(HeardFrom(s) \/ ~Running)
         \/ <>[]HeldUp)
=============================================================================
