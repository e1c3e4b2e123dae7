------------------------------- MODULE GdbLink -------------------------------
(***************************************************************************)
(* The packet link of scanner.l and gdb_protocol.c: the bytes that come    *)
(* from the debugger are cut into packets, acknowledgements and errors; a  *)
(* packet with the right checksum is acknowledged, executed under the lock *)
(* and answered; the last answer is kept for retransmission.               *)
(*                                                                         *)
(* The n-th request of the debugger is the number n.  On the way to the    *)
(* simulator a packet is a sequence of units: Dollar, its body, Hash (the  *)
(* "#" with the two digits of a checksum; BadHash when they are not two    *)
(* digits).  Every other byte is one of "+", "-", Newline and Other.  On   *)
(* the way back a message is "+", "-" or the answer to request n; the      *)
(* debugger is not part of the source, so its own parsing is left out.     *)
(*                                                                         *)
(* The link is the serial line of the gdb protocol, with the faults that   *)
(* checksum, acknowledgement and retransmission are there for: a unit or a *)
(* message is damaged, or lost, or a stray byte arrives (among them Ctrl-C,*)
(* by which a debugger asks for a stop and which no rule of the scanner    *)
(* knows).  A checksum is taken to tell every damaged body.                *)
(***************************************************************************)
EXTENDS ScannerTables, SequencesExt

CONSTANTS Requests,     \* number of requests of the session
          Dashed,       \* the requests with a "-" in their body, like "Hc-1"
          MaxErrorSize, \* MAX_ERROR_SIZE, 1024
          MaxTries,     \* timeouts in a row after which a debugger gives up
          MaxDamage,    \* bodies damaged in a session, either way
          MaxDisturb    \* units and messages lost, broken or added

ASSUME LinkAssumption ==
  /\ Requests \in Nat /\ Dashed \subseteq 1 .. Requests
  /\ MaxErrorSize \in Nat /\ MaxErrorSize >= 2
  /\ MaxTries \in Nat /\ MaxDamage \in Nat /\ MaxDisturb \in Nat

VARIABLES
  input,        \* units on their way to the scanner, EOF at the end
  output,       \* messages on their way to the debugger
  errors,       \* data->len: characters kept as an error
  packet,       \* gdb->packet: request answered last, 0 when len is 0
  serving,      \* the request being executed, 0 when none is
  scanner,      \* "scanning", or "returned" after the end of the stream
  asked,        \* requests asked by the debugger
  waiting,      \* what the debugger waits for: "nothing", "ack", "answer";
                \*   "gone" once it has closed the connection
  tries,        \* timeouts since the debugger last read something
  executed,     \* history: the requests executed, in order
  taken,        \* history: the request whose answer was taken, for each
  damage,       \* bodies damaged so far
  disturbances  \* other faults so far

scannerVars  == <<errors, packet, serving, scanner, executed>>
debuggerVars == <<asked, waiting, tries, taken>>
faultVars    == <<damage, disturbances>>
vars == <<input, output, scannerVars, debuggerVars, faultVars>>

Dollar   == <<"$">>
Body(n)  == <<"body", n>>       \* body 0: damaged
Hash(n)  == <<"#", n>>
BadHash  == <<"#!">>
Plus     == <<"+">>
Minus    == <<"-">>
Other    == <<"other">>
Newline  == <<"newline">>
EOF      == <<"eof">>
Answer(n) == <<"answer", n>>    \* answer 0: damaged

IsHash(u)   == u[1] = "#"
IsAnswer(u) == u[1] = "answer"

Content(n) == IF n \in Dashed THEN <<Body(n), Minus, Other>> ELSE <<Body(n)>>
Packet(n)  == <<Dollar>> \o Content(n) \o <<Hash(n)>>

LinkInit ==
  /\ input = <<>> /\ output = <<>>
  /\ errors = 0 /\ packet = 0 /\ serving = 0 /\ scanner = "scanning"
  /\ asked = 0 /\ waiting = "nothing" /\ tries = 0
  /\ executed = <<>> /\ taken = <<>>
  /\ damage = 0 /\ disturbances = 0

-----------------------------------------------------------------------------
(* The scanner.  Each action is a rule; but for the last two, a rule first *)
(* sends what handle_error sends for the characters kept before it.        *)

Flushed(len) == IF len > 0 THEN <<Minus>> ELSE <<>>

(* The place of what ends a match begun by a "$" at the head of the input; *)
(* 0 while the scanner has to wait for it.                                 *)
MatchEnd == SelectInSubSeq(input, 2, Len(input),
                           LAMBDA u : u \in {Dollar, BadHash, EOF} \/ IsHash(u))

Scanning == scanner = "scanning" /\ serving = 0 /\ input # <<>>

(* An acknowledgement. *)
ScanPlus ==
  /\ Scanning /\ Head(input) = Plus
  /\ input' = Tail(input)
  /\ output' = output \o Flushed(errors)
  /\ errors' = 0
  /\ UNCHANGED <<packet, serving, scanner, executed, debuggerVars, faultVars>>

(* Mutant: a "-" is only an end of errors, nothing is sent again. *)
ScanMinus_forgets ==
  /\ Scanning /\ Head(input) = Minus
  /\ input' = Tail(input)
  /\ output' = output \o Flushed(errors)
  /\ errors' = 0
  /\ UNCHANGED <<packet, serving, scanner, executed, debuggerVars, faultVars>>

(* The last packet is sent again; before the first one there is nothing.   *)
ScanMinus ==
  /\ Scanning /\ Head(input) = Minus
  /\ input' = Tail(input)
  /\ output' = output \o Flushed(errors)
                 \o (IF packet = 0 THEN <<>> ELSE <<Answer(packet)>>)
  /\ errors' = 0
  /\ UNCHANGED <<packet, serving, scanner, executed, debuggerVars, faultVars>>

(* Mutant: a packet with a wrong checksum is refused and handled. *)
ScanPacket_falls_through ==
  /\ Scanning /\ Head(input) = Dollar
  /\ MatchEnd # 0 /\ IsHash(input[MatchEnd])
  /\ LET given  == input[MatchEnd][2]
         intact == SubSeq(input, 2, MatchEnd - 1) = Content(given)
     IN  /\ output' = output \o Flushed(errors)
                        \o (IF intact THEN <<Plus>> ELSE <<Minus>>)
         /\ serving' = given
  /\ input' = SubSeq(input, MatchEnd + 1, Len(input))
  /\ errors' = 0
  /\ UNCHANGED <<packet, scanner, executed, debuggerVars, faultVars>>

(* A whole packet: gdb_packet_analysis compares the checksum of the        *)
(* content with the one given; it acknowledges the packet and takes it, or *)
(* asks for it again.                                                      *)
ScanPacket ==
  /\ Scanning /\ Head(input) = Dollar
  /\ MatchEnd # 0 /\ IsHash(input[MatchEnd])
  /\ LET given  == input[MatchEnd][2]
         intact == SubSeq(input, 2, MatchEnd - 1) = Content(given)
     IN  /\ output' = output \o Flushed(errors)
                        \o (IF intact THEN <<Plus>> ELSE <<Minus>>)
         /\ serving' = IF intact THEN given ELSE 0
  /\ input' = SubSeq(input, MatchEnd + 1, Len(input))
  /\ errors' = 0
  /\ UNCHANGED <<packet, scanner, executed, debuggerVars, faultVars>>

(* Mutant: the buffer is flushed one character too late. *)
ScanError_late ==
  /\ Scanning
  /\ \/ Head(input) \notin {Plus, Minus, Dollar, Newline, EOF}
     \/ Head(input) = Dollar /\ MatchEnd # 0 /\ ~IsHash(input[MatchEnd])
  /\ input' = Tail(input)
  /\ IF errors > MaxErrorSize - 1
     THEN output' = output \o Flushed(errors) /\ errors' = 1
     ELSE UNCHANGED output /\ errors' = errors + 1
  /\ UNCHANGED <<packet, serving, scanner, executed, debuggerVars, faultVars>>

(* Mutant: every error is refused at once, none is kept. *)
ScanError_each ==
  /\ Scanning
  /\ \/ Head(input) \notin {Plus, Minus, Dollar, Newline, EOF}
     \/ Head(input) = Dollar /\ MatchEnd # 0 /\ ~IsHash(input[MatchEnd])
  /\ input' = Tail(input)
  /\ output' = Append(output, Minus)
  /\ UNCHANGED <<errors, packet, serving, scanner, executed, debuggerVars, faultVars>>

(* Any other character is kept as an error, a "$" that begins no packet    *)
(* among them.  When the buffer is full, what it holds is flushed first.   *)
ScanError ==
  /\ Scanning
  /\ \/ Head(input) \notin {Plus, Minus, Dollar, Newline, EOF}
     \/ Head(input) = Dollar /\ MatchEnd # 0 /\ ~IsHash(input[MatchEnd])
  /\ input' = Tail(input)
  /\ IF errors > MaxErrorSize - 2
     THEN output' = output \o Flushed(errors) /\ errors' = 1
     ELSE UNCHANGED output /\ errors' = errors + 1
  /\ UNCHANGED <<packet, serving, scanner, executed, debuggerVars, faultVars>>

(* No rule matches an end of line: flex echoes it. *)
ScanNewline ==
  /\ Scanning /\ Head(input) = Newline
  /\ input' = Tail(input)
  /\ UNCHANGED <<output, scannerVars, debuggerVars, faultVars>>

ScanEOF ==
  /\ Scanning /\ Head(input) = EOF
  /\ scanner' = "returned"
  /\ output' = output \o Flushed(errors)
  /\ errors' = 0
  /\ UNCHANGED <<input, packet, serving, executed, debuggerVars, faultVars>>

(* The handler runs under the lock and leaves its answer in the packet,    *)
(* which is transmitted; the scanner goes on.                              *)
Serve ==
  /\ serving # 0
  /\ executed' = Append(executed, serving)
  /\ packet' = serving
  /\ output' = Append(output, Answer(serving))
  /\ serving' = 0
  /\ UNCHANGED <<input, errors, scanner, debuggerVars, faultVars>>

Scanner == \/ ScanPlus \/ ScanMinus \/ ScanPacket \/ ScanError
           \/ ScanNewline \/ ScanEOF \/ Serve

-----------------------------------------------------------------------------
(* The debugger, external to the program.  While it expects nothing it     *)
(* does not read.                                                          *)

Transmit(units) == input' = input \o units

Ask ==
  /\ waiting = "nothing" /\ asked < Requests
  /\ asked' = asked + 1 /\ waiting' = "ack"
  /\ Transmit(Packet(asked + 1))
  /\ UNCHANGED <<output, scannerVars, tries, taken, faultVars>>

(* "+" ends the wait, "-" has the packet sent again, an answer that comes  *)
(* instead of an acknowledgement is ignored.                               *)
ReadAck ==
  /\ waiting = "ack" /\ output # <<>>
  /\ output' = Tail(output) /\ tries' = 0
  /\ waiting' = IF Head(output) = Plus THEN "answer" ELSE "ack"
  /\ Transmit(IF Head(output) = Minus THEN Packet(asked) ELSE <<>>)
  /\ UNCHANGED <<scannerVars, asked, taken, faultVars>>

(* An intact answer is acknowledged and taken, a damaged one refused;      *)
(* anything else is ignored.                                               *)
ReadAnswer ==
  /\ waiting = "answer" /\ output # <<>>
  /\ output' = Tail(output) /\ tries' = 0
  /\ LET m == Head(output)
     IN  IF IsAnswer(m) /\ m # Answer(0)
         THEN /\ taken' = Append(taken, m[2]) /\ waiting' = "nothing"
              /\ Transmit(<<Plus>>)
         ELSE /\ Transmit(IF IsAnswer(m) THEN <<Minus>> ELSE <<>>)
              /\ UNCHANGED <<taken, waiting>>
  /\ UNCHANGED <<scannerVars, asked, faultVars>>

Resend ==
  \/ waiting = "ack" /\ Transmit(Packet(asked))
  \/ waiting = "answer" /\ Transmit(<<Minus>>)

(* The scanner needs more input, at the end of it or behind an unfinished  *)
(* packet.                                                                 *)
ScannerWaits == serving = 0 /\ (Scanning => Head(input) = Dollar /\ MatchEnd = 0)

Quiet == output = <<>> /\ ScannerWaits

(* Nothing is on its way any more: what the debugger waits for was lost.   *)
Timeout ==
  /\ Quiet /\ tries < MaxTries
  /\ tries' = tries + 1
  /\ Resend
  /\ UNCHANGED <<output, scannerVars, asked, waiting, taken, faultVars>>

Leave ==
  /\ waiting # "gone"
  /\ waiting' = "gone"
  /\ Transmit(<<EOF>>)
  /\ UNCHANGED <<output, scannerVars, asked, tries, taken, faultVars>>

Debugger == Ask \/ ReadAck \/ ReadAnswer \/ Timeout

-----------------------------------------------------------------------------
(* The faults *)

DamageBody ==
  /\ damage < MaxDamage
  /\ damage' = damage + 1
  /\ \/ /\ \E i \in DOMAIN input : /\ input[i][1] = "body" /\ input[i] # Body(0)
                                   /\ input' = [input EXCEPT ![i] = Body(0)]
        /\ UNCHANGED output
     \/ /\ \E i \in DOMAIN output : /\ IsAnswer(output[i]) /\ output[i] # Answer(0)
                                    /\ output' = [output EXCEPT ![i] = Answer(0)]
        /\ UNCHANGED input
  /\ UNCHANGED <<scannerVars, debuggerVars, disturbances>>

Disturbed == disturbances < MaxDisturb /\ disturbances' = disturbances + 1

Lose ==
  /\ Disturbed
  /\ \/ /\ \E i \in DOMAIN input : input[i] # EOF /\ input' = RemoveAt(input, i)
        /\ UNCHANGED output
     \/ /\ \E i \in DOMAIN output : output' = RemoveAt(output, i)
        /\ UNCHANGED input
  /\ UNCHANGED <<scannerVars, debuggerVars, damage>>

(* A byte that frames or acknowledges turns into another one. *)
Break ==
  /\ Disturbed
  /\ \E i \in DOMAIN input :
       /\ input[i] \in {Dollar, Plus, Minus} \/ IsHash(input[i])
       /\ \E byte \in {Other, Minus} \cup (IF IsHash(input[i]) THEN {BadHash} ELSE {}) :
            input' = [input EXCEPT ![i] = byte]
  /\ UNCHANGED <<output, scannerVars, debuggerVars, damage>>

(* A byte that belongs to no packet, Ctrl-C for one. *)
Stray ==
  /\ Disturbed
  /\ waiting # "gone"
  /\ \E byte \in {Other, Newline} : Transmit(<<byte>>)
  /\ UNCHANGED <<output, scannerVars, debuggerVars, damage>>

(* A timeout that comes before the acknowledgement or the answer does. *)
Impatience ==
  /\ Disturbed
  /\ ~Quiet
  /\ Resend
  /\ UNCHANGED <<output, scannerVars, debuggerVars, damage>>

Faults == DamageBody \/ Lose \/ Break \/ Stray \/ Impatience

-----------------------------------------------------------------------------
LinkNext == Scanner \/ Debugger \/ Leave \/ Faults

(* The gdb thread goes on as long as it can, and so does the debugger with *)
(* a request it has sent; it need not send another one.                    *)
LinkSpec ==
  /\ LinkInit /\ [][LinkNext]_vars
  /\ WF_vars(Scanner) /\ WF_vars(ReadAck) /\ WF_vars(ReadAnswer)
  /\ WF_vars(Timeout)

Unit    == {Dollar, BadHash, Plus, Minus, Other, Newline, EOF}
             \cup {Body(n) : n \in 0 .. Requests}
             \cup {Hash(n) : n \in 1 .. Requests}
Message == {Plus, Minus} \cup {Answer(n) : n \in 0 .. Requests}

(* The buffer of errors keeps room for the final '\0'. *)
LinkTypeOK ==
  /\ input \in Seq(Unit) /\ output \in Seq(Message)
  /\ errors \in 0 .. MaxErrorSize - 1
  /\ packet \in 0 .. Requests /\ serving \in 0 .. Requests
  /\ scanner \in {"scanning", "returned"}
  /\ asked \in 0 .. Requests
  /\ waiting \in {"nothing", "ack", "answer", "gone"}
  /\ tries \in 0 .. MaxTries
  /\ executed \in Seq(1 .. Requests) /\ taken \in Seq(1 .. Requests)
  /\ damage \in 0 .. MaxDamage /\ disturbances \in 0 .. MaxDisturb

(* The characters of a unit: a body is the letter "c", a damaged one the   *)
(* letter "x", Other a NUL.                                                *)
Spelled(u) ==
  CASE u = Dollar -> <<36>>
    [] u[1] = "body" -> <<IF u = Body(0) THEN 120 ELSE 99>>
    [] IsHash(u) -> <<35, 48, 97>>
    [] u = BadHash -> <<35, 120>>
    [] u = Plus -> <<43>>
    [] u = Minus -> <<45>>
    [] u = Newline -> <<10>>
    [] u = Other -> <<0>>
    [] u = EOF -> <<>>

Characters(units) == FlattenSeq([i \in DOMAIN units |-> Spelled(units[i])])

(* The automaton of scanner.c matches what the rules of scanner.l say, on  *)
(* every input that the link can bring about: the rule, how much of the    *)
(* input it takes, and whether it has to wait for more.                    *)
TablesMatchRules ==
  Scanning /\ Head(input) # EOF =>
    yy_match(Characters(input), EOF \in ToSet(input)) =
      CASE Head(input) = Plus    -> [rule |-> 1, length |-> 1]
        [] Head(input) = Minus   -> [rule |-> 2, length |-> 1]
        [] Head(input) = Newline -> [rule |-> 5, length |-> 1]
        [] Head(input) = Dollar /\ MatchEnd = 0 -> Waiting
        [] Head(input) = Dollar /\ MatchEnd # 0 /\ IsHash(input[MatchEnd]) ->
             [rule |-> 3, length |-> Len(Characters(SubSeq(input, 1, MatchEnd)))]
        [] OTHER -> [rule |-> 4, length |-> 1]

(* The link keeps its promise (gdb_packet_analysis, gdb_transmit_packet,   *)
(* handle_error): damaged bodies alone neither repeat a request, nor skip  *)
(* or reorder one, nor give the debugger another answer than its own; the  *)
(* worst of faults reorders none and gives no answer to a later request    *)
(* before one to an earlier.                                               *)
Link == INSTANCE RequestAnswer
LinkKeepsPromise == Link!Spec

(* Each worse fault costs at most two repetitions: a frame with a "-" in   *)
(* it that is broken is refused once for its "$" and once for its end      *)
(* (handle_error keeps the characters before and after a "-" apart).       *)
RepetitionsBounded == Len(executed) <= asked + 2 * disturbances

(* A packet whose end is lost takes all that follows for its content, the  *)
(* "-" of a debugger that waits for an answer included.                    *)
Swallowing == waiting = "answer" /\ input # <<>> /\ Head(input) = Dollar /\ MatchEnd = 0

(* Every request is settled, however its packets, acknowledgements and     *)
(* answers were damaged or lost, unless the debugger leaves or waits for   *)
(* an answer behind an unfinished packet (the rules of scanner.l).         *)
RequestSettled ==
  \A n \in 1 .. Requests :
    []((asked >= n) => \/ <>(Len(taken) >= n \/ waiting = "gone")
                      \/ <>[]Swallowing)
=============================================================================
