----------------------------- MODULE GdbLink_proof -----------------------------
(***************************************************************************)
(* The packet link keeps its promise for any number of requests, faults    *)
(* and timeouts, and any size of the buffer of errors: every step of       *)
(* scanner, debugger and line is a step of RequestAnswer or a stutter.     *)
(* And a session never executes more than RepetitionsBounded allows: an    *)
(* account of what is executed, on the line, refused and missing.          *)
(* Last, the tables of scanner.c match what the rules of scanner.l say.    *)
(***************************************************************************)
EXTENDS GdbLink, SequenceTheorems, FiniteSetTheorems, WellFoundedInduction, TLAPS

-----------------------------------------------------------------------------
(* Units are told apart by what comes first in them. *)
LEMMA Units ==
  /\ {Dollar, BadHash, Plus, Minus, Other, Newline, EOF} \subseteq Unit
  /\ \A n \in 0 .. Requests : Body(n) \in Unit
  /\ \A n \in 1 .. Requests : Hash(n) \in Unit
  /\ \A u \in {Dollar, BadHash, Plus, Minus, Other, Newline, EOF} : ~IsHash(u)
  /\ \A n : ~IsHash(Body(n)) /\ IsHash(Hash(n)) /\ Hash(n)[2] = n
  /\ \A u \in Unit : IsHash(u) => u[2] \in 1 .. Requests /\ u = Hash(u[2])
<1>1. \A u \in {Dollar, BadHash, Plus, Minus, Other, Newline, EOF} : u[1] # "#"
  BY DEF Dollar, BadHash, Plus, Minus, Other, Newline, EOF
<1>2. \A n : Body(n)[1] # "#" /\ Hash(n)[1] = "#" /\ Hash(n)[2] = n
  BY DEF Body, Hash
<1>3. /\ {Dollar, BadHash, Plus, Minus, Other, Newline, EOF} \subseteq Unit
      /\ \A n \in 0 .. Requests : Body(n) \in Unit
      /\ \A n \in 1 .. Requests : Hash(n) \in Unit
      /\ \A u \in Unit : \/ u \in {Dollar, BadHash, Plus, Minus, Other, Newline, EOF}
                         \/ \E n \in 0 .. Requests : u = Body(n)
                         \/ \E n \in 1 .. Requests : u = Hash(n)
  BY DEF Unit
<1> QED
  BY <1>1, <1>2, <1>3 DEF IsHash

(* So are messages. *)
LEMMA Messages ==
  /\ {Plus, Minus} \subseteq Message
  /\ \A n \in 0 .. Requests : Answer(n) \in Message
  /\ ~IsAnswer(Plus) /\ ~IsAnswer(Minus)
  /\ \A n : IsAnswer(Answer(n)) /\ Answer(n)[2] = n
  /\ \A m \in Message : IsAnswer(m) => m[2] \in 0 .. Requests /\ m = Answer(m[2])
<1>1. Plus[1] # "answer" /\ Minus[1] # "answer"
  BY DEF Plus, Minus
<1>2. \A n : Answer(n)[1] = "answer" /\ Answer(n)[2] = n
  BY DEF Answer
<1>3. /\ {Plus, Minus} \subseteq Message
      /\ \A n \in 0 .. Requests : Answer(n) \in Message
      /\ \A m \in Message : m \in {Plus, Minus} \/ \E n \in 0 .. Requests : m = Answer(n)
  BY DEF Message
<1> QED
  BY <1>1, <1>2, <1>3 DEF IsAnswer

(* All the kinds are distinct. *)
LEMMA Kinds ==
  /\ \A n, k : /\ Body(n) \notin {Dollar, BadHash, Plus, Minus, Other, Newline, EOF}
               /\ Hash(n) \notin {Dollar, BadHash, Plus, Minus, Other, Newline, EOF, Body(k)}
               /\ Body(n) = Body(k) <=> n = k
               /\ Body(n)[1] = "body"
  /\ Dollar \notin {BadHash, Plus, Minus, Other, Newline, EOF}
  /\ Plus \notin {BadHash, Minus, Other, Newline, EOF}
  /\ Minus \notin {BadHash, Other, Newline, EOF}
  /\ EOF \notin {BadHash, Other, Newline}
  /\ Other # BadHash
  /\ \A n : Answer(n) \notin {Plus, Minus}
  /\ \A n, k : Answer(n) = Answer(k) <=> n = k
  /\ \A u \in {Dollar, Plus, Minus, Other, EOF} : u[1] # "body"
  /\ \A n : Hash(n)[1] # "body"
<1>1. /\ Dollar[1] = "$" /\ BadHash[1] = "#!" /\ Plus[1] = "+" /\ Minus[1] = "-"
      /\ Other[1] = "other" /\ Newline[1] = "newline" /\ EOF[1] = "eof"
  BY DEF Dollar, BadHash, Plus, Minus, Other, Newline, EOF
<1>2. \A n : /\ Body(n)[1] = "body" /\ Body(n)[2] = n
             /\ Hash(n)[1] = "#" /\ Hash(n)[2] = n
             /\ Answer(n)[1] = "answer" /\ Answer(n)[2] = n
  BY DEF Body, Hash, Answer
<1> QED
  BY <1>1, <1>2

(* Sequences put together from single elements. *)
LEMMA JoinedThree ==
  ASSUME NEW S, NEW a \in S, NEW b \in S, NEW c \in S
  PROVE  <<a>> \o <<b>> \o <<c>> = <<a, b, c>>
<1>1. <<a>> \o <<b>> = <<a, b>>
  <2> DEFINE s == <<a>> \o <<b>>
  <2>1. s \in Seq(S) /\ Len(s) = 2 /\ s[1] = a /\ s[2] = b
    BY ConcatProperties
  <2> HIDE DEF s
  <2>2. s = <<a, b>>
    BY <2>1, SeqEqual
  <2> QED
    BY <2>2 DEF s
<1>2. <<a, b>> \o <<c>> = <<a, b, c>>
  <2> DEFINE s == <<a, b>> \o <<c>>
  <2>1. s \in Seq(S) /\ Len(s) = 3 /\ s[1] = a /\ s[2] = b /\ s[3] = c
    BY ConcatProperties
  <2> HIDE DEF s
  <2>2. s = <<a, b, c>>
    BY <2>1, SeqEqual
  <2> QED
    BY <2>2 DEF s
<1> QED
  BY <1>1, <1>2

(* The same with five.                                                     *)
LEMMA JoinedFive ==
  ASSUME NEW S, NEW a \in S, NEW b \in S, NEW c \in S, NEW d \in S, NEW e \in S
  PROVE  <<a>> \o <<b, c, d>> \o <<e>> = <<a, b, c, d, e>>
<1>1. <<a>> \o <<b, c, d>> = <<a, b, c, d>>
  <2> DEFINE s == <<a>> \o <<b, c, d>>
  <2>1. s \in Seq(S) /\ Len(s) = 4 /\ s[1] = a /\ s[2] = b /\ s[3] = c /\ s[4] = d
    BY ConcatProperties
  <2> HIDE DEF s
  <2>2. s = <<a, b, c, d>>
    BY <2>1, SeqEqual
  <2> QED
    BY <2>2 DEF s
<1>2. <<a, b, c, d>> \o <<e>> = <<a, b, c, d, e>>
  <2> DEFINE s == <<a, b, c, d>> \o <<e>>
  <2>1. /\ s \in Seq(S) /\ Len(s) = 5
        /\ s[1] = a /\ s[2] = b /\ s[3] = c /\ s[4] = d /\ s[5] = e
    BY ConcatProperties
  <2> HIDE DEF s
  <2>2. s = <<a, b, c, d, e>>
    BY <2>1, SeqEqual
  <2> QED
    BY <2>2 DEF s
<1> QED
  BY <1>1, <1>2

(* What a debugger sends. *)
LEMMA PacketUnits ==
  ASSUME NEW n \in 1 .. Requests
  PROVE  /\ Content(n) \in Seq(Unit) /\ Packet(n) \in Seq(Unit)
         /\ Packet(n) = IF n \in Dashed THEN <<Dollar, Body(n), Minus, Other, Hash(n)>>
                                        ELSE <<Dollar, Body(n), Hash(n)>>
<1>1. n \in 0 .. Requests
  BY LinkAssumption
<1>2. /\ Dollar \in Unit /\ Minus \in Unit /\ Other \in Unit
      /\ Body(n) \in Unit /\ Hash(n) \in Unit
  BY <1>1, Units
<1>3. CASE n \in Dashed
  <2>1. Content(n) = <<Body(n), Minus, Other>>
    BY <1>3 DEF Content
  <2>2. <<Dollar>> \o <<Body(n), Minus, Other>> \o <<Hash(n)>>
          = <<Dollar, Body(n), Minus, Other, Hash(n)>>
    BY <1>2, JoinedFive
  <2> QED
    BY <1>2, <1>3, <2>1, <2>2 DEF Packet
<1>4. CASE n \notin Dashed
  <2>1. Content(n) = <<Body(n)>>
    BY <1>4 DEF Content
  <2>2. <<Dollar>> \o <<Body(n)>> \o <<Hash(n)>> = <<Dollar, Body(n), Hash(n)>>
    BY <1>2, JoinedThree
  <2> QED
    BY <1>2, <1>4, <2>1, <2>2 DEF Packet
<1> QED
  BY <1>3, <1>4

(* The first of some places. *)
LEMMA Least ==
  ASSUME NEW n, NEW T, T \subseteq 2 .. n, T # {}
  PROVE  \E m \in T : \A k \in T : m <= k
<1> DEFINE W == {1 .. k : k \in T}
<1>1. W \subseteq FiniteSubsetsOf(Nat) /\ W # {}
  <2>1. \A k \in T : k \in Int
    OBVIOUS
  <2>2. \A k \in T : 1 .. k \subseteq Nat /\ IsFiniteSet(1 .. k)
    BY <2>1, FS_Interval
  <2> QED
    BY <2>2 DEF FiniteSubsetsOf
<1>2. PICK x \in W : \A y \in W : <<y, x>> \notin StrictSubsetOrdering(Nat)
  <2> HIDE DEF W
  <2> QED
    BY <1>1, WFMin, FS_StrictSubsetOrderingWellFounded
<1>3. PICK m \in T : x = 1 .. m
  OBVIOUS
<1>4. ASSUME NEW k \in T, k < m PROVE FALSE
  <2>1. 1 .. k \in W /\ 1 .. k \subseteq 1 .. m /\ 1 .. m \subseteq Nat
        /\ m \in 1 .. m /\ m \notin 1 .. k
    BY <1>3, <1>4
  <2> QED
    BY <1>2, <1>3, <2>1 DEF StrictSubsetOrdering
<1> HIDE DEF W
<1>5. \A k \in T : k \in Int
  OBVIOUS
<1>6. ASSUME NEW k \in T PROVE m <= k
  BY <1>4, <1>5
<1> QED
  BY <1>6

(* Where a match ends. *)
Ends(u) == u \in {Dollar, BadHash, EOF} \/ IsHash(u)

(* A match ends at the first unit that can end one.                        *)
LEMMA MatchEnds ==
  ASSUME input \in Seq(Unit)
  PROVE  \/ /\ MatchEnd = 0
            /\ \A i \in 2 .. Len(input) : ~Ends(input[i])
         \/ /\ MatchEnd \in 2 .. Len(input) /\ Ends(input[MatchEnd])
            /\ \A i \in 2 .. MatchEnd - 1 : ~Ends(input[i])
<1> DEFINE I == {i \in 2 .. Len(input) : input[i] \in {Dollar, BadHash, EOF} \/ IsHash(input[i])}
<1>1. MatchEnd = IF I # {} THEN Min(I) ELSE 0
  BY DEF MatchEnd, SelectInSubSeq
<1>2. CASE I = {}
  BY <1>1, <1>2 DEF Ends
<1>3. CASE I # {}
  <2>2. PICK m \in I : \A j \in I : m <= j
    BY <1>3, Least
  <2>3. Min(I) \in I /\ \A j \in I : Min(I) <= j
    BY <2>2 DEF Min
  <2> QED
    <3>1. MatchEnd \in I /\ \A j \in I : MatchEnd <= j
      BY <1>1, <1>3, <2>3
    <3>2. \A i \in 2 .. MatchEnd - 1 : i \in 2 .. Len(input) /\ i \notin I
      BY <3>1, LenProperties
    <3> QED
      BY <3>1, <3>2 DEF Ends
<1> QED
  BY <1>2, <1>3

-----------------------------------------------------------------------------
(* Types.  The debugger waits for the answer to a request it has asked.    *)

Counted ==
  /\ waiting = "nothing" => Len(taken) = asked
  /\ waiting \in {"ack", "answer"} => Len(taken) = asked - 1

LinkTyped == LinkTypeOK /\ Counted

(* The link starts well-typed.                                             *)
LEMMA InitTyped == ASSUME LinkInit PROVE LinkTyped
<1>1. /\ input \in Seq(Unit) /\ output \in Seq(Message)
      /\ executed \in Seq(1 .. Requests) /\ taken \in Seq(1 .. Requests) /\ Len(taken) = 0
  BY EmptySeq DEF LinkInit
<1>2. /\ errors \in 0 .. MaxErrorSize - 1 /\ packet \in 0 .. Requests
      /\ serving \in 0 .. Requests /\ asked \in 0 .. Requests /\ tries \in 0 .. MaxTries
      /\ damage \in 0 .. MaxDamage /\ disturbances \in 0 .. MaxDisturb
      /\ asked = 0
  BY LinkAssumption DEF LinkInit
<1> QED
  BY <1>1, <1>2 DEF LinkTyped, LinkTypeOK, Counted, LinkInit

(* What handle_error sends.                                                *)
LEMMA FlushedType == \A len : Flushed(len) \in Seq(Message)
<1>1. <<Minus>> \in Seq(Message) /\ <<>> \in Seq(Message)
  BY Messages
<1> QED
  BY <1>1 DEF Flushed

(* The rules of the scanner, and the handler, keep the types.              *)
LEMMA ScannerTyped ==
  ASSUME LinkTyped, Scanner
  PROVE  LinkTyped'
<1>1. /\ input \in Seq(Unit) /\ output \in Seq(Message) /\ errors \in 0 .. MaxErrorSize - 1
      /\ packet \in 0 .. Requests /\ serving \in 0 .. Requests
      /\ executed \in Seq(1 .. Requests) /\ MaxErrorSize \in Nat /\ MaxErrorSize >= 2
      /\ Requests \in Nat
  BY LinkAssumption DEF LinkTyped, LinkTypeOK
<1>2. ASSUME Scanning
      PROVE  Tail(input) \in Seq(Unit) /\ Len(input) \in Nat \ {0}
  BY <1>1, <1>2, HeadTailProperties, EmptySeq DEF Scanning
<1>3. \A s \in Seq(Message) : output \o Flushed(errors) \o s \in Seq(Message)
  BY <1>1, FlushedType, ConcatProperties
<1>4. output \o Flushed(errors) \in Seq(Message)
  BY <1>1, FlushedType, ConcatProperties
<1>5. <<Plus>> \in Seq(Message) /\ <<Minus>> \in Seq(Message) /\ <<>> \in Seq(Message)
  BY Messages
<1>6. UNCHANGED <<debuggerVars, faultVars>>
  BY DEF Scanner, ScanPlus, ScanMinus, ScanPacket, ScanError, ScanNewline, ScanEOF, Serve,
         scannerVars
<1>7. SUFFICES /\ input' \in Seq(Unit) /\ output' \in Seq(Message)
               /\ errors' \in 0 .. MaxErrorSize - 1
               /\ packet' \in 0 .. Requests /\ serving' \in 0 .. Requests
               /\ scanner' \in {"scanning", "returned"}
               /\ executed' \in Seq(1 .. Requests)
  BY <1>6, <1>7 DEF LinkTyped, LinkTypeOK, Counted, debuggerVars, faultVars
<1>8. CASE ScanPlus
  BY <1>1, <1>2, <1>4, <1>8 DEF ScanPlus, LinkTyped, LinkTypeOK
<1>9. CASE ScanMinus
  <2>1. (IF packet = 0 THEN <<>> ELSE <<Answer(packet)>>) \in Seq(Message)
    BY <1>1, <1>5, Messages
  <2>2. output' \in Seq(Message)
    BY <1>3, <1>9, <2>1 DEF ScanMinus
  <2> QED
    BY <1>1, <1>2, <1>9, <2>2 DEF ScanMinus, LinkTyped, LinkTypeOK
<1>10. CASE ScanPacket
  <2>1. MatchEnd \in 2 .. Len(input) /\ IsHash(input[MatchEnd])
    BY <1>1, <1>10, MatchEnds DEF ScanPacket
  <2>2. input[MatchEnd][2] \in 1 .. Requests
    BY <1>1, <2>1, ElementOfSeq, Units
  <2>3. SubSeq(input, MatchEnd + 1, Len(input)) \in Seq(Unit)
    BY <1>1, <2>1, LenProperties, SubSeqProperties
  <2>4. output' \in Seq(Message)
    BY <1>3, <1>5, <1>10 DEF ScanPacket
  <2>5. serving' \in 0 .. Requests
    BY <1>1, <1>10, <2>2 DEF ScanPacket
  <2>6. /\ input' = SubSeq(input, MatchEnd + 1, Len(input)) /\ errors' = 0
        /\ UNCHANGED <<packet, scanner, executed>>
    BY <1>10 DEF ScanPacket
  <2> QED
    BY <1>1, <2>3, <2>4, <2>5, <2>6 DEF LinkTyped, LinkTypeOK
<1>11. CASE ScanError
  <2>1. CASE errors > MaxErrorSize - 2
    <3>1. output' = output \o Flushed(errors) /\ errors' = 1
      BY <1>11, <2>1 DEF ScanError
    <3> QED
      BY <1>1, <1>2, <1>4, <1>11, <3>1 DEF ScanError, LinkTyped, LinkTypeOK
  <2>2. CASE ~(errors > MaxErrorSize - 2)
    <3>1. output' = output /\ errors' = errors + 1
      BY <1>11, <2>2 DEF ScanError
    <3> QED
      BY <1>1, <1>2, <1>11, <2>2, <3>1 DEF ScanError, LinkTyped, LinkTypeOK
  <2> QED
    BY <2>1, <2>2
<1>12. CASE ScanNewline
  BY <1>1, <1>2, <1>12 DEF ScanNewline, scannerVars, LinkTyped, LinkTypeOK
<1>13. CASE ScanEOF
  BY <1>1, <1>4, <1>13 DEF ScanEOF, LinkTyped, LinkTypeOK
<1>14. CASE Serve
  <2>1. serving \in 1 .. Requests /\ Answer(serving) \in Message
    BY <1>1, <1>14, Messages DEF Serve
  <2>2. output' \in Seq(Message) /\ executed' \in Seq(1 .. Requests)
    BY <1>1, <1>14, <2>1, AppendProperties DEF Serve
  <2> QED
    BY <1>1, <1>14, <2>1, <2>2 DEF Serve, LinkTyped, LinkTypeOK
<1> QED
  BY <1>8, <1>9, <1>10, <1>11, <1>12, <1>13, <1>14 DEF Scanner

(* Whatever is sent on is made of units.                                   *)
LEMMA TransmitType ==
  ASSUME input \in Seq(Unit), NEW units \in Seq(Unit), Transmit(units)
  PROVE  input' \in Seq(Unit)
BY ConcatProperties DEF Transmit

(* What is sent in single bytes.                                           *)
LEMMA SmallSequences ==
  /\ <<Plus>> \in Seq(Unit) /\ <<Minus>> \in Seq(Unit) /\ <<EOF>> \in Seq(Unit)
  /\ <<Other>> \in Seq(Unit) /\ <<Newline>> \in Seq(Unit) /\ <<>> \in Seq(Unit)
BY Units

(* A timeout sends units.                                                  *)
LEMMA ResendType ==
  ASSUME LinkTyped, Resend
  PROVE  input' \in Seq(Unit)
<1>1. CASE waiting = "ack" /\ Transmit(Packet(asked))
  <2>1. asked \in 1 .. Requests
    BY <1>1, LenProperties, LinkAssumption DEF LinkTyped, LinkTypeOK, Counted
  <2> QED
    BY <1>1, <2>1, PacketUnits, TransmitType DEF LinkTyped, LinkTypeOK
<1>2. CASE waiting = "answer" /\ Transmit(<<Minus>>)
  BY <1>2, SmallSequences, TransmitType DEF LinkTyped, LinkTypeOK
<1> QED
  BY <1>1, <1>2 DEF Resend

(* The debugger keeps the types and its count of answers.                  *)
LEMMA DebuggerTyped ==
  ASSUME LinkTyped, Debugger \/ Leave
  PROVE  LinkTyped'
<1>1. /\ input \in Seq(Unit) /\ output \in Seq(Message)
      /\ asked \in 0 .. Requests /\ tries \in 0 .. MaxTries /\ MaxTries \in Nat
      /\ Requests \in Nat /\ taken \in Seq(1 .. Requests) /\ Len(taken) \in Nat
      /\ waiting \in {"nothing", "ack", "answer", "gone"}
  BY LinkAssumption, LenProperties DEF LinkTyped, LinkTypeOK
<1>2. UNCHANGED <<scannerVars, faultVars>>
  BY DEF Debugger, Ask, ReadAck, ReadAnswer, Timeout, Leave, scannerVars, faultVars
<1>3. SUFFICES /\ input' \in Seq(Unit) /\ output' \in Seq(Message)
               /\ asked' \in 0 .. Requests
               /\ waiting' \in {"nothing", "ack", "answer", "gone"}
               /\ tries' \in 0 .. MaxTries /\ taken' \in Seq(1 .. Requests)
               /\ Counted'
  BY <1>2, <1>3 DEF LinkTyped, LinkTypeOK, scannerVars, faultVars
<1>4. CASE Ask
  <2>1. asked + 1 \in 1 .. Requests /\ Len(taken) = asked
    BY <1>1, <1>4 DEF Ask, LinkTyped, Counted
  <2>2. input' \in Seq(Unit)
    BY <1>1, <1>4, <2>1, PacketUnits, TransmitType DEF Ask
  <2> QED
    BY <1>1, <1>4, <2>1, <2>2 DEF Ask, Counted
<1>5. CASE ReadAck
  <2>1. asked \in 1 .. Requests /\ Len(taken) = asked - 1
    BY <1>1, <1>5 DEF ReadAck, LinkTyped, Counted
  <2>2. input' \in Seq(Unit)
    BY <1>1, <1>5, <2>1, PacketUnits, SmallSequences, TransmitType DEF ReadAck
  <2>3. output' \in Seq(Message)
    BY <1>1, <1>5, HeadTailProperties DEF ReadAck
  <2>4. 0 \in 0 .. MaxTries
    BY <1>1
  <2> QED
    BY <1>1, <1>5, <2>1, <2>2, <2>3, <2>4 DEF ReadAck, Counted
<1>6. CASE ReadAnswer
  <2>1. asked \in 1 .. Requests /\ Len(taken) = asked - 1
    BY <1>1, <1>6 DEF ReadAnswer, LinkTyped, Counted
  <2>2. Head(output) \in Message /\ output' \in Seq(Message)
    BY <1>1, <1>6, HeadTailProperties DEF ReadAnswer
  <2>3. 0 \in 0 .. MaxTries
    BY <1>1
  <2>4. CASE IsAnswer(Head(output)) /\ Head(output) # Answer(0)
    <3>1. Head(output)[2] \in 1 .. Requests
      BY <1>1, <2>2, <2>4, Messages
    <3>2. taken' = Append(taken, Head(output)[2]) /\ waiting' = "nothing"
          /\ Transmit(<<Plus>>) /\ asked' = asked /\ tries' = 0
      BY <1>6, <2>4 DEF ReadAnswer
    <3>3. taken' \in Seq(1 .. Requests) /\ Len(taken') = asked
      BY <1>1, <2>1, <3>1, <3>2, AppendProperties
    <3>4. input' \in Seq(Unit)
      BY <1>1, <3>2, SmallSequences, TransmitType
    <3> QED
      BY <1>1, <2>2, <2>3, <3>2, <3>3, <3>4 DEF Counted
  <2>5. CASE ~(IsAnswer(Head(output)) /\ Head(output) # Answer(0))
    <3>1. /\ Transmit(IF IsAnswer(Head(output)) THEN <<Minus>> ELSE <<>>)
          /\ UNCHANGED <<taken, waiting, asked>> /\ tries' = 0
      BY <1>6, <2>5 DEF ReadAnswer
    <3>2. input' \in Seq(Unit)
      BY <1>1, <3>1, SmallSequences, TransmitType
    <3> QED
      BY <1>1, <2>2, <2>3, <3>1, <3>2 DEF Counted, LinkTyped
  <2> QED
    BY <2>4, <2>5
<1>7. CASE Timeout
  <2>1. input' \in Seq(Unit)
    BY <1>7, ResendType DEF Timeout
  <2>2. tries' \in 0 .. MaxTries
    BY <1>1, <1>7 DEF Timeout
  <2> QED
    BY <1>1, <1>7, <2>1, <2>2 DEF Timeout, LinkTyped, Counted
<1>8. CASE Leave
  <2>1. input' \in Seq(Unit)
    BY <1>1, <1>8, SmallSequences, TransmitType DEF Leave
  <2> QED
    BY <1>1, <1>8, <2>1 DEF Leave, Counted
<1> QED
  BY <1>4, <1>5, <1>6, <1>7, <1>8 DEF Debugger

(* A line that has lost one of its units is a line.                        *)
LEMMA RemoveAtType ==
  ASSUME NEW S, NEW s \in Seq(S), NEW i \in 1 .. Len(s)
  PROVE  /\ RemoveAt(s, i) \in Seq(S)
         /\ Len(RemoveAt(s, i)) = Len(s) - 1
         /\ \A j \in 1 .. Len(s) - 1 :
              RemoveAt(s, i)[j] = IF j < i THEN s[j] ELSE s[j + 1]
<1> DEFINE a == SubSeq(s, 1, i - 1)
           b == SubSeq(s, i + 1, Len(s))
<1>1. Len(s) \in Nat /\ i \in Int
  BY LenProperties
<1>2. \A j \in 1 .. Len(s) : s[j] \in S
  BY ElementOfSeq
<1>3. /\ a \in Seq(S) /\ Len(a) = i - 1
      /\ \A j \in 1 .. i - 1 : a[j] = s[j]
  <2>1. /\ a \in Seq(S) /\ Len(a) = IF 1 <= i - 1 THEN i - 1 - 1 + 1 ELSE 0
        /\ \A j \in 1 .. i - 1 - 1 + 1 : a[j] = s[1 + j - 1]
    BY <1>1, <1>2, SubSeqProperties
  <2> HIDE DEF a
  <2> QED
    BY <1>1, <2>1
<1>4. /\ b \in Seq(S) /\ Len(b) = Len(s) - i
      /\ \A j \in 1 .. Len(s) - i : b[j] = s[i + j]
  <2>1. /\ b \in Seq(S)
        /\ Len(b) = IF i + 1 <= Len(s) THEN Len(s) - (i + 1) + 1 ELSE 0
        /\ \A j \in 1 .. Len(s) - (i + 1) + 1 : b[j] = s[i + 1 + j - 1]
    BY <1>1, <1>2, SubSeqProperties
  <2> HIDE DEF b
  <2> QED
    BY <1>1, <2>1
<1> HIDE DEF a, b
<1>5. /\ a \o b \in Seq(S) /\ Len(a \o b) = Len(s) - 1
      /\ \A j \in 1 .. Len(s) - 1 :
           (a \o b)[j] = IF j <= i - 1 THEN a[j] ELSE b[j - (i - 1)]
  <2>1. /\ a \o b \in Seq(S) /\ Len(a \o b) = Len(a) + Len(b)
        /\ \A j \in 1 .. Len(a) + Len(b) :
             (a \o b)[j] = IF j <= Len(a) THEN a[j] ELSE b[j - Len(a)]
    BY <1>3, <1>4, ConcatProperties
  <2>2. Len(a) = i - 1 /\ Len(a) + Len(b) = Len(s) - 1
    BY <1>1, <1>3, <1>4
  <2> QED
    BY <2>1, <2>2
<1>6. \A j \in 1 .. Len(s) - 1 : (a \o b)[j] = IF j < i THEN s[j] ELSE s[j + 1]
  <2> TAKE j \in 1 .. Len(s) - 1
  <2>1. CASE j < i
    BY <1>1, <1>3, <1>5, <2>1
  <2>2. CASE ~(j < i)
    <3>1. j - (i - 1) \in 1 .. Len(s) - i /\ i + (j - (i - 1)) = j + 1 /\ ~(j <= i - 1)
      BY <1>1, <2>2
    <3> QED
      BY <1>4, <1>5, <2>2, <3>1
  <2> QED
    BY <2>1, <2>2
<1> QED
  BY <1>5, <1>6 DEF RemoveAt, a, b

(* The faults keep the types.                                              *)
LEMMA FaultsTyped ==
  ASSUME LinkTyped, Faults
  PROVE  LinkTyped'
<1>1. /\ input \in Seq(Unit) /\ output \in Seq(Message)
      /\ DOMAIN input = 1 .. Len(input) /\ DOMAIN output = 1 .. Len(output)
      /\ damage \in 0 .. MaxDamage /\ disturbances \in 0 .. MaxDisturb
      /\ MaxDamage \in Nat /\ MaxDisturb \in Nat /\ Requests \in Nat
  BY LinkAssumption, LenProperties DEF LinkTyped, LinkTypeOK
<1>2. UNCHANGED <<scannerVars, debuggerVars>>
  BY DEF Faults, DamageBody, Lose, Break, Stray, Impatience
<1>3. SUFFICES /\ input' \in Seq(Unit) /\ output' \in Seq(Message)
               /\ damage' \in 0 .. MaxDamage /\ disturbances' \in 0 .. MaxDisturb
  BY <1>2, <1>3 DEF LinkTyped, LinkTypeOK, Counted, scannerVars, debuggerVars
<1>4. Body(0) \in Unit /\ Answer(0) \in Message
  BY <1>1, Units, Messages
<1>5. Disturbed => disturbances' \in 0 .. MaxDisturb
  BY <1>1 DEF Disturbed
<1>6. CASE DamageBody
  <2>1. input' \in Seq(Unit) /\ output' \in Seq(Message)
    <3>1. \/ output' = output /\ \E i \in 1 .. Len(input) :
                                     input' = [input EXCEPT ![i] = Body(0)]
          \/ input' = input /\ \E i \in 1 .. Len(output) :
                                    output' = [output EXCEPT ![i] = Answer(0)]
      BY <1>1, <1>6 DEF DamageBody
    <3>2. \A i \in 1 .. Len(input) : [input EXCEPT ![i] = Body(0)] \in Seq(Unit)
      BY <1>1, <1>4, ExceptSeq
    <3>3. \A i \in 1 .. Len(output) : [output EXCEPT ![i] = Answer(0)] \in Seq(Message)
      BY <1>1, <1>4, ExceptSeq
    <3> QED
      BY <1>1, <3>1, <3>2, <3>3
  <2> QED
    BY <1>1, <1>6, <2>1 DEF DamageBody
<1>7. CASE Lose
  <2>1. input' \in Seq(Unit) /\ output' \in Seq(Message)
    <3>1. input' = input \/ \E i \in 1 .. Len(input) : input' = RemoveAt(input, i)
      BY <1>1, <1>7 DEF Lose
    <3>2. output' = output \/ \E i \in 1 .. Len(output) : output' = RemoveAt(output, i)
      BY <1>1, <1>7 DEF Lose
    <3> QED
      <4>1. input' \in Seq(Unit)
        BY <1>1, <3>1, RemoveAtType
      <4>2. output' \in Seq(Message)
        BY <1>1, <3>2, RemoveAtType
      <4> QED
        BY <4>1, <4>2
  <2> QED
    BY <1>1, <1>5, <1>7, <2>1 DEF Lose
<1>8. CASE Break
  <2>1. PICK i \in 1 .. Len(input), byte \in {Other, Minus, BadHash} :
          input' = [input EXCEPT ![i] = byte]
    BY <1>1, <1>8 DEF Break
  <2>2. input' \in Seq(Unit)
    BY <1>1, <2>1, Units, ExceptSeq
  <2> QED
    BY <1>1, <1>5, <1>8, <2>2 DEF Break
<1>9. CASE Stray
  <2>1. input' \in Seq(Unit)
    BY <1>1, <1>9, SmallSequences, TransmitType DEF Stray
  <2> QED
    BY <1>1, <1>5, <1>9, <2>1 DEF Stray
<1>10. CASE Impatience
  <2>1. input' \in Seq(Unit)
    BY <1>10, ResendType DEF Impatience
  <2> QED
    BY <1>1, <1>5, <1>10, <2>1 DEF Impatience
<1> QED
  BY <1>6, <1>7, <1>8, <1>9, <1>10 DEF Faults

(* Units, messages, requests and counters keep their types, and the buffer *)
(* of errors has room for one more character, whatever the sizes: the      *)
(* buffer of scanner.l is never overrun.                                   *)
LEMMA LinkTypedKept == ASSUME LinkTyped, [LinkNext]_vars PROVE LinkTyped'
<1>1. CASE UNCHANGED vars
  BY <1>1 DEF LinkTyped, LinkTypeOK, Counted, vars, scannerVars, debuggerVars, faultVars
<1> QED
  BY <1>1, ScannerTyped, DebuggerTyped, FaultsTyped DEF LinkNext

(* add_character_to_error never fills the place of the final '\0', and    *)
(* units, messages and counters keep their types, under all faults.        *)
THEOREM LinkTypeCorrect == LinkSpec => []LinkTypeOK
<1>1. LinkTyped => LinkTypeOK
  BY DEF LinkTyped
<1> QED
  BY <1>1, InitTyped, LinkTypedKept, PTL DEF LinkSpec
-----------------------------------------------------------------------------
(* The order.  The numbers on their way to the scanner, and the answers on *)
(* their way back, never decrease.                                         *)

Numbered(u) == IsHash(u) \/ (IsAnswer(u) /\ u # Answer(0))

InOrder(s, from, to) ==
  \A i \in 1 .. Len(s) : Numbered(s[i]) =>
    /\ from <= s[i][2] /\ s[i][2] <= to
    /\ \A j \in i .. Len(s) : Numbered(s[j]) => s[i][2] <= s[j][2]

Newest == IF serving # 0 THEN serving ELSE packet

RequestsOrdered ==
  /\ packet <= Newest /\ Newest <= asked
  /\ InOrder(input, Newest, asked)

AnswersOrdered ==
  /\ packet = Link!Latest(executed)
  /\ Link!Latest(taken) <= packet
  /\ InOrder(output, Link!Latest(taken), packet)
  /\ \A i \in 1 .. Len(output) : Numbered(output[i]) =>
       \E k \in 1 .. Len(executed) : executed[k] = output[i][2]

Ordered == RequestsOrdered /\ AnswersOrdered

-----------------------------------------------------------------------------
(* A line that only damages bodies: what is on its way tells how far the   *)
(* request asked last has come.                                            *)

Waits(w) == waiting = w \/ waiting = "gone"

(* What the debugger has sent and the scanner not read, before the end.    *)
Unread(sent) == input = IF waiting = "gone" THEN Append(sent, EOF) ELSE sent

Damaged(n) == [Packet(n) EXCEPT ![2] = Body(0)]

Idle ==
  /\ packet = asked /\ serving = 0 /\ output = <<>>
  /\ Waits("nothing") /\ (Unread(<<>>) \/ Unread(<<Plus>>))

Asking ==
  /\ packet < asked /\ serving = 0 /\ output = <<>>
  /\ Waits("ack")
  /\ \E frame \in {Packet(asked), Damaged(asked)} :
       Unread(frame) \/ Unread(<<Plus>> \o frame)

Refused ==
  /\ packet < asked /\ serving = 0 /\ output = <<Minus>>
  /\ Waits("ack") /\ Unread(<<>>)

Accepted ==
  /\ packet < asked /\ serving = asked
  /\ Unread(<<>>)
  /\ \/ output = <<Plus>> /\ Waits("ack")
     \/ output = <<>> /\ Waits("answer")

Answered ==
  /\ packet = asked /\ asked # 0 /\ serving = 0
  /\ Unread(<<>>)
  /\ \E n \in {0, asked} : \/ output = <<Plus, Answer(n)>> /\ Waits("ack")
                           \/ output = <<Answer(n)>> /\ Waits("answer")

Reclaimed ==
  /\ packet = asked /\ asked # 0 /\ serving = 0 /\ output = <<>>
  /\ Waits("answer") /\ Unread(<<Minus>>)

Undisturbed ==
  disturbances = 0 =>
    /\ errors = 0
    /\ scanner = "returned" => waiting = "gone"
    /\ Idle \/ Asking \/ Refused \/ Accepted \/ Answered \/ Reclaimed

LinkInv == LinkTyped /\ Ordered /\ Undisturbed

-----------------------------------------------------------------------------
(* What keeps numbers in order.                                            *)

(* The numbers that units and messages carry.                              *)
LEMMA Numbers ==
  /\ \A u \in Unit : /\ Numbered(u) <=> IsHash(u)
                     /\ Numbered(u) => u[2] \in 1 .. Requests
  /\ \A m \in Message : /\ Numbered(m) <=> IsAnswer(m) /\ m # Answer(0)
                        /\ Numbered(m) => m[2] \in 1 .. Requests
  /\ \A u \in {Dollar, BadHash, Plus, Minus, Other, Newline, EOF, Answer(0)} : ~Numbered(u)
  /\ \A n : ~Numbered(Body(n))
<1>1. \A u \in {Dollar, BadHash, Plus, Minus, Other, Newline, EOF} :
        u[1] # "answer" /\ u[1] # "#"
  BY DEF Dollar, BadHash, Plus, Minus, Other, Newline, EOF
<1>2. \A n : /\ Body(n)[1] # "answer" /\ Hash(n)[1] # "answer" /\ Answer(n)[1] # "#"
             /\ Body(n)[1] # "#"
  BY DEF Body, Hash, Answer
<1>3. \A u \in Unit : ~IsAnswer(u)
  BY <1>1, <1>2 DEF IsAnswer, Unit
<1>4. \A m \in Message : ~IsHash(m)
  BY <1>1, <1>2 DEF IsHash, Message
<1>5. \A m \in Message : IsAnswer(m) /\ m # Answer(0) => m[2] \in 1 .. Requests
  BY Messages, LinkAssumption
<1> QED
  BY <1>1, <1>2, <1>3, <1>4, <1>5, Units DEF Numbered, IsHash, IsAnswer

(* Reading on.                                                             *)
LEMMA DropOrder ==
  ASSUME NEW s, NEW t, NEW k \in Nat, Len(s) \in Nat, Len(t) = Len(s) - k, k <= Len(s),
         \A i \in 1 .. Len(t) : t[i] = s[i + k],
         NEW from, NEW to, InOrder(s, from, to)
  PROVE  InOrder(t, from, to)
<1> SUFFICES ASSUME NEW i \in 1 .. Len(t), Numbered(t[i])
             PROVE  /\ from <= t[i][2] /\ t[i][2] <= to
                    /\ \A j \in i .. Len(t) : Numbered(t[j]) => t[i][2] <= t[j][2]
  BY DEF InOrder
<1>1. i + k \in 1 .. Len(s) /\ t[i] = s[i + k]
  OBVIOUS
<1>2. \A j \in i .. Len(t) : j + k \in (i + k) .. Len(s) /\ t[j] = s[j + k]
  OBVIOUS
<1> QED
  BY <1>1, <1>2 DEF InOrder

(* Behind a number there are none below it.                                *)
LEMMA BehindOrder ==
  ASSUME NEW s, NEW t, NEW k \in 1 .. Len(s), Len(s) \in Nat, Len(t) = Len(s) - k,
         \A i \in 1 .. Len(t) : t[i] = s[i + k], Numbered(s[k]),
         NEW from, NEW to, InOrder(s, from, to)
  PROVE  InOrder(t, s[k][2], to)
<1>1. InOrder(t, from, to)
  BY DropOrder, SMTT(60)
<1>2. ASSUME NEW i \in 1 .. Len(t), Numbered(t[i])
      PROVE  s[k][2] <= t[i][2]
  <2>1. i + k \in k .. Len(s) /\ t[i] = s[i + k]
    OBVIOUS
  <2> QED
    BY <1>2, <2>1 DEF InOrder
<1> QED
  BY <1>1, <1>2 DEF InOrder

(* A unit lost.                                                            *)
LEMMA RemoveOrder ==
  ASSUME NEW S, NEW s \in Seq(S), NEW k \in 1 .. Len(s),
         NEW from, NEW to, InOrder(s, from, to)
  PROVE  InOrder(RemoveAt(s, k), from, to)
<1> DEFINE t == RemoveAt(s, k)
           p(i) == IF i < k THEN i ELSE i + 1
<1>1. /\ Len(s) \in Nat /\ Len(t) = Len(s) - 1
      /\ \A i \in 1 .. Len(s) - 1 : t[i] = IF i < k THEN s[i] ELSE s[i + 1]
  BY RemoveAtType, LenProperties
<1> HIDE DEF t
<1> SUFFICES ASSUME NEW i \in 1 .. Len(t), Numbered(t[i])
             PROVE  /\ from <= t[i][2] /\ t[i][2] <= to
                    /\ \A j \in i .. Len(t) : Numbered(t[j]) => t[i][2] <= t[j][2]
  BY DEF InOrder, t
<1>2. p(i) \in 1 .. Len(s) /\ t[i] = s[p(i)]
  BY <1>1
<1>3. \A j \in i .. Len(t) : p(j) \in p(i) .. Len(s) /\ t[j] = s[p(j)]
  BY <1>1
<1> HIDE DEF p
<1> QED
  BY <1>2, <1>3 DEF InOrder

(* A unit changed into one without a number.                               *)
LEMMA ExceptOrder ==
  ASSUME NEW S, NEW s \in Seq(S), NEW k \in 1 .. Len(s), NEW u \in S, ~Numbered(u),
         NEW from, NEW to, InOrder(s, from, to)
  PROVE  InOrder([s EXCEPT ![k] = u], from, to)
<1> DEFINE t == [s EXCEPT ![k] = u]
<1>1. /\ Len(t) = Len(s) /\ Len(s) \in Nat
      /\ \A i \in 1 .. Len(s) : t[i] = IF i = k THEN u ELSE s[i]
  BY ExceptSeq, LenProperties
<1> HIDE DEF t
<1>2. \A i \in 1 .. Len(t) : Numbered(t[i]) => i \in 1 .. Len(s) /\ t[i] = s[i]
  BY <1>1
<1>3. InOrder(t, from, to)
  BY <1>1, <1>2 DEF InOrder
<1> QED
  BY <1>3 DEF t

(* Numbers sent after others are not below them.                           *)
LEMMA JoinOrder ==
  ASSUME NEW S, NEW s \in Seq(S), NEW t \in Seq(S),
         \A u \in S : Numbered(u) => u[2] \in Int,
         NEW from \in Int, NEW mid \in Int, NEW to \in Int, from <= mid, mid <= to,
         InOrder(s, from, mid), InOrder(t, mid, to)
  PROVE  InOrder(s \o t, from, to)
<1> DEFINE w == s \o t
<1>1. /\ Len(s) \in Nat /\ Len(t) \in Nat /\ Len(w) = Len(s) + Len(t)
      /\ \A i \in 1 .. Len(s) + Len(t) :
           w[i] = IF i <= Len(s) THEN s[i] ELSE t[i - Len(s)]
  BY ConcatProperties, LenProperties
<1>2. /\ \A i \in 1 .. Len(s) : Numbered(s[i]) => s[i][2] \in Int
      /\ \A i \in 1 .. Len(t) : Numbered(t[i]) => t[i][2] \in Int
  BY ElementOfSeq
<1> HIDE DEF w
<1>3. ASSUME NEW i \in 1 .. Len(w), Numbered(w[i])
      PROVE  /\ from <= w[i][2] /\ w[i][2] <= to
             /\ \A j \in i .. Len(w) : Numbered(w[j]) => w[i][2] <= w[j][2]
  <2>1. CASE i <= Len(s)
    <3>1. /\ w[i] = s[i] /\ i \in 1 .. Len(s) /\ w[i][2] \in Int
          /\ from <= w[i][2] /\ w[i][2] <= mid
          /\ \A j \in i .. Len(s) : Numbered(s[j]) => w[i][2] <= s[j][2]
      BY <1>1, <1>2, <1>3, <2>1 DEF InOrder
    <3>2. ASSUME NEW j \in i .. Len(w), Numbered(w[j]) PROVE w[i][2] <= w[j][2]
      <4>1. CASE j <= Len(s)
        BY <1>1, <3>1, <3>2, <4>1, SMTT(60)
      <4>2. CASE ~(j <= Len(s))
        <5>1. j - Len(s) \in 1 .. Len(t) /\ w[j] = t[j - Len(s)]
          BY <1>1, <4>2
        <5>2. mid <= w[j][2] /\ w[j][2] \in Int
          BY <1>2, <3>2, <5>1 DEF InOrder
        <5> QED
          BY <3>1, <5>2
      <4> QED
        BY <4>1, <4>2
    <3> QED
      BY <3>1, <3>2
  <2>2. CASE ~(i <= Len(s))
    <3>1. i - Len(s) \in 1 .. Len(t) /\ w[i] = t[i - Len(s)]
      BY <1>1, <2>2
    <3>2. \A j \in i .. Len(w) : /\ j - Len(s) \in (i - Len(s)) .. Len(t)
                                 /\ w[j] = t[j - Len(s)]
      BY <1>1, <2>2
    <3>3. /\ mid <= w[i][2] /\ w[i][2] <= to /\ w[i][2] \in Int
          /\ \A j \in i .. Len(w) : Numbered(w[j]) => w[i][2] <= w[j][2]
      BY <1>2, <1>3, <3>1, <3>2 DEF InOrder
    <3> QED
      BY <3>3
  <2> QED
    BY <2>1, <2>2
<1> QED
  BY <1>3 DEF InOrder, w

(* Wider bounds. *)
LEMMA WidenOrder ==
  ASSUME NEW S, NEW s \in Seq(S), \A u \in S : Numbered(u) => u[2] \in Int,
         NEW from \in Int, NEW to \in Int, NEW from2 \in Int, NEW to2 \in Int,
         from2 <= from, to <= to2, InOrder(s, from, to)
  PROVE  InOrder(s, from2, to2)
<1>1. \A i \in 1 .. Len(s) : Numbered(s[i]) => s[i][2] \in Int
  BY ElementOfSeq
<1> QED
  BY <1>1 DEF InOrder

(* What has no number, or one only. *)
LEMMA NoOrder ==
  ASSUME NEW s, \A i \in 1 .. Len(s) : ~Numbered(s[i]), NEW from, NEW to
  PROVE  InOrder(s, from, to)
BY DEF InOrder

(* A single number is in order.                                            *)
LEMMA OneOrder ==
  ASSUME NEW s, NEW n \in Int, \A i \in 1 .. Len(s) : Numbered(s[i]) => s[i][2] = n
  PROVE  InOrder(s, n, n)
<1>1. \A i \in 1 .. Len(s), j \in 1 .. Len(s) :
        Numbered(s[i]) /\ Numbered(s[j]) => s[i][2] <= s[j][2]
  OBVIOUS
<1>2. ASSUME NEW i \in 1 .. Len(s) PROVE i .. Len(s) \subseteq 1 .. Len(s)
  OBVIOUS
<1> QED
  BY <1>1, <1>2 DEF InOrder

-----------------------------------------------------------------------------
(* Every step keeps the order.                                             *)

(* The latest of a history is what was put behind it.                      *)
LEMMA LatestOf ==
  ASSUME NEW s \in Seq(1 .. Requests)
  PROVE  /\ Link!Latest(s) \in 0 .. Requests
         /\ Link!Latest(s) # 0 => \E k \in 1 .. Len(s) : s[k] = Link!Latest(s)
         /\ \A n \in 1 .. Requests : Link!Latest(Append(s, n)) = n
<1>1. Len(s) \in Nat /\ (s # <<>> => Len(s) \in 1 .. Len(s))
  BY EmptySeq, LenProperties
<1>2. s # <<>> => s[Len(s)] \in 1 .. Requests
  BY <1>1, ElementOfSeq
<1>3. ASSUME NEW n \in 1 .. Requests
      PROVE  Link!Latest(Append(s, n)) = n
  <2>1. Len(Append(s, n)) = Len(s) + 1 /\ Append(s, n)[Len(s) + 1] = n
        /\ Append(s, n) # <<>>
    BY <1>1, <1>3, AppendProperties, EmptySeq
  <2> QED
    BY <2>1 DEF Link!Latest
<1> QED
  BY <1>1, <1>2, <1>3, LinkAssumption DEF Link!Latest

(* The numbers of the state.                                               *)
LEMMA LinkNumbers ==
  ASSUME LinkTyped
  PROVE  /\ asked \in Nat /\ packet \in Nat /\ serving \in Nat /\ Newest \in Nat
         /\ Link!Latest(taken) \in Nat /\ Link!Latest(executed) \in Nat
         /\ \A u \in Unit : Numbered(u) => u[2] \in Int
         /\ \A m \in Message : Numbered(m) => m[2] \in Int
         /\ input \in Seq(Unit) /\ output \in Seq(Message)
         /\ Len(input) \in Nat /\ Len(output) \in Nat
<1>1. /\ asked \in Nat /\ packet \in Nat /\ serving \in Nat
      /\ taken \in Seq(1 .. Requests) /\ executed \in Seq(1 .. Requests)
      /\ input \in Seq(Unit) /\ output \in Seq(Message)
  BY LinkAssumption DEF LinkTyped, LinkTypeOK
<1>2. Link!Latest(taken) \in 0 .. Requests /\ Link!Latest(executed) \in 0 .. Requests
  BY <1>1, LatestOf
<1>3. /\ \A u \in Unit : Numbered(u) => u[2] \in Int
      /\ \A m \in Message : Numbered(m) => m[2] \in Int
  BY Numbers
<1> QED
  BY <1>1, <1>2, <1>3, LenProperties DEF Newest

(* The scanner sends acknowledgements, and the last answer again.          *)
LEMMA SendOrder ==
  ASSUME LinkTyped, AnswersOrdered, UNCHANGED <<packet, executed, taken>>,
         NEW more \in Seq(Message), output' = output \o more,
         \A i \in 1 .. Len(more) : Numbered(more[i]) => more[i][2] = packet /\ packet # 0
  PROVE  AnswersOrdered'
<1>1. /\ packet \in Nat /\ Link!Latest(taken) \in Nat /\ output \in Seq(Message)
      /\ Link!Latest(executed) \in Nat
      /\ Len(output) \in Nat /\ Len(more) \in Nat
      /\ \A m \in Message : Numbered(m) => m[2] \in Int
  BY LinkNumbers, LenProperties
<1>2. InOrder(more, packet, packet)
  BY <1>1, OneOrder
<1>3. InOrder(output \o more, Link!Latest(taken), packet)
  BY <1>1, <1>2, JoinOrder DEF AnswersOrdered
<1>4. ASSUME NEW i \in 1 .. Len(output \o more), Numbered((output \o more)[i])
      PROVE  \E k \in 1 .. Len(executed) : executed[k] = (output \o more)[i][2]
  <2>1. /\ Len(output \o more) = Len(output) + Len(more)
        /\ (output \o more)[i] = IF i <= Len(output) THEN output[i] ELSE more[i - Len(output)]
    BY <1>1, ConcatProperties
  <2>2. CASE i <= Len(output)
    BY <1>1, <1>4, <2>1, <2>2 DEF AnswersOrdered
  <2>3. CASE ~(i <= Len(output))
    <3>1. i - Len(output) \in 1 .. Len(more)
      BY <1>1, <2>1, <2>3
    <3>2. (output \o more)[i][2] = packet /\ packet # 0
      BY <1>4, <2>1, <2>3, <3>1
    <3>3. executed \in Seq(1 .. Requests)
      BY DEF LinkTyped, LinkTypeOK
    <3> QED
      BY <3>2, <3>3, LatestOf, SMTT(60) DEF AnswersOrdered
  <2> QED
    BY <2>2, <2>3
<1>5. Link!Latest(taken') = Link!Latest(taken) /\ Link!Latest(executed') = Link!Latest(executed)
  OBVIOUS
<1> QED
  BY <1>3, <1>4 DEF AnswersOrdered, Link!Latest

(* What is read, lost or damaged leaves the others as they were.           *)
LEMMA LessOrder ==
  ASSUME LinkTyped, AnswersOrdered, UNCHANGED <<packet, executed, taken>>,
         InOrder(output', Link!Latest(taken), packet),
         \A i \in 1 .. Len(output') : Numbered(output'[i]) =>
           \E j \in 1 .. Len(output) : output'[i] = output[j]
  PROVE  AnswersOrdered'
BY DEF AnswersOrdered, Link!Latest

(* The debugger sends nothing about an earlier request.                    *)
LEMMA SentOrder ==
  ASSUME LinkTyped, RequestsOrdered, UNCHANGED <<packet, serving>>,
         asked' \in Nat, asked <= asked',
         NEW units \in Seq(Unit), Transmit(units),
         \A i \in 1 .. Len(units) : Numbered(units[i]) => units[i][2] = asked'
  PROVE  RequestsOrdered'
<1>1. /\ asked \in Nat /\ packet \in Nat /\ Newest \in Nat /\ input \in Seq(Unit)
      /\ \A u \in Unit : Numbered(u) => u[2] \in Int
  BY LinkNumbers
<1>2. Newest' = Newest /\ Newest <= asked' /\ packet <= Newest
  BY <1>1 DEF Newest, RequestsOrdered
<1>3. InOrder(input, Newest, asked')
  BY <1>1, <1>2, WidenOrder DEF RequestsOrdered
<1>4. InOrder(units, asked', asked')
  BY OneOrder
<1>5. InOrder(input \o units, Newest, asked')
  BY <1>1, <1>2, <1>3, <1>4, JoinOrder
<1> QED
  BY <1>2, <1>5 DEF RequestsOrdered, Transmit

(* A packet carries the number of its request only.                        *)
LEMMA PacketNumber ==
  ASSUME NEW n \in 1 .. Requests
  PROVE  \A i \in 1 .. Len(Packet(n)) : Numbered(Packet(n)[i]) => Packet(n)[i][2] = n
<1>1. /\ ~Numbered(Dollar) /\ ~Numbered(Minus) /\ ~Numbered(Other) /\ ~Numbered(Body(n))
      /\ Hash(n)[2] = n
  BY Numbers, Units
<1>2. CASE n \in Dashed
  BY <1>1, <1>2, PacketUnits
<1>3. CASE n \notin Dashed
  BY <1>1, <1>3, PacketUnits
<1> QED
  BY <1>2, <1>3

(* Single bytes carry no number.                                           *)
LEMMA SmallNumbers ==
  \A u \in {Plus, Minus, EOF, Other, Newline} :
    \A i \in 1 .. Len(<<u>>) : ~Numbered(<<u>>[i])
BY Numbers

(* What handle_error sends carries no number.                              *)
LEMMA FlushedNumbers ==
  \A len : \A i \in 1 .. Len(Flushed(len)) : ~Numbered(Flushed(len)[i])
BY Numbers DEF Flushed

(* Nor do single bytes. *)
LEMMA SentByte ==
  ASSUME LinkTyped, RequestsOrdered, UNCHANGED <<packet, serving, asked>>,
         \/ Transmit(<<>>)
         \/ \E u \in {Plus, Minus, EOF, Other, Newline} : Transmit(<<u>>)
  PROVE  RequestsOrdered'
<1>1. asked \in Nat
  BY LinkNumbers
<1>2. ASSUME NEW units \in Seq(Unit), Transmit(units),
             \A i \in 1 .. Len(units) : ~Numbered(units[i])
      PROVE  RequestsOrdered'
  BY <1>1, <1>2, SentOrder
<1>3. CASE Transmit(<<>>)
  <2> DEFINE none == <<>>
  <2>1. none \in Seq(Unit) /\ Transmit(none) /\ \A i \in 1 .. Len(none) : ~Numbered(none[i])
    BY <1>3, EmptySeq
  <2> HIDE DEF none
  <2> QED
    BY <1>2, <2>1
<1>4. CASE \E u \in {Plus, Minus, EOF, Other, Newline} : Transmit(<<u>>)
  <2>1. PICK u \in {Plus, Minus, EOF, Other, Newline} : Transmit(<<u>>)
    BY <1>4
  <2> DEFINE one == <<u>>
  <2>2. one \in Seq(Unit) /\ Transmit(one) /\ \A i \in 1 .. Len(one) : ~Numbered(one[i])
    BY <2>1, SmallSequences, SmallNumbers
  <2> HIDE DEF one
  <2> QED
    BY <1>2, <2>2
<1> QED
  BY <1>3, <1>4

(* The scanner and the handler keep the order.                             *)
LEMMA ScannerOrdered ==
  ASSUME LinkTyped, Ordered, Scanner
  PROVE  Ordered'
<1>1. /\ asked \in Nat /\ packet \in Nat /\ serving \in Nat /\ Newest \in Nat
      /\ Link!Latest(taken) \in Nat /\ Link!Latest(executed) \in Nat
      /\ \A u \in Unit : Numbered(u) => u[2] \in Int
      /\ \A m \in Message : Numbered(m) => m[2] \in Int
      /\ input \in Seq(Unit) /\ output \in Seq(Message)
      /\ Len(input) \in Nat /\ Len(output) \in Nat
  BY LinkNumbers
<1>2. UNCHANGED <<asked, taken>>
  BY DEF Scanner, ScanPlus, ScanMinus, ScanPacket, ScanError, ScanNewline, ScanEOF, Serve,
         scannerVars, debuggerVars
<1>3. ASSUME Scanning, UNCHANGED <<packet, serving>>, input' = Tail(input)
      PROVE  RequestsOrdered'
  <2>1. /\ Len(Tail(input)) = Len(input) - 1 /\ 1 <= Len(input)
        /\ \A i \in 1 .. Len(Tail(input)) : Tail(input)[i] = input[i + 1]
    BY <1>1, <1>3, HeadTailProperties, EmptySeq DEF Scanning
  <2>2. InOrder(Tail(input), Newest, asked)
    BY <1>1, <2>1, DropOrder DEF Ordered, RequestsOrdered
  <2> QED
    BY <1>2, <1>3, <2>2 DEF Ordered, RequestsOrdered, Newest
<1>4. ASSUME UNCHANGED <<packet, executed>>, NEW more \in Seq(Message),
             output' = output \o Flushed(errors) \o more,
             \A i \in 1 .. Len(more) : Numbered(more[i]) => more[i][2] = packet /\ packet # 0
      PROVE  AnswersOrdered'
  <2>1. Flushed(errors) \in Seq(Message)
    BY FlushedType
  <2>2. output' = output \o (Flushed(errors) \o more)
    BY <1>1, <1>4, <2>1, ConcatAssociative, SMTT(60)
  <2>3. Flushed(errors) \o more \in Seq(Message)
    BY <1>4, <2>1, ConcatProperties
  <2>4. \A i \in 1 .. Len(Flushed(errors) \o more) :
          Numbered((Flushed(errors) \o more)[i]) =>
            (Flushed(errors) \o more)[i][2] = packet /\ packet # 0
    <3> DEFINE f == Flushed(errors)
    <3>1. /\ Len(f) \in Nat /\ Len(more) \in Nat /\ Len(f \o more) = Len(f) + Len(more)
          /\ \A i \in 1 .. Len(f) + Len(more) :
               (f \o more)[i] = IF i <= Len(f) THEN f[i] ELSE more[i - Len(f)]
      BY <1>4, <2>1, ConcatProperties, LenProperties
    <3>2. \A i \in 1 .. Len(f) : ~Numbered(f[i])
      BY FlushedNumbers
    <3> HIDE DEF f
    <3>3. ASSUME NEW i \in 1 .. Len(f \o more), Numbered((f \o more)[i])
          PROVE  (f \o more)[i][2] = packet /\ packet # 0
      <4>1. CASE i <= Len(f)
        BY <3>1, <3>2, <3>3, <4>1
      <4>2. CASE ~(i <= Len(f))
        <5>1. i - Len(f) \in 1 .. Len(more) /\ (f \o more)[i] = more[i - Len(f)]
          BY <3>1, <4>2
        <5> QED
          BY <1>4, <3>3, <5>1
      <4> QED
        BY <4>1, <4>2
    <3> QED
      BY <3>3 DEF f
  <2> QED
    BY <1>2, <1>4, <2>2, <2>3, <2>4, SendOrder DEF Ordered
<1>5. ASSUME UNCHANGED <<packet, executed>>, output' = output \o Flushed(errors)
      PROVE  AnswersOrdered'
  <2>1. Flushed(errors) \in Seq(Message)
        /\ \A i \in 1 .. Len(Flushed(errors)) : ~Numbered(Flushed(errors)[i])
    BY FlushedType, FlushedNumbers
  <2> QED
    BY <1>2, <1>5, <2>1, SendOrder DEF Ordered
<1>6. UNCHANGED <<packet, executed, output>> => AnswersOrdered'
  BY <1>2 DEF Ordered, AnswersOrdered, Link!Latest
<1>7. CASE ScanPlus
  BY <1>3, <1>5, <1>7 DEF ScanPlus, Ordered
<1>8. CASE ScanMinus
  <2> DEFINE more == IF packet = 0 THEN <<>> ELSE <<Answer(packet)>>
  <2>1. more \in Seq(Message)
    <3>1. packet \in 0 .. Requests
      BY DEF LinkTyped, LinkTypeOK
    <3> QED
      BY <3>1, Messages
  <2>2. \A i \in 1 .. Len(more) : Numbered(more[i]) => more[i][2] = packet /\ packet # 0
    BY Messages
  <2>3. output' = output \o Flushed(errors) \o more
    BY <1>8 DEF ScanMinus
  <2> HIDE DEF more
  <2>4. AnswersOrdered'
    BY <1>4, <1>8, <2>1, <2>2, <2>3 DEF ScanMinus
  <2> QED
    BY <1>3, <1>8, <2>4 DEF ScanMinus, Ordered
<1>9. CASE ScanPacket
  <2> DEFINE k == MatchEnd
             rest == SubSeq(input, MatchEnd + 1, Len(input))
             given == input[MatchEnd][2]
  <2>1. k \in 2 .. Len(input) /\ IsHash(input[k])
    BY <1>1, <1>9, MatchEnds DEF ScanPacket
  <2>2. input[k] \in Unit /\ Numbered(input[k]) /\ given \in 1 .. Requests
    BY <1>1, <2>1, ElementOfSeq, Numbers
  <2>3. input' = rest /\ (serving' = given \/ serving' = 0) /\ serving = 0
        /\ UNCHANGED <<packet, executed>>
    BY <1>9 DEF ScanPacket, Scanning
  <2>4. \/ output' = output \o Flushed(errors) \o <<Plus>>
        \/ output' = output \o Flushed(errors) \o <<Minus>>
    BY <1>9 DEF ScanPacket
  <2>5. AnswersOrdered'
    <3>1. <<Plus>> \in Seq(Message) /\ <<Minus>> \in Seq(Message)
      BY Messages
    <3> QED
      BY <1>4, <2>3, <2>4, <3>1, SmallNumbers
  <2> HIDE DEF k
  <2>6. Len(rest) = Len(input) - k /\ \A i \in 1 .. Len(rest) : rest[i] = input[i + k]
    <3>1. \A i \in k + 1 .. Len(input) : input[i] \in Unit
      BY <1>1, <2>1, ElementOfSeq
    <3>2. /\ Len(rest) = IF k + 1 <= Len(input) THEN Len(input) - (k + 1) + 1 ELSE 0
          /\ \A i \in 1 .. Len(input) - (k + 1) + 1 : rest[i] = input[k + 1 + i - 1]
      BY <1>1, <2>1, <3>1, SubSeqProperties DEF k
    <3> HIDE DEF rest
    <3> QED
      BY <1>1, <2>1, <3>2
  <2>7. InOrder(input, packet, asked) /\ packet <= given /\ given <= asked
    <3>1. InOrder(input, packet, asked)
      BY <2>3 DEF Ordered, RequestsOrdered, Newest
    <3> QED
      BY <2>1, <2>2, <3>1 DEF InOrder, k
  <2> HIDE DEF rest
  <2>8. InOrder(rest, packet, asked)
    <3>1. k \in Nat /\ k <= Len(input)
      BY <1>1, <2>1
    <3> QED
      BY <1>1, <2>6, <2>7, <3>1, DropOrder
  <2>9. InOrder(rest, given, asked)
    <3>1. k \in 1 .. Len(input) /\ Len(input) \in Nat /\ Numbered(input[k])
      BY <1>1, <2>1, <2>2
    <3>2. InOrder(input, packet, asked)
      BY <2>7
    <3>3. InOrder(rest, input[k][2], asked)
      BY <2>6, <3>1, <3>2, BehindOrder
    <3> QED
      BY <3>3 DEF k
  <2>10. Newest' = packet \/ Newest' = given
    BY <2>2, <2>3 DEF Newest
  <2>11. RequestsOrdered'
    <3>1. packet <= asked
      BY <2>3 DEF Ordered, RequestsOrdered, Newest
    <3> HIDE DEF given
    <3> QED
      BY <1>1, <1>2, <2>2, <2>3, <2>7, <2>8, <2>9, <2>10, <3>1 DEF RequestsOrdered
  <2> QED
    BY <2>5, <2>11 DEF Ordered
<1>10. CASE ScanError
  <2>1. CASE errors > MaxErrorSize - 2
    <3>1. output' = output \o Flushed(errors) /\ UNCHANGED <<packet, executed>>
      BY <1>10, <2>1 DEF ScanError
    <3> QED
      BY <1>3, <1>5, <1>10, <3>1 DEF ScanError, Ordered
  <2>2. CASE ~(errors > MaxErrorSize - 2)
    BY <1>3, <1>6, <1>10, <2>2 DEF ScanError, Ordered
  <2> QED
    BY <2>1, <2>2
<1>11. CASE ScanNewline
  BY <1>3, <1>6, <1>11 DEF ScanNewline, scannerVars, Ordered
<1>12. CASE ScanEOF
  <2>1. RequestsOrdered'
    BY <1>2, <1>12 DEF ScanEOF, Ordered, RequestsOrdered, Newest
  <2> QED
    BY <1>5, <1>12, <2>1 DEF ScanEOF, Ordered
<1>13. CASE Serve
  <2>1. serving \in 1 .. Requests /\ Answer(serving) \in Message
        /\ Newest = serving /\ packet <= serving
    <3>1. serving \in 0 .. Requests /\ serving # 0
      BY <1>13 DEF LinkTyped, LinkTypeOK, Serve
    <3> QED
      BY <3>1, LinkAssumption, Messages DEF Newest, Ordered, RequestsOrdered
  <2>2. /\ executed' = Append(executed, serving) /\ packet' = serving /\ serving' = 0
        /\ output' = Append(output, Answer(serving)) /\ input' = input
        /\ executed \in Seq(1 .. Requests)
    BY <1>13 DEF Serve, LinkTyped, LinkTypeOK
  <2>3. RequestsOrdered'
    BY <1>1, <1>2, <2>1, <2>2 DEF Ordered, RequestsOrdered, Newest
  <2>4. Link!Latest(executed') = packet'
    BY <2>1, <2>2, LatestOf
  <2>5. InOrder(output', Link!Latest(taken), serving)
    <3> DEFINE last == <<Answer(serving)>>
    <3>1. InOrder(output, Link!Latest(taken), serving)
      BY <1>1, <2>1, WidenOrder DEF Ordered, AnswersOrdered
    <3>2. InOrder(last, serving, serving)
      BY <1>1, Messages, OneOrder
    <3>3. output' = output \o last /\ last \in Seq(Message)
      BY <1>1, <2>1, <2>2, AppendIsConcat
    <3>4. /\ output \in Seq(Message) /\ \A m \in Message : Numbered(m) => m[2] \in Int
          /\ Link!Latest(taken) \in Int /\ serving \in Int
          /\ Link!Latest(taken) <= serving /\ serving <= serving
      BY <1>1, <2>1 DEF Ordered, AnswersOrdered
    <3> HIDE DEF last
    <3>5. InOrder(output \o last, Link!Latest(taken), serving)
      BY <3>1, <3>2, <3>3, <3>4, JoinOrder
    <3> QED
      BY <3>3, <3>5
  <2>6. /\ Len(executed) \in Nat /\ Len(executed') = Len(executed) + 1
        /\ executed'[Len(executed) + 1] = serving
        /\ \A k \in 1 .. Len(executed) : executed'[k] = executed[k]
    BY <2>1, <2>2, AppendProperties, LenProperties
  <2>7. ASSUME NEW i \in 1 .. Len(output'), Numbered(output'[i])
        PROVE  \E k \in 1 .. Len(executed') : executed'[k] = output'[i][2]
    <3>1. /\ Len(output') = Len(output) + 1 /\ output'[Len(output) + 1] = Answer(serving)
          /\ \A j \in 1 .. Len(output) : output'[j] = output[j]
      BY <1>1, <2>1, <2>2, AppendProperties
    <3>2. CASE i = Len(output) + 1
      <4>1. output'[i][2] = serving
        BY <3>1, <3>2, Messages
      <4>2. Len(executed) + 1 \in 1 .. Len(executed')
        BY <2>6
      <4> QED
        BY <2>6, <4>1, <4>2
    <3>3. CASE i # Len(output) + 1
      <4>1. i \in 1 .. Len(output) /\ output'[i] = output[i]
        BY <1>1, <3>1, <3>3
      <4>2. PICK k \in 1 .. Len(executed) : executed[k] = output[i][2]
        BY <2>7, <4>1 DEF Ordered, AnswersOrdered
      <4>3. k \in 1 .. Len(executed') /\ executed'[k] = executed[k]
        BY <2>6
      <4> QED
        BY <4>1, <4>2, <4>3
    <3> QED
      BY <3>2, <3>3
  <2>8. Link!Latest(taken') = Link!Latest(taken) /\ Link!Latest(taken) <= serving
    BY <1>1, <1>2, <2>1 DEF Ordered, AnswersOrdered, Link!Latest
  <2>9. AnswersOrdered'
    <3>1. (Link!Latest(executed))' = packet' /\ (Link!Latest(taken))' = Link!Latest(taken)
      BY <1>2, <2>4 DEF Link!Latest
    <3> QED
      BY <2>2, <2>5, <2>7, <2>8, <3>1 DEF AnswersOrdered
  <2> QED
    BY <2>3, <2>9 DEF Ordered
<1> QED
  BY <1>7, <1>8, <1>9, <1>10, <1>11, <1>12, <1>13 DEF Scanner

(* What the debugger sends again belongs to the request asked last.        *)
LEMMA ResendOrdered ==
  ASSUME LinkTyped, RequestsOrdered, UNCHANGED <<packet, serving, asked>>, Resend
  PROVE  RequestsOrdered'
<1>1. asked \in Nat
  BY LinkNumbers
<1>2. CASE waiting = "ack" /\ Transmit(Packet(asked))
  <2>1. asked \in 1 .. Requests
    BY <1>2, LenProperties, LinkAssumption DEF LinkTyped, LinkTypeOK, Counted
  <2>2. Packet(asked) \in Seq(Unit)
    BY <2>1, PacketUnits
  <2>3. \A i \in 1 .. Len(Packet(asked)) :
          Numbered(Packet(asked)[i]) => Packet(asked)[i][2] = asked'
    BY <2>1, PacketNumber
  <2> QED
    BY <1>1, <1>2, <2>2, <2>3, SentOrder
<1>3. CASE waiting = "answer" /\ Transmit(<<Minus>>)
  BY <1>3, SentByte
<1> QED
  BY <1>2, <1>3 DEF Resend

(* Reading a message. *)
LEMMA ReadOrdered ==
  ASSUME LinkTyped, AnswersOrdered, output # <<>>
  PROVE  /\ InOrder(Tail(output), Link!Latest(taken), packet)
         /\ Numbered(Head(output)) =>
              /\ InOrder(Tail(output), Head(output)[2], packet)
              /\ Link!Latest(taken) <= Head(output)[2] /\ Head(output)[2] <= packet
              /\ \E k \in 1 .. Len(executed) : executed[k] = Head(output)[2]
         /\ \A i \in 1 .. Len(Tail(output)) : Numbered(Tail(output)[i]) =>
              \E j \in 1 .. Len(output) : Tail(output)[i] = output[j]
<1>1. /\ output \in Seq(Message) /\ Len(output) \in Nat /\ 1 \in 1 .. Len(output)
      /\ Len(Tail(output)) = Len(output) - 1 /\ Head(output) = output[1]
      /\ \A i \in 1 .. Len(Tail(output)) : Tail(output)[i] = output[i + 1]
  BY LinkNumbers, HeadTailProperties, EmptySeq
<1>2. InOrder(output, Link!Latest(taken), packet)
  BY DEF AnswersOrdered
<1>3. InOrder(Tail(output), Link!Latest(taken), packet)
  <2>1. 1 \in Nat /\ 1 <= Len(output)
    BY <1>1
  <2> QED
    BY <1>1, <1>2, <2>1, DropOrder
<1>4. ASSUME Numbered(output[1])
      PROVE  /\ InOrder(Tail(output), output[1][2], packet)
             /\ Link!Latest(taken) <= output[1][2] /\ output[1][2] <= packet
  <2>1. InOrder(Tail(output), output[1][2], packet)
    BY <1>1, <1>2, <1>4, BehindOrder
  <2> QED
    BY <1>1, <1>2, <1>4, <2>1 DEF InOrder
<1>5. ASSUME NEW i \in 1 .. Len(Tail(output))
      PROVE  i + 1 \in 1 .. Len(output) /\ Tail(output)[i] = output[i + 1]
  BY <1>1
<1> QED
  BY <1>1, <1>3, <1>4, <1>5 DEF AnswersOrdered

(* The debugger keeps the order.                                           *)
LEMMA DebuggerOrdered ==
  ASSUME LinkTyped, Ordered, Debugger \/ Leave
  PROVE  Ordered'
<1>1. asked \in Nat /\ output \in Seq(Message)
  BY LinkNumbers
<1>2. UNCHANGED <<packet, serving, executed>>
  BY DEF Debugger, Ask, ReadAck, ReadAnswer, Timeout, Leave, scannerVars
<1>3. UNCHANGED <<output, taken>> => AnswersOrdered'
  BY <1>2 DEF Ordered, AnswersOrdered, Link!Latest
<1>4. ASSUME output # <<>>, output' = Tail(output), taken' = taken
      PROVE  AnswersOrdered'
  <2>1. /\ InOrder(output', Link!Latest(taken), packet)
        /\ \A i \in 1 .. Len(output') : Numbered(output'[i]) =>
             \E j \in 1 .. Len(output) : output'[i] = output[j]
    BY <1>4, ReadOrdered DEF Ordered
  <2> QED
    BY <1>2, <1>4, <2>1, LessOrder DEF Ordered
<1>5. \A u \in {Plus, Minus, EOF} : asked' = asked /\ Transmit(<<u>>) => RequestsOrdered'
  BY <1>2, SentByte DEF Ordered
<1>6. asked' = asked /\ Transmit(<<>>) => RequestsOrdered'
  BY <1>2, SentByte DEF Ordered
<1>7. CASE Ask
  <2>1. asked' = asked + 1 /\ asked' \in 1 .. Requests /\ Transmit(Packet(asked'))
        /\ UNCHANGED <<output, taken>>
    BY <1>1, <1>7, LinkAssumption DEF Ask
  <2>2. Packet(asked') \in Seq(Unit)
    BY <2>1, PacketUnits
  <2>3. \A i \in 1 .. Len(Packet(asked')) :
          Numbered(Packet(asked')[i]) => Packet(asked')[i][2] = asked'
    BY <2>1, PacketNumber
  <2>4. RequestsOrdered'
    BY <1>1, <1>2, <2>1, <2>2, <2>3, SentOrder DEF Ordered
  <2> QED
    BY <1>3, <2>1, <2>4 DEF Ordered
<1>8. CASE ReadAck
  <2>1. /\ output # <<>> /\ output' = Tail(output) /\ taken' = taken
        /\ asked' = asked /\ waiting = "ack"
        /\ Transmit(Packet(asked)) \/ Transmit(<<>>)
    BY <1>8 DEF ReadAck
  <2>2. Transmit(Packet(asked)) => RequestsOrdered'
    BY <1>2, <2>1, ResendOrdered DEF Resend, Ordered
  <2> QED
    BY <1>4, <1>6, <2>1, <2>2 DEF Ordered
<1>9. CASE ReadAnswer
  <2>1. /\ output # <<>> /\ output' = Tail(output) /\ asked' = asked
        /\ Head(output) \in Message
    BY <1>1, <1>9, HeadTailProperties DEF ReadAnswer
  <2>2. CASE IsAnswer(Head(output)) /\ Head(output) # Answer(0)
    <3>1. taken' = Append(taken, Head(output)[2]) /\ Transmit(<<Plus>>)
      BY <1>9, <2>2 DEF ReadAnswer
    <3>2. Numbered(Head(output)) /\ Head(output)[2] \in 1 .. Requests
      BY <2>1, <2>2, Numbers
    <3>3. Link!Latest(taken') = Head(output)[2]
      BY <3>1, <3>2, LatestOf DEF LinkTyped, LinkTypeOK
    <3>4. /\ InOrder(output', Link!Latest(taken'), packet)
          /\ Link!Latest(taken') <= packet
          /\ \A i \in 1 .. Len(output') : Numbered(output'[i]) =>
               \E j \in 1 .. Len(output) : output'[i] = output[j]
      BY <2>1, <3>2, <3>3, ReadOrdered DEF Ordered
    <3>5. AnswersOrdered'
      BY <1>2, <3>4 DEF Ordered, AnswersOrdered, Link!Latest
    <3> QED
      BY <1>5, <2>1, <3>1, <3>5 DEF Ordered
  <2>3. CASE ~(IsAnswer(Head(output)) /\ Head(output) # Answer(0))
    <3>1. taken' = taken /\ (Transmit(<<Minus>>) \/ Transmit(<<>>))
      BY <1>9, <2>3 DEF ReadAnswer
    <3> QED
      BY <1>4, <1>5, <1>6, <2>1, <3>1 DEF Ordered
  <2> QED
    BY <2>2, <2>3
<1>10. CASE Timeout
  BY <1>2, <1>3, <1>10, ResendOrdered DEF Timeout, Ordered
<1>11. CASE Leave
  BY <1>3, <1>5, <1>11 DEF Leave, Ordered
<1> QED
  BY <1>7, <1>8, <1>9, <1>10, <1>11 DEF Debugger

(* No fault puts anything before what it was behind.                       *)
LEMMA FaultsOrdered ==
  ASSUME LinkTyped, Ordered, Faults
  PROVE  Ordered'
<1>1. /\ asked \in Nat /\ output \in Seq(Message) /\ input \in Seq(Unit)
      /\ DOMAIN input = 1 .. Len(input) /\ DOMAIN output = 1 .. Len(output)
  BY LinkNumbers, LenProperties
<1>2. UNCHANGED <<packet, serving, executed, asked, taken>>
  BY DEF Faults, DamageBody, Lose, Break, Stray, Impatience, scannerVars, debuggerVars
<1>3. output' = output => AnswersOrdered'
  BY <1>2 DEF Ordered, AnswersOrdered, Link!Latest
<1>4. input' = input => RequestsOrdered'
  BY <1>2 DEF Ordered, RequestsOrdered, Newest
<1>5. InOrder(input', Newest, asked) => RequestsOrdered'
  BY <1>2 DEF Ordered, RequestsOrdered, Newest
<1>6. ASSUME NEW k \in 1 .. Len(input), NEW u \in Unit, ~Numbered(u),
             input' = [input EXCEPT ![k] = u]
      PROVE  RequestsOrdered'
  BY <1>1, <1>5, <1>6, ExceptOrder DEF Ordered, RequestsOrdered
<1>7. CASE DamageBody
  <2>1. \/ output' = output /\ \E i \in 1 .. Len(input) :
                                 input' = [input EXCEPT ![i] = Body(0)]
        \/ input' = input /\ \E i \in 1 .. Len(output) :
                                output' = [output EXCEPT ![i] = Answer(0)]
    BY <1>1, <1>7 DEF DamageBody
  <2>2. Body(0) \in Unit /\ ~Numbered(Body(0)) /\ Answer(0) \in Message /\ ~Numbered(Answer(0))
    BY Numbers, Units, Messages, LinkAssumption
  <2>3. ASSUME NEW k \in 1 .. Len(output), output' = [output EXCEPT ![k] = Answer(0)]
        PROVE  AnswersOrdered'
    <3>1. InOrder(output', Link!Latest(taken), packet)
      BY <1>1, <2>2, <2>3, ExceptOrder DEF Ordered, AnswersOrdered
    <3>2. /\ Len(output') = Len(output)
          /\ \A i \in 1 .. Len(output) :
               output'[i] = IF i = k THEN Answer(0) ELSE output[i]
      BY <1>1, <2>2, <2>3, ExceptSeq
    <3>3. \A i \in 1 .. Len(output') : Numbered(output'[i]) =>
            \E j \in 1 .. Len(output) : output'[i] = output[j]
      BY <2>2, <3>2
    <3> QED
      BY <1>2, <3>1, <3>3, LessOrder DEF Ordered
  <2> QED
    BY <1>3, <1>4, <1>6, <2>1, <2>2, <2>3 DEF Ordered
<1>8. CASE Lose
  <2>1. \/ output' = output /\ \E i \in 1 .. Len(input) : input' = RemoveAt(input, i)
        \/ input' = input /\ \E i \in 1 .. Len(output) : output' = RemoveAt(output, i)
    BY <1>1, <1>8 DEF Lose
  <2>2. ASSUME NEW k \in 1 .. Len(input), input' = RemoveAt(input, k)
        PROVE  RequestsOrdered'
    BY <1>1, <1>5, <2>2, RemoveOrder DEF Ordered, RequestsOrdered
  <2>3. ASSUME NEW k \in 1 .. Len(output), output' = RemoveAt(output, k)
        PROVE  AnswersOrdered'
    <3>1. InOrder(output', Link!Latest(taken), packet)
      BY <1>1, <2>3, RemoveOrder DEF Ordered, AnswersOrdered
    <3>2. /\ Len(output') = Len(output) - 1 /\ Len(output) \in Nat
          /\ \A i \in 1 .. Len(output) - 1 :
               output'[i] = IF i < k THEN output[i] ELSE output[i + 1]
      BY <1>1, <2>3, RemoveAtType, LenProperties
    <3>3. ASSUME NEW i \in 1 .. Len(output')
          PROVE  \E j \in 1 .. Len(output) : output'[i] = output[j]
      <4>1. i \in 1 .. Len(output) /\ i + 1 \in 1 .. Len(output)
        BY <3>2
      <4> QED
        BY <3>2, <4>1
    <3> QED
      BY <1>2, <3>1, <3>3, LessOrder DEF Ordered
  <2> QED
    BY <1>3, <1>4, <2>1, <2>2, <2>3 DEF Ordered
<1>9. CASE Break
  <2>1. PICK i \in 1 .. Len(input), byte \in {Other, Minus, BadHash} :
          input' = [input EXCEPT ![i] = byte] /\ output' = output
    BY <1>1, <1>9 DEF Break
  <2>2. byte \in Unit /\ ~Numbered(byte)
    BY Units, Numbers
  <2> QED
    BY <1>3, <1>6, <2>1, <2>2 DEF Ordered
<1>10. CASE Stray
  <2>1. PICK byte \in {Other, Newline} : Transmit(<<byte>>) /\ output' = output
    BY <1>10 DEF Stray
  <2>2. RequestsOrdered'
    BY <1>2, <2>1, SentByte DEF Ordered
  <2> QED
    BY <1>3, <2>1, <2>2 DEF Ordered
<1>11. CASE Impatience
  BY <1>2, <1>3, <1>11, ResendOrdered DEF Impatience, Ordered
<1> QED
  BY <1>7, <1>8, <1>9, <1>10, <1>11 DEF Faults

-----------------------------------------------------------------------------
(* What lies unread before the scanner.                                    *)

(* Unit by unit, with the end of the stream behind it.                     *)
LEMMA LineShape ==
  ASSUME NEW sent \in Seq(Unit), Unread(sent)
  PROVE  /\ Len(sent) \in Nat /\ input \in Seq(Unit) /\ Len(input) \in Nat
         /\ \A i \in 1 .. Len(sent) : input[i] = sent[i]
         /\ \/ waiting # "gone" /\ input = sent
            \/ /\ waiting = "gone" /\ input = Append(sent, EOF)
               /\ Len(input) = Len(sent) + 1
               /\ input[Len(sent) + 1] = EOF
<1>1. EOF \in Unit /\ Len(sent) \in Nat
  BY Units, LenProperties
<1>2. CASE waiting = "gone"
  <2>1. input = Append(sent, EOF)
    BY <1>2 DEF Unread
  <2> QED
    BY <1>1, <1>2, <2>1, AppendProperties
<1>3. CASE waiting # "gone"
  BY <1>1, <1>3 DEF Unread
<1> QED
  BY <1>2, <1>3

(* A unit put before others.                                               *)
LEMMA PlusBefore ==
  ASSUME NEW u \in Unit, NEW sent \in Seq(Unit)
  PROVE  /\ <<u>> \o sent \in Seq(Unit)
         /\ Len(<<u>> \o sent) = 1 + Len(sent) /\ Len(sent) \in Nat
         /\ (<<u>> \o sent)[1] = u
         /\ \A i \in 1 .. Len(sent) : (<<u>> \o sent)[i + 1] = sent[i]
<1> DEFINE all == <<u>> \o sent
<1>1. <<u>> \in Seq(Unit) /\ Len(<<u>>) = 1 /\ <<u>>[1] = u
  OBVIOUS
<1>2. /\ all \in Seq(Unit) /\ Len(all) = Len(<<u>>) + Len(sent) /\ Len(sent) \in Nat
      /\ \A i \in 1 .. Len(<<u>>) + Len(sent) :
           all[i] = IF i <= Len(<<u>>) THEN <<u>>[i] ELSE sent[i - Len(<<u>>)]
  BY <1>1, ConcatProperties, LenProperties
<1> HIDE DEF all
<1>3. \A i \in 1 .. Len(sent) : i + 1 \in 1 .. 1 + Len(sent) /\ ~(i + 1 <= 1) /\ (i + 1) - 1 = i
  BY <1>2
<1>4. 1 \in 1 .. 1 + Len(sent)
  BY <1>2
<1>5. /\ all \in Seq(Unit) /\ Len(all) = 1 + Len(sent) /\ Len(sent) \in Nat
      /\ all[1] = u /\ \A i \in 1 .. Len(sent) : all[i + 1] = sent[i]
  BY <1>1, <1>2, <1>3, <1>4
<1> QED
  BY <1>5 DEF all

(* The scanner takes the first unit.                                       *)
LEMMA UnreadTail ==
  ASSUME NEW u \in Unit, NEW sent \in Seq(Unit), Unread(<<u>> \o sent)
  PROVE  /\ input # <<>> /\ Head(input) = u
         /\ input' = Tail(input) /\ waiting' = waiting => Unread(sent)'
<1> DEFINE all == <<u>> \o sent
<1>2. /\ all \in Seq(Unit) /\ Len(all) = 1 + Len(sent) /\ Len(sent) \in Nat
      /\ all[1] = u /\ \A i \in 1 .. Len(sent) : all[i + 1] = sent[i]
  BY PlusBefore
<1> HIDE DEF all
<1>3. /\ input \in Seq(Unit) /\ Len(input) \in Nat
      /\ \A i \in 1 .. Len(all) : input[i] = all[i]
      /\ \/ waiting # "gone" /\ input = all
         \/ /\ waiting = "gone"
            /\ Len(input) = Len(all) + 1 /\ input[Len(all) + 1] = EOF
  BY <1>2, LineShape DEF all
<1>4. input # <<>> /\ Head(input) = u
  <2>1. Len(input) # 0 /\ input[1] = u
    BY <1>2, <1>3
  <2> QED
    BY <1>3, <2>1, EmptySeq
<1>5. /\ Tail(input) \in Seq(Unit) /\ Len(Tail(input)) = Len(input) - 1
      /\ \A i \in 1 .. Len(Tail(input)) : Tail(input)[i] = input[i + 1]
  BY <1>3, <1>4, HeadTailProperties
<1>6. CASE waiting # "gone"
  <2>1. Len(Tail(input)) = Len(sent) /\ \A i \in 1 .. Len(sent) : Tail(input)[i] = sent[i]
    <3>1. Len(Tail(input)) = Len(sent) /\ Len(all) = 1 + Len(sent)
      <4>1. Len(input) = Len(all)
        BY <1>3, <1>6
      <4>2. Len(Tail(input)) = Len(input) - 1 /\ Len(all) = 1 + Len(sent) /\ Len(sent) \in Nat
        BY <1>2, <1>5
      <4> QED
        BY <4>1, <4>2
    <3>2. ASSUME NEW i \in 1 .. Len(sent) PROVE Tail(input)[i] = sent[i]
      <4>1. i + 1 \in 1 .. Len(all) /\ i \in 1 .. Len(Tail(input))
        BY <1>2, <3>1
      <4> QED
        BY <1>2, <1>3, <1>5, <4>1
    <3> QED
      BY <3>1, <3>2
  <2>2. Tail(input) = sent
    BY <1>5, <2>1, SeqEqual
  <2> QED
    BY <1>4, <1>6, <2>2 DEF Unread
<1>7. CASE waiting = "gone"
  <2> DEFINE w == Append(sent, EOF)
  <2>1. /\ w \in Seq(Unit) /\ Len(w) = Len(sent) + 1 /\ w[Len(sent) + 1] = EOF
        /\ \A i \in 1 .. Len(sent) : w[i] = sent[i]
    BY Units, AppendProperties
  <2> HIDE DEF w
  <2>2. Len(Tail(input)) = Len(w)
    BY <1>2, <1>3, <1>5, <1>7, <2>1
  <2>3. ASSUME NEW i \in 1 .. Len(w) PROVE Tail(input)[i] = w[i]
    <3>1. CASE i <= Len(sent)
      <4>1. i \in 1 .. Len(sent) /\ i + 1 \in 1 .. Len(all) /\ i \in 1 .. Len(Tail(input))
        BY <1>2, <2>1, <2>2, <3>1
      <4> QED
        BY <1>2, <1>3, <1>5, <2>1, <4>1
    <3>2. CASE ~(i <= Len(sent))
      <4>1. i = Len(sent) + 1 /\ i + 1 = Len(all) + 1 /\ i \in 1 .. Len(Tail(input))
        BY <1>2, <2>1, <2>2, <3>2
      <4> QED
        BY <1>3, <1>5, <1>7, <2>1, <4>1
    <3> QED
      BY <3>1, <3>2
  <2>4. Tail(input) = w
    BY <1>5, <2>1, <2>2, <2>3, SeqEqual
  <2> QED
    BY <1>4, <1>7, <2>4 DEF Unread, w
<1> QED
  BY <1>6, <1>7

(* With nothing sent there is at most the end of the stream.               *)
LEMMA UnreadNothing ==
  ASSUME Unread(<<>>), input # <<>>
  PROVE  Head(input) = EOF
<1>1. input = Append(<<>>, EOF)
  BY DEF Unread
<1> QED
  BY <1>1

(* The debugger writes to the connection, or closes it.                    *)
LEMMA UnreadSent ==
  ASSUME waiting # "gone", waiting' # "gone", NEW sent \in Seq(Unit), Unread(sent),
         NEW units \in Seq(Unit), Transmit(units)
  PROVE  Unread(sent \o units)'
BY DEF Unread, Transmit

(* Closing the connection leaves unread what was sent.                     *)
LEMMA UnreadLeave ==
  ASSUME NEW sent \in Seq(Unit), Unread(sent), Leave
  PROVE  Unread(sent)'
<1>1. input = sent /\ input' = input \o <<EOF>> /\ waiting' = "gone"
  BY DEF Unread, Leave, Transmit
<1>2. Append(sent, EOF) = sent \o <<EOF>>
  BY Units, AppendIsConcat
<1> QED
  BY <1>1, <1>2 DEF Unread

(* The packets on an undisturbed line. *)
LEMMA FrameShape ==
  ASSUME NEW n \in 1 .. Requests, NEW frame \in {Packet(n), Damaged(n)}
  PROVE  /\ frame \in Seq(Unit) /\ Len(frame) \in {3, 5} /\ Len(frame) = Len(Packet(n))
         /\ frame[1] = Dollar /\ frame[Len(frame)] = Hash(n)
         /\ \A i \in 2 .. Len(frame) - 1 : ~Ends(frame[i])
         /\ \A i \in 1 .. Len(frame) : frame[i][1] = "body" => i = 2
         /\ \A i \in 1 .. Len(frame) : i # 2 => frame[i] = Packet(n)[i]
<1>1. /\ Packet(n) \in Seq(Unit) /\ Len(Packet(n)) \in {3, 5}
      /\ Packet(n)[1] = Dollar /\ Packet(n)[Len(Packet(n))] = Hash(n)
      /\ \A i \in 2 .. Len(Packet(n)) - 1 :
           i # 2 => Packet(n)[i] \in {Minus, Other}
      /\ Packet(n)[2] = Body(n)
  <2>1. CASE n \in Dashed
    <3>1. Packet(n) = <<Dollar, Body(n), Minus, Other, Hash(n)>> /\ Packet(n) \in Seq(Unit)
      BY <2>1, PacketUnits
    <3> QED
      BY <3>1
  <2>2. CASE n \notin Dashed
    <3>1. Packet(n) = <<Dollar, Body(n), Hash(n)>> /\ Packet(n) \in Seq(Unit)
      BY <2>2, PacketUnits
    <3> QED
      BY <3>1
  <2> QED
    BY <2>1, <2>2
<1>2. /\ Len(Damaged(n)) = Len(Packet(n)) /\ Damaged(n) \in Seq(Unit)
      /\ \A i \in 1 .. Len(Packet(n)) :
           Damaged(n)[i] = IF i = 2 THEN Body(0) ELSE Packet(n)[i]
  <2>1. 2 \in 1 .. Len(Packet(n)) /\ Body(0) \in Unit
    BY <1>1, Units, LinkAssumption
  <2> QED
    BY <1>1, <2>1, ExceptSeq DEF Damaged
<1>3. /\ Len(frame) = Len(Packet(n)) /\ frame \in Seq(Unit)
      /\ \A i \in 1 .. Len(Packet(n)) : i # 2 => frame[i] = Packet(n)[i]
      /\ frame[2] \in {Body(0), Body(n)}
  BY <1>1, <1>2
<1>4. /\ \A k : ~Ends(Body(k)) /\ ~Ends(Minus) /\ ~Ends(Other)
      /\ Dollar[1] # "body" /\ Hash(n)[1] # "body" /\ Minus[1] # "body" /\ Other[1] # "body"
  BY Kinds, Units DEF Ends
<1>5. ASSUME NEW i \in 2 .. Len(frame) - 1 PROVE ~Ends(frame[i])
  BY <1>1, <1>3, <1>4
<1>6. ASSUME NEW i \in 1 .. Len(frame), i # 2 PROVE frame[i][1] # "body"
  <2>1. frame[i] \in {Dollar, Minus, Other, Hash(n)}
    BY <1>1, <1>3, <1>6
  <2> QED
    BY <1>4, <2>1
<1>7. frame[1] = Dollar /\ frame[Len(frame)] = Hash(n)
  BY <1>1, <1>3
<1> QED
  BY <1>1, <1>3, <1>5, <1>6, <1>7

(* A packet is matched to its end, and nothing but the end of the stream   *)
(* is behind it.                                                           *)
LEMMA FrameScanned ==
  ASSUME NEW n \in 1 .. Requests, NEW frame \in {Packet(n), Damaged(n)}, Unread(frame)
  PROVE  /\ input # <<>> /\ Head(input) = Dollar
         /\ MatchEnd # 0 /\ input[MatchEnd] = Hash(n)
         /\ /\ input' = SubSeq(input, MatchEnd + 1, Len(input)) /\ waiting' = waiting
            => Unread(<<>>)'
<1> DEFINE len == Len(frame)
<1>1. /\ frame \in Seq(Unit) /\ len \in {3, 5} /\ frame[1] = Dollar /\ frame[len] = Hash(n)
      /\ \A i \in 2 .. len - 1 : ~Ends(frame[i])
  BY FrameShape
<1>2. /\ input \in Seq(Unit) /\ Len(input) \in Nat
      /\ \A i \in 1 .. len : input[i] = frame[i]
      /\ \/ waiting # "gone" /\ Len(input) = len
         \/ waiting = "gone" /\ Len(input) = len + 1 /\ input[len + 1] = EOF
  BY <1>1, LineShape
<1> HIDE DEF len
<1>3. input[1] = Dollar /\ input[len] = Hash(n) /\ Ends(Hash(n)) /\ len \in 2 .. Len(input)
      /\ \A i \in 2 .. len - 1 : ~Ends(input[i])
  <2>1. Ends(Hash(n))
    BY Units DEF Ends
  <2>2. 1 \in 1 .. len /\ len \in 1 .. len /\ len \in 2 .. Len(input)
        /\ 2 .. len - 1 \subseteq 1 .. len
    BY <1>1, <1>2
  <2>3. input[1] = Dollar /\ input[len] = Hash(n)
    BY <1>1, <1>2, <2>2
  <2>4. \A i \in 2 .. len - 1 : ~Ends(input[i])
    BY <1>1, <1>2, <2>2
  <2> QED
    BY <2>1, <2>2, <2>3, <2>4
<1>4. MatchEnd = len
  <2>1. MatchEnd \in 2 .. Len(input) /\ Ends(input[MatchEnd])
        /\ \A i \in 2 .. MatchEnd - 1 : ~Ends(input[i])
    BY <1>2, <1>3, MatchEnds
  <2>2. ~(MatchEnd < len)
    BY <1>2, <1>3, <2>1
  <2>3. ~(len < MatchEnd)
    BY <1>2, <1>3, <2>1
  <2> QED
    BY <1>2, <1>3, <2>1, <2>2, <2>3
<1>5. input # <<>> /\ Head(input) = Dollar
  <2>1. Len(input) # 0
    BY <1>2, <1>3
  <2> QED
    BY <1>2, <1>3, <2>1, EmptySeq
<1> DEFINE rest == SubSeq(input, len + 1, Len(input))
<1>6. SUFFICES rest = IF waiting = "gone" THEN Append(<<>>, EOF) ELSE <<>>
  <2>1. MatchEnd # 0 /\ input[MatchEnd] = Hash(n) /\ SubSeq(input, MatchEnd + 1, Len(input)) = rest
    BY <1>3, <1>4
  <2> HIDE DEF rest
  <2> QED
    BY <1>5, <1>6, <2>1 DEF Unread
<1>7. CASE waiting # "gone"
  <2>1. rest = <<>>
    BY <1>1, <1>2, <1>7, SubSeqEmpty
  <2> QED
    BY <1>7, <2>1
<1>8. CASE waiting = "gone"
  <2>1. /\ rest \in Seq(Unit) /\ Len(rest) = 1 /\ rest[1] = EOF
    <3>1. len + 1 \in Int /\ Len(input) \in Int
          /\ \A i \in len + 1 .. Len(input) : input[i] \in Unit
      BY <1>1, <1>2, ElementOfSeq
    <3>2. /\ rest \in Seq(Unit)
          /\ Len(rest) = IF len + 1 <= Len(input) THEN Len(input) - (len + 1) + 1 ELSE 0
          /\ \A i \in 1 .. Len(input) - (len + 1) + 1 : rest[i] = input[len + 1 + i - 1]
      BY <3>1, SubSeqProperties
    <3> HIDE DEF rest
    <3> QED
      BY <1>1, <1>2, <1>8, <3>2
  <2>2. <<EOF>> \in Seq(Unit) /\ Len(<<EOF>>) = 1 /\ <<EOF>>[1] = EOF /\ Append(<<>>, EOF) = <<EOF>>
    BY Units
  <2>3. rest = <<EOF>>
    <3> HIDE DEF rest
    <3> QED
      BY <2>1, <2>2, SeqEqual
  <2> QED
    BY <1>8, <2>2, <2>3
<1> QED
  BY <1>7, <1>8

-----------------------------------------------------------------------------
(* The course of a request on an undisturbed line.                         *)

Stage == Idle \/ Asking \/ Refused \/ Accepted \/ Answered \/ Reclaimed

stageVars == <<packet, asked, serving, output, waiting, input>>

(* The stage depends on these variables only.                              *)
LEMMA SameStage ==
  ASSUME Stage, UNCHANGED stageVars
  PROVE  Stage'
BY DEF Stage, stageVars, Idle, Asking, Refused, Accepted, Answered, Reclaimed, Waits, Unread

(* With nothing but the end of the stream before it, the scanner ends.     *)
LEMMA ScannerAtEnd ==
  ASSUME LinkTyped, errors = 0, serving = 0, Unread(<<>>), Scanner
  PROVE  errors' = 0 /\ waiting = "gone" /\ UNCHANGED stageVars
<1>1. Scanning => Head(input) = EOF /\ waiting = "gone"
  BY UnreadNothing DEF Scanning, Unread
<1>2. ScanEOF
  <2>1. EOF \notin {Plus, Minus, Dollar, Newline}
    BY Kinds
  <2> QED
    BY <1>1, <2>1 DEF Scanner, ScanPlus, ScanMinus, ScanPacket, ScanError, ScanNewline, Serve
<1>3. output \o <<>> = output
  BY ConcatEmptySeq DEF LinkTyped, LinkTypeOK
<1> QED
  BY <1>1, <1>2, <1>3 DEF ScanEOF, Flushed, stageVars, debuggerVars

(* Before a "+", a "-" or a packet it does what the rule says.             *)
LEMMA ScannerAtPlus ==
  ASSUME LinkTyped, errors = 0, serving = 0, NEW sent \in Seq(Unit),
         Unread(<<Plus>> \o sent), Scanner
  PROVE  /\ errors' = 0 /\ Unread(sent)'
         /\ UNCHANGED <<packet, asked, serving, output, waiting, scanner>>
<1>1. Head(input) = Plus /\ (input' = Tail(input) /\ waiting' = waiting => Unread(sent)')
  <2>1. Plus \in Unit
    BY Units
  <2> QED
    BY <2>1, UnreadTail
<1>2. ScanPlus
  <2>1. Plus \notin {EOF, Minus, Dollar, Newline}
    BY Kinds
  <2> QED
    BY <1>1, <2>1 DEF Scanner, ScanEOF, ScanMinus, ScanPacket, ScanError, ScanNewline, Serve
<1>3. output \o <<>> = output
  BY ConcatEmptySeq DEF LinkTyped, LinkTypeOK
<1> QED
  BY <1>1, <1>2, <1>3 DEF ScanPlus, Flushed, debuggerVars

(* It sends the last answer again.                                         *)
LEMMA ScannerAtMinus ==
  ASSUME LinkTyped, errors = 0, serving = 0, output = <<>>, packet # 0,
         Unread(<<Minus>>), Scanner
  PROVE  /\ errors' = 0 /\ Unread(<<>>)' /\ output' = <<Answer(packet)>>
         /\ UNCHANGED <<packet, asked, serving, waiting, scanner>>
<1>1. Head(input) = Minus /\ (input' = Tail(input) /\ waiting' = waiting => Unread(<<>>)')
  <2>1. Minus \in Unit /\ <<>> \in Seq(Unit) /\ <<Minus>> \o <<>> = <<Minus>>
    BY Units, SmallSequences, ConcatEmptySeq
  <2> QED
    BY <2>1, UnreadTail
<1>2. ScanMinus
  <2>1. Minus \notin {EOF, Plus, Dollar, Newline}
    BY Kinds
  <2> QED
    BY <1>1, <2>1 DEF Scanner, ScanEOF, ScanPlus, ScanPacket, ScanError, ScanNewline, Serve
<1>3. output' = <<>> \o <<>> \o <<Answer(packet)>>
  BY <1>2 DEF ScanMinus, Flushed
<1>4. <<>> \o <<>> \o <<Answer(packet)>> = <<Answer(packet)>>
  <2>1. Answer(packet) \in Message
    BY Messages DEF LinkTyped, LinkTypeOK
  <2> QED
    BY <2>1, ConcatEmptySeq, EmptySeq
<1> QED
  BY <1>1, <1>2, <1>3, <1>4 DEF ScanMinus, debuggerVars

(* It takes the request, or asks for it again.                             *)
LEMMA ScannerAtFrame ==
  ASSUME LinkTyped, errors = 0, serving = 0, output = <<>>, asked \in 1 .. Requests,
         NEW frame \in {Packet(asked), Damaged(asked)}, Unread(frame), Scanner
  PROVE  /\ errors' = 0 /\ Unread(<<>>)'
         /\ \/ serving' = asked /\ output' = <<Plus>>
            \/ serving' = 0 /\ output' = <<Minus>>
         /\ UNCHANGED <<packet, asked, waiting, scanner>>
<1>1. /\ Head(input) = Dollar /\ MatchEnd # 0 /\ input[MatchEnd] = Hash(asked)
      /\ /\ input' = SubSeq(input, MatchEnd + 1, Len(input)) /\ waiting' = waiting
         => Unread(<<>>)'
  BY FrameScanned
<1>2. IsHash(input[MatchEnd]) /\ input[MatchEnd][2] = asked
  BY <1>1, Units
<1>3. ScanPacket
  <2>1. Dollar \notin {EOF, Plus, Minus, Newline}
    BY Kinds
  <2> QED
    BY <1>1, <1>2, <2>1 DEF Scanner, ScanEOF, ScanPlus, ScanMinus, ScanError, ScanNewline, Serve
<1>4. \/ serving' = asked /\ output' = <<>> \o <<>> \o <<Plus>>
      \/ serving' = 0 /\ output' = <<>> \o <<>> \o <<Minus>>
  BY <1>2, <1>3 DEF ScanPacket, Flushed
<1>5. \A m \in Message : <<>> \o <<>> \o <<m>> = <<m>>
  BY ConcatEmptySeq, EmptySeq
<1> QED
  BY <1>1, <1>3, <1>4, <1>5, Messages DEF ScanPacket, debuggerVars

Course == errors = 0 /\ (scanner = "returned" => waiting = "gone") /\ Stage

(* What the stages put together.                                           *)
LEMMA StageSequences ==
  ASSUME LinkTyped
  PROVE  /\ <<>> \in Seq(Unit) /\ <<Plus>> \in Seq(Unit) /\ <<Minus>> \in Seq(Unit)
         /\ Plus \in Unit /\ Minus \in Unit /\ <<Plus>> \o <<>> = <<Plus>>
         /\ asked \in 0 .. Requests /\ packet \in 0 .. Requests /\ serving \in 0 .. Requests
         /\ 0 .. Requests \subseteq Nat
         /\ Asking \/ Refused \/ Accepted => asked \in 1 .. Requests
BY SmallSequences, Units, LinkAssumption, ConcatEmptySeq
   DEF LinkTyped, LinkTypeOK, Asking, Refused, Accepted

(* An answer behind what was sent before,                                  *)
LEMMA AnswerBehind ==
  ASSUME NEW l \in Message, NEW m \in Message
  PROVE  Append(<<l>>, m) = <<l, m>> /\ Append(<<>>, m) = <<m>>
<1>1. <<l>> \in Seq(Message) /\ Len(<<l>>) = 1 /\ <<l>>[1] = l
  OBVIOUS
<1>2. <<l, m>> \in Seq(Message) /\ Len(<<l, m>>) = 2 /\ <<l, m>>[1] = l /\ <<l, m>>[2] = m
  OBVIOUS
<1> DEFINE one == <<l>>
<1> DEFINE two == <<l, m>>
<1> HIDE DEF one, two
<1>3. Append(one, m) = two
  <2>1. /\ Append(one, m) \in Seq(Message) /\ Len(Append(one, m)) = 2
        /\ Append(one, m)[1] = l /\ Append(one, m)[2] = m
    BY <1>1, AppendProperties DEF one
  <2>2. two \in Seq(Message) /\ Len(two) = 2 /\ two[1] = l /\ two[2] = m
    BY <1>2 DEF two
  <2>3. \A i \in 1 .. 2 : i = 1 \/ i = 2
    OBVIOUS
  <2> QED
    BY <2>1, <2>2, <2>3, SeqEqual
<1>4. Append(<<>>, m) = <<m>>
  OBVIOUS
<1> QED
  BY <1>3, <1>4 DEF one, two

(* left alone when that has been read,                                     *)
LEMMA AnswerAlone ==
  ASSUME NEW l \in Message, NEW m \in Message
  PROVE  Tail(<<l, m>>) = <<m>>
<1> DEFINE two == <<l, m>>
<1>1. two \in Seq(Message) /\ Len(two) = 2 /\ two[2] = m /\ two # <<>>
  OBVIOUS
<1> HIDE DEF two
<1>2. Tail(two) \in Seq(Message) /\ Len(Tail(two)) = 1 /\ Tail(two)[1] = m
  <2>1. /\ Tail(two) \in Seq(Message) /\ Len(Tail(two)) = 2 - 1
        /\ \A i \in 1 .. Len(Tail(two)) : Tail(two)[i] = two[i + 1]
    BY <1>1, HeadTailProperties
  <2>2. 1 \in 1 .. Len(Tail(two)) /\ 1 + 1 = 2
    BY <2>1, SMTT(60)
  <2> QED
    BY <1>1, <2>1, <2>2
<1>3. <<m>> \in Seq(Message) /\ Len(<<m>>) = 1 /\ <<m>>[1] = m
  OBVIOUS
<1>4. \A i \in 1 .. 1 : i = 1
  OBVIOUS
<1>5. Tail(two) = <<m>>
  BY <1>2, <1>3, <1>4, SeqEqual
<1> QED
  BY <1>5 DEF two

(* and damaged.                                                            *)
LEMMA AnswerStruck ==
  ASSUME NEW l \in Message, NEW m \in Message, NEW n \in Message
  PROVE  /\ [<<l, m>> EXCEPT ![2] = n] = <<l, n>>
         /\ \A i \in DOMAIN <<m>> : [<<m>> EXCEPT ![i] = n] = <<n>>
OBVIOUS

(* The scanner moves a request on by one stage.                            *)
LEMMA ScannerStage ==
  ASSUME LinkTyped, Course, Scanner
  PROVE  Course'
<1>1. /\ errors = 0
      /\ scanner = "returned" => waiting = "gone"
      /\ <<>> \in Seq(Unit) /\ <<Plus>> \o <<>> = <<Plus>>
      /\ asked \in 0 .. Requests /\ packet \in 0 .. Requests
  BY StageSequences DEF Course
<1>2. ASSUME serving = 0, Unread(<<>>)
      PROVE  Course'
  <2>1. errors' = 0 /\ waiting = "gone" /\ UNCHANGED stageVars
    BY <1>1, <1>2, ScannerAtEnd
  <2>2. Stage'
    BY <2>1, SameStage DEF Course
  <2> QED
    BY <2>1, <2>2 DEF Course, stageVars
<1>3. CASE Idle
  <2>1. CASE Unread(<<Plus>>)
    <3>1. /\ errors' = 0 /\ Unread(<<>>)'
          /\ UNCHANGED <<packet, asked, serving, output, waiting, scanner>>
      <4>1. Unread(<<Plus>> \o <<>>)
        BY <1>1, <2>1
      <4>2. errors = 0 /\ serving = 0 /\ <<>> \in Seq(Unit)
        BY <1>1, <1>3 DEF Idle
      <4> QED
        BY <4>1, <4>2, ScannerAtPlus
    <3>2. Idle'
      BY <1>3, <3>1 DEF Idle, Waits
    <3> QED
      BY <1>1, <3>1, <3>2 DEF Course, Stage
  <2> QED
    BY <1>2, <1>3, <2>1 DEF Idle
<1>4. CASE Asking
  <2>1. PICK frame \in {Packet(asked), Damaged(asked)} :
          Unread(frame) \/ Unread(<<Plus>> \o frame)
    BY <1>4 DEF Asking
  <2>2. asked \in 1 .. Requests /\ frame \in Seq(Unit)
    BY <1>4, StageSequences, FrameShape
  <2>3. CASE Unread(<<Plus>> \o frame)
    <3>1. /\ errors' = 0 /\ Unread(frame)'
          /\ UNCHANGED <<packet, asked, serving, output, waiting, scanner>>
      <4>1. errors = 0 /\ serving = 0
        BY <1>1, <1>4 DEF Asking
      <4> QED
        BY <2>2, <2>3, <4>1, ScannerAtPlus
    <3>2. Asking'
      BY <1>4, <2>1, <3>1 DEF Asking, Waits, Damaged
    <3> QED
      BY <1>1, <3>1, <3>2 DEF Course, Stage
  <2>4. CASE Unread(frame)
    <3>1. /\ errors' = 0 /\ Unread(<<>>)'
          /\ \/ serving' = asked /\ output' = <<Plus>>
             \/ serving' = 0 /\ output' = <<Minus>>
          /\ UNCHANGED <<packet, asked, waiting, scanner>>
      <4>1. errors = 0 /\ serving = 0 /\ output = <<>>
        BY <1>1, <1>4 DEF Asking
      <4> QED
        BY <2>1, <2>2, <2>4, <4>1, ScannerAtFrame
    <3>2. Accepted' \/ Refused'
      BY <1>4, <3>1 DEF Asking, Accepted, Refused, Waits
    <3> QED
      BY <1>1, <3>1, <3>2 DEF Course, Stage
  <2> QED
    BY <2>1, <2>3, <2>4
<1>5. CASE Refused
  BY <1>2, <1>5 DEF Refused
<1>6. CASE Accepted
  <2>1. serving = asked /\ serving # 0
    BY <1>6, StageSequences DEF Accepted
  <2>2. Serve
    BY <2>1 DEF Scanner, ScanPlus, ScanMinus, ScanPacket, ScanError, ScanNewline, ScanEOF,
                Scanning
  <2>3. /\ errors' = errors /\ packet' = asked /\ serving' = 0
        /\ output' = Append(output, Answer(asked))
        /\ UNCHANGED <<input, scanner, asked, waiting>>
    BY <2>1, <2>2 DEF Serve, debuggerVars
  <2>4. Append(<<Plus>>, Answer(asked)) = <<Plus, Answer(asked)>>
        /\ Append(<<>>, Answer(asked)) = <<Answer(asked)>>
    <3>1. Plus \in Message /\ Answer(asked) \in Message
      BY <1>1, Messages
    <3> QED
      BY <3>1, AnswerBehind
  <2>5. Unread(<<>>)'
    BY <1>6, <2>3 DEF Accepted, Unread
  <2>6. Answered'
    BY <1>6, <2>1, <2>3, <2>4, <2>5 DEF Accepted, Answered, Waits
  <2> QED
    BY <1>1, <2>3, <2>6 DEF Course, Stage
<1>7. CASE Answered
  BY <1>2, <1>7 DEF Answered
<1>8. CASE Reclaimed
  <2>1. /\ errors' = 0 /\ Unread(<<>>)' /\ output' = <<Answer(packet)>>
        /\ UNCHANGED <<packet, asked, serving, waiting, scanner>>
    <3>1. errors = 0 /\ serving = 0 /\ output = <<>> /\ Unread(<<Minus>>) /\ packet # 0
      BY <1>1, <1>8 DEF Reclaimed
    <3> QED
      BY <3>1, ScannerAtMinus
  <2>2. Answered'
    BY <1>8, <2>1 DEF Reclaimed, Answered, Waits
  <2> QED
    BY <1>1, <2>1, <2>2 DEF Course, Stage
<1> QED
  BY <1>3, <1>4, <1>5, <1>6, <1>7, <1>8 DEF Course, Stage

(* While the scanner has something to read, the debugger is patient.       *)
LEMMA Patient ==
  ASSUME LinkTyped, Course
  PROVE  ~Timeout
<1>1. SUFFICES ASSUME Timeout PROVE FALSE
  OBVIOUS
<1>2. /\ output = <<>> /\ serving = 0 /\ waiting \in {"ack", "answer"}
      /\ Scanning => Head(input) = Dollar /\ MatchEnd = 0
  BY <1>1 DEF Timeout, Quiet, ScannerWaits, Resend
<1>3. asked \in 1 .. Requests
  BY <1>2, LenProperties, LinkAssumption DEF LinkTyped, LinkTypeOK, Counted
<1>4. /\ <<Minus>> # <<>> /\ \A m : <<m>> # <<>> /\ \A l : <<l, m>> # <<>>
  OBVIOUS
<1>5. Asking \/ Reclaimed
  BY <1>2, <1>3, <1>4 DEF Course, Stage, Idle, Refused, Accepted, Answered, Waits
<1>6. input # <<>> => Scanning
  <2>1. scanner \in {"scanning", "returned"}
    BY DEF LinkTyped, LinkTypeOK
  <2> QED
    BY <1>2, <2>1 DEF Course, Scanning
<1>7. CASE Reclaimed
  <2>1. input # <<>> /\ Head(input) = Minus
    BY <1>7, StageSequences, UnreadTail, ConcatEmptySeq DEF Reclaimed
  <2> QED
    BY <1>2, <1>6, <2>1, Kinds
<1>8. CASE Asking
  <2>1. PICK frame \in {Packet(asked), Damaged(asked)} :
          Unread(frame) \/ Unread(<<Plus>> \o frame)
    BY <1>8 DEF Asking
  <2>2. CASE Unread(frame)
    BY <1>2, <1>3, <1>6, <2>2, FrameScanned
  <2>3. CASE Unread(<<Plus>> \o frame)
    <3>1. input # <<>> /\ Head(input) = Plus
      BY <1>3, <2>3, StageSequences, FrameShape, UnreadTail
    <3> QED
      BY <1>2, <1>6, <3>1, Kinds
  <2> QED
    BY <2>1, <2>2, <2>3
<1> QED
  BY <1>5, <1>7, <1>8

(* The debugger asks, reads an acknowledgement, reads an answer.           *)
LEMMA DebuggerStage ==
  ASSUME LinkTyped, Course, Debugger
  PROVE  Course'
<1>1. /\ errors = 0
      /\ scanner = "returned" => waiting = "gone"
      /\ <<>> \in Seq(Unit) /\ <<Plus>> \in Seq(Unit) /\ <<Minus>> \in Seq(Unit)
      /\ asked \in 0 .. Requests /\ packet \in 0 .. Requests /\ 0 .. Requests \subseteq Nat
  BY StageSequences DEF Course
<1>2. UNCHANGED <<errors, packet, serving, scanner>>
  BY DEF Debugger, Ask, ReadAck, ReadAnswer, Timeout, scannerVars
<1>3. \A m : <<m>> # <<>> /\ \A l : <<l, m>> # <<>>
  OBVIOUS
<1>4. CASE Ask
  <2>1. /\ waiting = "nothing" /\ waiting' = "ack" /\ output' = output
        /\ asked' = asked + 1 /\ asked + 1 \in 1 .. Requests
        /\ Transmit(Packet(asked + 1))
    BY <1>1, <1>4, LinkAssumption DEF Ask
  <2>2. Idle
    BY <2>1 DEF Course, Stage, Asking, Refused, Accepted, Answered, Reclaimed, Waits
  <2>3. PICK frame : frame = Packet(asked + 1)
    OBVIOUS
  <2>4. frame \in Seq(Unit) /\ <<>> \o frame = frame
    BY <2>1, <2>3, PacketUnits, ConcatEmptySeq
  <2>5. Unread(frame)' \/ Unread(<<Plus>> \o frame)'
    <3>1. /\ waiting # "gone" /\ waiting' # "gone" /\ Transmit(frame)
          /\ Unread(<<>>) \/ Unread(<<Plus>>)
      BY <2>1, <2>2, <2>3 DEF Idle
    <3>2. Unread(<<>>) => Unread(<<>> \o frame)'
      BY <1>1, <2>4, <3>1, UnreadSent
    <3>3. Unread(<<Plus>>) => Unread(<<Plus>> \o frame)'
      BY <1>1, <2>4, <3>1, UnreadSent
    <3> QED
      BY <2>4, <3>1, <3>2, <3>3
  <2>6. Asking'
    BY <1>1, <1>2, <2>1, <2>2, <2>3, <2>5 DEF Idle, Asking, Waits
  <2> QED
    BY <1>1, <1>2, <2>1, <2>6 DEF Course, Stage
<1>5. CASE ReadAck
  <2>1. /\ waiting = "ack" /\ output # <<>> /\ output' = Tail(output) /\ asked' = asked
        /\ waiting' = IF Head(output) = Plus THEN "answer" ELSE "ack"
        /\ Transmit(IF Head(output) = Minus THEN Packet(asked) ELSE <<>>)
    BY <1>5 DEF ReadAck
  <2>2. \/ Refused
        \/ Accepted /\ output = <<Plus>>
        \/ Answered /\ \E n \in {0, asked} : output = <<Plus, Answer(n)>>
    BY <2>1 DEF Course, Stage, Idle, Asking, Refused, Accepted, Answered, Reclaimed, Waits
  <2>3. /\ Head(<<Minus>>) = Minus /\ Tail(<<Minus>>) = <<>>
        /\ Head(<<Plus>>) = Plus /\ Tail(<<Plus>>) = <<>>
        /\ \A n : Head(<<Plus, Answer(n)>>) = Plus
    OBVIOUS
  <2>4. ASSUME NEW n \in {0, asked} PROVE Tail(<<Plus, Answer(n)>>) = <<Answer(n)>>
    <3>1. n \in 0 .. Requests
      BY <1>1, LinkAssumption
    <3>2. Plus \in Message /\ Answer(n) \in Message
      BY <3>1, Messages
    <3> QED
      BY <3>2, AnswerAlone
  <2>5. Unread(<<>>)
    BY <2>2 DEF Refused, Accepted, Answered
  <2>6. CASE Refused
    <3>1. /\ waiting' = "ack" /\ output' = <<>> /\ Transmit(Packet(asked))
          /\ packet < asked /\ serving = 0
      BY <2>1, <2>3, <2>6, Kinds DEF Refused
    <3>2. asked \in 1 .. Requests
      BY <2>6, StageSequences
    <3>3. PICK frame : frame = Packet(asked)
      OBVIOUS
    <3>4. frame \in Seq(Unit) /\ <<>> \o frame = frame
      BY <3>2, <3>3, PacketUnits, ConcatEmptySeq
    <3>5. Unread(<<>> \o frame)'
      BY <1>1, <2>1, <2>5, <3>1, <3>3, <3>4, UnreadSent
    <3>6. Asking'
      BY <1>2, <2>1, <3>1, <3>3, <3>4, <3>5 DEF Asking, Waits
    <3> QED
      BY <1>1, <1>2, <2>1, <3>6 DEF Course, Stage
  <2>7. Head(output) = Plus => waiting' = "answer" /\ Unread(<<>>)'
    <3>1. ASSUME Head(output) = Plus PROVE Transmit(<<>>) /\ waiting' = "answer"
      BY <2>1, <3>1, Kinds
    <3>2. <<>> \o <<>> = <<>>
      OBVIOUS
    <3> QED
      BY <1>1, <2>1, <2>5, <3>1, <3>2, UnreadSent
  <2>8. CASE Accepted /\ output = <<Plus>>
    <3>1. Accepted'
      BY <1>2, <2>1, <2>3, <2>7, <2>8 DEF Accepted, Waits
    <3> QED
      BY <1>1, <1>2, <2>1, <3>1 DEF Course, Stage
  <2>9. CASE Answered /\ \E n \in {0, asked} : output = <<Plus, Answer(n)>>
    <3>1. PICK n \in {0, asked} : output = <<Plus, Answer(n)>>
      BY <2>9
    <3>2. /\ Head(output) = Plus /\ Tail(output) = <<Answer(n)>>
          /\ packet = asked /\ asked # 0 /\ serving = 0
      BY <2>3, <2>4, <2>9, <3>1 DEF Answered
    <3>3. Answered'
      BY <1>2, <2>1, <2>7, <3>1, <3>2 DEF Answered, Waits
    <3> QED
      BY <1>1, <1>2, <2>1, <3>3 DEF Course, Stage
  <2> QED
    BY <2>2, <2>6, <2>8, <2>9
<1>6. CASE ReadAnswer
  <2>1. /\ waiting = "answer" /\ output # <<>> /\ output' = Tail(output) /\ asked' = asked
        /\ IF IsAnswer(Head(output)) /\ Head(output) # Answer(0)
           THEN waiting' = "nothing" /\ Transmit(<<Plus>>)
           ELSE /\ waiting' = waiting
                /\ Transmit(IF IsAnswer(Head(output)) THEN <<Minus>> ELSE <<>>)
    BY <1>6 DEF ReadAnswer
  <2>2. Answered /\ \E n \in {0, asked} : output = <<Answer(n)>>
    BY <1>3, <2>1 DEF Course, Stage, Idle, Asking, Refused, Accepted, Answered, Reclaimed, Waits
  <2>3. PICK n \in {0, asked} : output = <<Answer(n)>>
    BY <2>2
  <2>4. /\ Head(output) = Answer(n) /\ Tail(output) = <<>> /\ IsAnswer(Answer(n))
        /\ packet = asked /\ asked # 0 /\ serving = 0 /\ Unread(<<>>)
    BY <2>2, <2>3, Messages DEF Answered
  <2>5. <<>> \o <<Plus>> = <<Plus>> /\ <<>> \o <<Minus>> = <<Minus>>
    BY <1>1, ConcatEmptySeq
  <2>6. CASE n = asked
    <3>1. Answer(n) # Answer(0)
      BY <2>4, <2>6, Kinds
    <3>2. waiting' = "nothing" /\ Transmit(<<Plus>>)
      BY <2>1, <2>4, <3>1
    <3>3. Unread(<<>> \o <<Plus>>)'
      BY <1>1, <2>1, <2>4, <3>2, UnreadSent
    <3>4. Idle'
      BY <1>2, <2>1, <2>4, <2>5, <3>2, <3>3 DEF Idle, Waits
    <3> QED
      BY <1>1, <1>2, <2>1, <3>4 DEF Course, Stage
  <2>7. CASE n = 0
    <3>1. waiting' = "answer" /\ Transmit(<<Minus>>)
      BY <2>1, <2>4, <2>7
    <3>2. Unread(<<>> \o <<Minus>>)'
      BY <1>1, <2>1, <2>4, <3>1, UnreadSent
    <3>3. Reclaimed'
      BY <1>2, <2>1, <2>4, <2>5, <3>1, <3>2 DEF Reclaimed, Waits
    <3> QED
      BY <1>1, <1>2, <2>1, <3>3 DEF Course, Stage
  <2> QED
    BY <2>6, <2>7
<1> QED
  BY <1>4, <1>5, <1>6, Patient DEF Debugger

(* A debugger that leaves puts the end of the stream behind all it sent.   *)
LEMMA LeaveStage ==
  ASSUME LinkTyped, Course, Leave
  PROVE  Course'
<1>1. /\ waiting' = "gone" /\ errors = 0 /\ Stage
      /\ UNCHANGED <<errors, packet, serving, scanner, output, asked>>
  BY DEF Course, Leave, scannerVars
<1>2. <<>> \in Seq(Unit) /\ <<Plus>> \in Seq(Unit) /\ <<Minus>> \in Seq(Unit)
  BY StageSequences
<1>3. \A sent \in Seq(Unit) : Unread(sent) => Unread(sent)'
  BY UnreadLeave
<1>4. CASE Idle
  <2>1. Unread(<<>>)' \/ Unread(<<Plus>>)'
    BY <1>2, <1>3, <1>4 DEF Idle
  <2>2. Idle'
    BY <1>1, <1>4, <2>1 DEF Idle, Waits
  <2> QED
    BY <1>1, <2>2 DEF Course, Stage
<1>5. CASE Asking
  <2>1. PICK frame \in {Packet(asked), Damaged(asked)} :
          Unread(frame) \/ Unread(<<Plus>> \o frame)
    BY <1>5 DEF Asking
  <2>2. frame \in Seq(Unit) /\ <<Plus>> \o frame \in Seq(Unit)
    <3>1. asked \in 1 .. Requests
      BY <1>5, StageSequences
    <3> QED
      BY <1>2, <2>1, <3>1, FrameShape, ConcatProperties
  <2>3. Unread(frame)' \/ Unread(<<Plus>> \o frame)'
    BY <1>3, <2>1, <2>2
  <2>4. frame \in {Packet(asked), Damaged(asked)}'
    BY <1>1, <2>1 DEF Damaged
  <2>5. Asking'
    BY <1>1, <1>5, <2>3, <2>4 DEF Asking, Waits
  <2> QED
    BY <1>1, <2>5 DEF Course, Stage
<1>6. CASE Refused
  <2>1. Unread(<<>>)'
    BY <1>2, <1>3, <1>6 DEF Refused
  <2>2. Refused'
    BY <1>1, <1>6, <2>1 DEF Refused, Waits
  <2> QED
    BY <1>1, <2>2 DEF Course, Stage
<1>7. CASE Accepted
  <2>1. Unread(<<>>)'
    BY <1>2, <1>3, <1>7 DEF Accepted
  <2>2. Accepted'
    BY <1>1, <1>7, <2>1 DEF Accepted, Waits
  <2> QED
    BY <1>1, <2>2 DEF Course, Stage
<1>8. CASE Answered
  <2>1. Unread(<<>>)'
    BY <1>2, <1>3, <1>8 DEF Answered
  <2>2. Answered'
    BY <1>1, <1>8, <2>1 DEF Answered, Waits
  <2> QED
    BY <1>1, <2>2 DEF Course, Stage
<1>9. CASE Reclaimed
  <2>1. Unread(<<Minus>>)'
    BY <1>2, <1>3, <1>9 DEF Reclaimed
  <2>2. Reclaimed'
    BY <1>1, <1>9, <2>1 DEF Reclaimed, Waits
  <2> QED
    BY <1>1, <2>2 DEF Course, Stage
<1> QED
  BY <1>1, <1>4, <1>5, <1>6, <1>7, <1>8, <1>9 DEF Stage

(* A body that is damaged on its way to the scanner.                       *)
LEMMA UnreadDamaged ==
  ASSUME NEW sent \in Seq(Unit), Unread(sent), NEW i \in 1 .. Len(sent),
         input' = [input EXCEPT ![i] = Body(0)], waiting' = waiting
  PROVE  Unread([sent EXCEPT ![i] = Body(0)])'
<1> DEFINE hit == [sent EXCEPT ![i] = Body(0)]
<1>1. Body(0) \in Unit /\ EOF \in Unit
  BY Units, LinkAssumption
<1>2. /\ hit \in Seq(Unit) /\ Len(hit) = Len(sent) /\ Len(sent) \in Nat
      /\ \A j \in 1 .. Len(sent) : hit[j] = IF j = i THEN Body(0) ELSE sent[j]
  BY <1>1, ExceptSeq, LenProperties
<1>3. CASE waiting # "gone"
  BY <1>3 DEF Unread
<1>4. CASE waiting = "gone"
  <2> DEFINE all == Append(sent, EOF)
  <2> DEFINE struck == [all EXCEPT ![i] = Body(0)]
  <2> DEFINE struckAll == Append(hit, EOF)
  <2> HIDE DEF hit
  <2>1. /\ all \in Seq(Unit) /\ Len(all) = Len(sent) + 1 /\ all[Len(sent) + 1] = EOF
        /\ \A j \in 1 .. Len(sent) : all[j] = sent[j]
    BY <1>1, AppendProperties
  <2>2. /\ struckAll \in Seq(Unit) /\ Len(struckAll) = Len(hit) + 1
        /\ struckAll[Len(hit) + 1] = EOF
        /\ \A j \in 1 .. Len(hit) : struckAll[j] = hit[j]
    BY <1>1, <1>2, AppendProperties
  <2> HIDE DEF all, struckAll
  <2>3. /\ struck \in Seq(Unit) /\ Len(struck) = Len(all)
        /\ \A j \in 1 .. Len(all) : struck[j] = IF j = i THEN Body(0) ELSE all[j]
    <3>1. i \in 1 .. Len(all)
      BY <1>2, <2>1
    <3> QED
      BY <1>1, <2>1, <3>1, ExceptSeq
  <2>4. ASSUME NEW j \in 1 .. Len(struck) PROVE struck[j] = struckAll[j]
    <3> HIDE DEF struck
    <3>1. j \in 1 .. Len(all) /\ Len(all) = Len(sent) + 1
      BY <2>1, <2>3
    <3>2. CASE j \in 1 .. Len(sent)
      <4>1. struck[j] = IF j = i THEN Body(0) ELSE sent[j]
        BY <2>1, <2>3, <3>1, <3>2
      <4>2. struckAll[j] = IF j = i THEN Body(0) ELSE sent[j]
        BY <1>2, <2>2, <3>2
      <4> QED
        BY <4>1, <4>2
    <3>3. CASE j = Len(sent) + 1
      <4>1. j # i
        BY <1>2, <3>3
      <4>2. struck[j] = EOF
        BY <2>1, <2>3, <3>1, <3>3, <4>1
      <4>3. struckAll[j] = EOF
        BY <1>2, <2>2, <3>3
      <4> QED
        BY <4>2, <4>3
    <3>4. j \in 1 .. Len(sent) \/ j = Len(sent) + 1
      <4>1. Len(sent) \in Nat
        BY <1>2
      <4> QED
        BY <3>1, <4>1
    <3> QED
      BY <3>2, <3>3, <3>4
  <2>5. struck = struckAll
    <3> HIDE DEF struck
    <3> QED
      BY <1>2, <2>1, <2>2, <2>3, <2>4, SeqEqual
  <2>6. input' = struck
    BY <1>4 DEF Unread, all
  <2> HIDE DEF struck
  <2>7. input' = Append(hit, EOF)
    BY <2>5, <2>6 DEF struckAll
  <2> QED
    BY <1>4, <2>7 DEF Unread, hit
<1> QED
  BY <1>3, <1>4

(* A body is in what was sent, not at the end of the stream.               *)
LEMMA UnreadBody ==
  ASSUME NEW sent \in Seq(Unit), Unread(sent), NEW i \in DOMAIN input, input[i][1] = "body"
  PROVE  i \in 1 .. Len(sent) /\ input[i] = sent[i]
<1>1. /\ Len(sent) \in Nat /\ input \in Seq(Unit) /\ Len(input) \in Nat
      /\ \A k \in 1 .. Len(sent) : input[k] = sent[k]
      /\ \/ Len(input) = Len(sent)
         \/ Len(input) = Len(sent) + 1 /\ input[Len(sent) + 1] = EOF
  BY LineShape
<1>2. i \in 1 .. Len(input) /\ input[i] # EOF
  BY <1>1, LenProperties, Kinds
<1>3. i \in 1 .. Len(sent)
  BY <1>1, <1>2
<1> QED
  BY <1>1, <1>3

(* A packet is damaged in its body, behind a "+" or not.                   *)
LEMMA DamagedFrame ==
  ASSUME NEW n \in 1 .. Requests, NEW frame \in {Packet(n), Damaged(n)}, frame[2] # Body(0)
  PROVE  /\ [frame EXCEPT ![2] = Body(0)] = Damaged(n)
         /\ [<<Plus>> \o frame EXCEPT ![3] = Body(0)] = <<Plus>> \o Damaged(n)
<1>1. /\ Packet(n) \in Seq(Unit) /\ Len(Packet(n)) \in Nat /\ 2 \in 1 .. Len(Packet(n))
      /\ Body(0) \in Unit /\ Plus \in Unit
  <2>1. Packet(n) \in Seq(Unit) /\ Len(Packet(n)) \in {3, 5}
    BY FrameShape
  <2> QED
    BY <2>1, Units, LinkAssumption
<1>2. /\ Damaged(n) \in Seq(Unit) /\ Len(Damaged(n)) = Len(Packet(n))
      /\ \A i \in 1 .. Len(Packet(n)) :
           Damaged(n)[i] = IF i = 2 THEN Body(0) ELSE Packet(n)[i]
  BY <1>1, ExceptSeq DEF Damaged
<1>3. frame = Packet(n)
  BY <1>1, <1>2
<1> DEFINE first == <<Plus>>
<1>4. first \in Seq(Unit) /\ Len(first) = 1 /\ first[1] = Plus
  BY <1>1
<1> DEFINE whole == first \o Packet(n)
<1> DEFINE struck == [whole EXCEPT ![3] = Body(0)]
<1> DEFINE joined == first \o Damaged(n)
<1> HIDE DEF first
<1>5. /\ whole \in Seq(Unit) /\ Len(whole) = 1 + Len(Packet(n))
      /\ \A i \in 1 .. 1 + Len(Packet(n)) :
           whole[i] = IF i <= 1 THEN first[i] ELSE Packet(n)[i - 1]
  <2>1. /\ whole \in Seq(Unit) /\ Len(whole) = Len(first) + Len(Packet(n))
        /\ \A i \in 1 .. Len(first) + Len(Packet(n)) :
             whole[i] = IF i <= Len(first) THEN first[i] ELSE Packet(n)[i - Len(first)]
    BY <1>1, <1>2, <1>4, ConcatProperties
  <2> HIDE DEF whole
  <2> QED
    BY <1>2, <1>4, <2>1
<1>6. /\ joined \in Seq(Unit) /\ Len(joined) = 1 + Len(Packet(n))
      /\ \A i \in 1 .. 1 + Len(Packet(n)) :
           joined[i] = IF i <= 1 THEN first[i] ELSE Damaged(n)[i - 1]
  <2>1. /\ joined \in Seq(Unit) /\ Len(joined) = Len(first) + Len(Damaged(n))
        /\ \A i \in 1 .. Len(first) + Len(Damaged(n)) :
             joined[i] = IF i <= Len(first) THEN first[i] ELSE Damaged(n)[i - Len(first)]
    <3>1. Damaged(n) \in Seq(Unit)
      BY <1>2
    <3> QED
      BY <1>4, <3>1, ConcatProperties
  <2> HIDE DEF joined
  <2> QED
    BY <1>2, <1>4, <2>1
<1> HIDE DEF whole, joined
<1>7. /\ struck \in Seq(Unit) /\ Len(struck) = Len(whole)
      /\ \A i \in 1 .. Len(whole) : struck[i] = IF i = 3 THEN Body(0) ELSE whole[i]
  <2>1. 3 \in 1 .. Len(whole)
    BY <1>1, <1>5
  <2> QED
    BY <1>1, <1>5, <2>1, ExceptSeq
<1> HIDE DEF struck
<1>8. ASSUME NEW i \in 1 .. 1 + Len(Packet(n)) PROVE struck[i] = joined[i]
  <2>1. CASE i <= 1
    BY <1>5, <1>6, <1>7, <2>1
  <2>2. CASE ~(i <= 1)
    <3>1. i - 1 \in 1 .. Len(Packet(n)) /\ (i - 1 = 2 <=> i = 3)
      BY <1>1, <2>2
    <3>2. joined[i] = Damaged(n)[i - 1] /\ whole[i] = Packet(n)[i - 1]
      BY <1>5, <1>6, <2>2
    <3> QED
      BY <1>2, <1>5, <1>7, <3>1, <3>2
  <2> QED
    BY <2>1, <2>2
<1>9. struck = joined
  BY <1>5, <1>6, <1>7, <1>8, SeqEqual
<1> QED
  BY <1>3, <1>9 DEF struck, whole, joined, first, Damaged

(* A damaged packet is asked for again, a damaged answer reclaimed.        *)
LEMMA DamageStage ==
  ASSUME LinkTyped, Course, DamageBody
  PROVE  Course'
<1>1. /\ errors = 0
      /\ scanner = "returned" => waiting = "gone"
      /\ <<>> \in Seq(Unit) /\ <<Plus>> \in Seq(Unit) /\ <<Minus>> \in Seq(Unit)
      /\ asked \in 0 .. Requests
  BY StageSequences DEF Course
<1>2. UNCHANGED <<errors, packet, serving, scanner, asked, waiting>>
  BY DEF DamageBody, scannerVars, debuggerVars
<1>3. ASSUME NEW i \in DOMAIN input, input[i][1] = "body", input[i] # Body(0),
             input' = [input EXCEPT ![i] = Body(0)], output' = output
      PROVE  Course'
  <2>1. ~Unread(<<>>)
    <3>1. ASSUME Unread(<<>>) PROVE i \in 1 .. Len(<<>>)
      BY <1>1, <1>3, <3>1, UnreadBody
    <3> QED
      BY <3>1
  <2>2. \A u \in {Plus, Minus} : ~Unread(<<u>>)
    <3>1. SUFFICES ASSUME NEW u \in {Plus, Minus}, Unread(<<u>>) PROVE FALSE
      OBVIOUS
    <3>2. i \in 1 .. Len(<<u>>) /\ input[i] = <<u>>[i]
      BY <1>1, <1>3, <3>1, UnreadBody
    <3>3. input[i] = u
      BY <3>2
    <3> QED
      BY <1>3, <3>3, Kinds
  <2>3. Asking
    BY <2>1, <2>2 DEF Course, Stage, Idle, Refused, Accepted, Answered, Reclaimed
  <2>4. PICK frame \in {Packet(asked), Damaged(asked)} :
          Unread(frame) \/ Unread(<<Plus>> \o frame)
    BY <2>3 DEF Asking
  <2>5. PICK damaged : damaged = Damaged(asked)
    OBVIOUS
  <2>6. asked \in 1 .. Requests
    BY <2>3, StageSequences
  <2>7. /\ frame \in Seq(Unit) /\ Len(frame) \in Nat /\ frame[1] = Dollar
        /\ \A k \in 1 .. Len(frame) : frame[k][1] = "body" => k = 2
    BY <2>4, <2>6, FrameShape, LenProperties
  <2>8. Unread(damaged)' \/ Unread(<<Plus>> \o damaged)'
    <3>1. CASE Unread(frame)
      <4>1. i \in 1 .. Len(frame) /\ input[i] = frame[i]
        BY <1>3, <2>7, <3>1, UnreadBody
      <4>2. i = 2 /\ frame[2] # Body(0)
        BY <1>3, <2>7, <4>1
      <4>3. [frame EXCEPT ![2] = Body(0)] = damaged
        BY <2>4, <2>5, <2>6, <4>2, DamagedFrame
      <4>4. Unread([frame EXCEPT ![2] = Body(0)])'
        BY <1>2, <1>3, <2>7, <3>1, <4>1, <4>2, UnreadDamaged
      <4> QED
        BY <4>3, <4>4
    <3>2. CASE Unread(<<Plus>> \o frame)
      <4> DEFINE all == <<Plus>> \o frame
      <4>1. /\ all \in Seq(Unit) /\ Len(all) = 1 + Len(frame)
            /\ all[1] = Plus /\ \A k \in 1 .. Len(frame) : all[k + 1] = frame[k]
        BY <2>7, StageSequences, PlusBefore
      <4>2. i \in 1 .. Len(all) /\ input[i] = all[i]
        <5> HIDE DEF all
        <5>1. Unread(all)
          BY <3>2 DEF all
        <5> QED
          BY <1>3, <4>1, <5>1, UnreadBody
      <4>3. i = 3 /\ frame[2] # Body(0)
        <5> HIDE DEF all
        <5>1. i # 1
          BY <1>3, <4>1, <4>2, Kinds
        <5>2. i - 1 \in 1 .. Len(frame) /\ (i - 1) + 1 = i
          BY <2>7, <4>1, <4>2, <5>1
        <5>3. input[i] = frame[i - 1]
          BY <4>1, <4>2, <5>2
        <5>4. i - 1 = 2
          BY <1>3, <2>7, <5>2, <5>3
        <5> QED
          BY <1>3, <5>2, <5>3, <5>4
      <4>4. [all EXCEPT ![3] = Body(0)] = <<Plus>> \o damaged
        BY <2>4, <2>5, <2>6, <4>3, DamagedFrame
      <4>5. Unread([all EXCEPT ![3] = Body(0)])'
        <5> HIDE DEF all
        <5>1. Unread(all)
          BY <3>2 DEF all
        <5> QED
          BY <1>2, <1>3, <4>1, <4>2, <4>3, <5>1, UnreadDamaged
      <4> HIDE DEF all
      <4> QED
        BY <4>4, <4>5
    <3> QED
      BY <2>4, <3>1, <3>2
  <2>9. Asking'
    <3>1. damaged \in {Packet(asked), Damaged(asked)}'
      BY <1>2, <2>5 DEF Damaged
    <3> QED
      BY <1>2, <1>3, <2>3, <2>8, <3>1 DEF Asking, Waits
  <2> QED
    BY <1>1, <1>2, <2>9 DEF Course, Stage
<1>4. ASSUME NEW i \in DOMAIN output, IsAnswer(output[i]), output[i] # Answer(0),
             output' = [output EXCEPT ![i] = Answer(0)], input' = input
      PROVE  Course'
  <2>1. output # <<>>
    BY <1>4
  <2>2. \A m \in {Plus, Minus} : output # <<m>>
    <3>1. SUFFICES ASSUME NEW m \in {Plus, Minus}, output = <<m>> PROVE FALSE
      OBVIOUS
    <3>2. output[i] = m
      BY <1>4, <3>1
    <3> QED
      BY <1>4, <3>2, Messages
  <2>3. Answered
    BY <2>1, <2>2 DEF Course, Stage, Idle, Asking, Refused, Accepted, Reclaimed
  <2>4. PICK n \in {0, asked} : \/ output = <<Plus, Answer(n)>> /\ Waits("ack")
                                \/ output = <<Answer(n)>> /\ Waits("answer")
    BY <2>3 DEF Answered
  <2>5. n \in 0 .. Requests /\ 0 \in 0 .. Requests
    BY <1>1, LinkAssumption
  <2>6. Plus \in Message /\ Answer(n) \in Message /\ Answer(0) \in Message
    BY <2>5, Messages
  <2>7. CASE output = <<Plus, Answer(n)>> /\ Waits("ack")
    <3>1. i = 2
      <4>1. (i = 1 \/ i = 2) /\ (i = 1 => output[i] = Plus)
        BY <1>4, <2>7
      <4> QED
        BY <1>4, <4>1, Messages
    <3>2. output' = <<Plus, Answer(0)>>
      BY <1>4, <2>6, <2>7, <3>1, AnswerStruck
    <3> QED
      BY <1>1, <1>2, <1>4, <2>3, <2>7, <3>2 DEF Answered, Waits, Unread, Course, Stage
  <2>8. CASE output = <<Answer(n)>> /\ Waits("answer")
    <3>1. output' = <<Answer(0)>>
      BY <1>4, <2>6, <2>8, AnswerStruck
    <3> QED
      BY <1>1, <1>2, <1>4, <2>3, <2>8, <3>1 DEF Answered, Waits, Unread, Course, Stage
  <2> QED
    BY <2>4, <2>7, <2>8
<1> QED
  BY <1>3, <1>4 DEF DamageBody

-----------------------------------------------------------------------------
(* The promise is kept.                                                    *)

(* The link starts idle.                                                   *)
LEMMA InitLink == ASSUME LinkInit PROVE LinkInv
<1>1. LinkTyped
  BY InitTyped
<1>2. Ordered
  <2>1. /\ packet = 0 /\ serving = 0 /\ asked = 0 /\ input = <<>> /\ output = <<>>
        /\ executed = <<>> /\ taken = <<>>
    BY DEF LinkInit
  <2>2. \A s, from, to : s = <<>> => InOrder(s, from, to)
    BY NoOrder
  <2>3. RequestsOrdered
    BY <2>1, <2>2 DEF RequestsOrdered, Newest
  <2>4. AnswersOrdered
    BY <2>1, <2>2 DEF AnswersOrdered, Link!Latest
  <2> QED
    BY <2>3, <2>4 DEF Ordered
<1>3. Undisturbed
  BY DEF LinkInit, Undisturbed, Idle, Waits, Unread
<1> QED
  BY <1>1, <1>2, <1>3 DEF LinkInv

(* An undisturbed link is in one of the stages.                            *)
LEMMA UndisturbedCourse == LinkInv => (disturbances = 0 => Course)
BY DEF LinkInv, Undisturbed, Course, Stage

(* Nothing undoes a disturbance.                                           *)
LEMMA DisturbancesKept ==
  ASSUME LinkTyped, [LinkNext]_vars
  PROVE  /\ disturbances' = 0 => disturbances = 0
         /\ \/ disturbances' = disturbances
            \/ /\ disturbances' = disturbances + 1
               /\ UNCHANGED <<executed, asked, taken>>
<1>1. disturbances \in Nat
  BY LinkAssumption DEF LinkTyped, LinkTypeOK
<1>2. CASE Scanner
  BY <1>1, <1>2 DEF Scanner, ScanPlus, ScanMinus, ScanPacket, ScanError, ScanNewline, ScanEOF,
                    Serve, faultVars
<1>3. CASE Debugger
  BY <1>1, <1>3 DEF Debugger, Ask, ReadAck, ReadAnswer, Timeout, faultVars
<1>4. CASE Leave
  BY <1>1, <1>4 DEF Leave, faultVars
<1>5. CASE DamageBody
  BY <1>1, <1>5 DEF DamageBody
<1>6. CASE Lose \/ Break \/ Stray \/ Impatience
  <2>1. disturbances' = disturbances + 1 /\ UNCHANGED <<executed, asked, taken>>
    BY <1>6 DEF Lose, Break, Stray, Impatience, Disturbed, scannerVars, debuggerVars
  <2> QED
    BY <1>1, <2>1
<1>7. CASE UNCHANGED vars
  BY <1>1, <1>7 DEF vars, faultVars
<1> QED
  BY <1>2, <1>3, <1>4, <1>5, <1>6, <1>7 DEF LinkNext, Faults

(* The invariant is inductive.                                             *)
LEMMA LinkInvKept == ASSUME LinkInv, [LinkNext]_vars PROVE LinkInv'
<1>1. LinkTyped /\ Ordered /\ (disturbances = 0 => Course)
  BY UndisturbedCourse DEF LinkInv
<1>2. LinkTyped'
  BY <1>1, LinkTypedKept
<1>3. Ordered'
  <2>1. CASE UNCHANGED vars
    BY <1>1, <2>1 DEF vars, scannerVars, debuggerVars, Ordered, RequestsOrdered, AnswersOrdered,
                      Newest, Link!Latest
  <2> QED
    BY <1>1, <2>1, ScannerOrdered, DebuggerOrdered, FaultsOrdered DEF LinkNext
<1>4. Undisturbed'
  <2>1. SUFFICES ASSUME disturbances' = 0 PROVE Course'
    BY <2>1 DEF Undisturbed, Course, Stage
  <2>2. disturbances = 0 /\ Course
    BY <1>1, <2>1, DisturbancesKept
  <2>3. CASE Faults
    <3>1. DamageBody
      BY <2>1, <2>2, <2>3 DEF Faults, Lose, Break, Stray, Impatience, Disturbed
    <3> QED
      BY <1>1, <2>2, <3>1, DamageStage
  <2>4. CASE UNCHANGED vars
    <3>1. UNCHANGED stageVars /\ UNCHANGED <<errors, scanner>>
      BY <2>4 DEF vars, stageVars, scannerVars, debuggerVars
    <3>2. Stage'
      BY <2>2, <3>1, SameStage DEF Course
    <3> QED
      BY <2>2, <3>1, <3>2 DEF Course, stageVars
  <2> QED
    BY <1>1, <2>2, <2>3, <2>4, ScannerStage, DebuggerStage, LeaveStage DEF LinkNext
<1> QED
  BY <1>2, <1>3, <1>4 DEF LinkInv

(* A request is executed once it has been asked, none before an earlier    *)
(* one, and on an undisturbed line only the last and only once.            *)
LEMMA ServePromised ==
  ASSUME LinkInv, Serve
  PROVE  Link!Execute
<1>1. LinkTyped /\ Ordered /\ (disturbances = 0 => Course)
  BY UndisturbedCourse DEF LinkInv
<1>2. /\ serving # 0 /\ executed' = Append(executed, serving)
      /\ UNCHANGED <<asked, taken, disturbances>>
  BY DEF Serve, debuggerVars, faultVars
<1>3. serving \in 1 .. asked /\ Link!Latest(executed) <= serving
  <2>1. serving \in 0 .. Requests /\ asked \in 0 .. Requests /\ packet \in 0 .. Requests
    BY <1>1 DEF LinkTyped, LinkTypeOK
  <2>2. packet <= serving /\ serving <= asked /\ packet = Link!Latest(executed)
    BY <1>1, <1>2 DEF Ordered, RequestsOrdered, AnswersOrdered, Newest
  <2> QED
    BY <1>2, <2>1, <2>2, LinkAssumption
<1>4. disturbances = 0 => Link!Latest(executed) < serving /\ serving = asked
  <2>1. ASSUME disturbances = 0 PROVE Accepted
    BY <1>1, <1>2, <2>1 DEF Course, Stage, Idle, Asking, Refused, Answered, Reclaimed
  <2> QED
    BY <1>1, <2>1 DEF Accepted, Ordered, AnswersOrdered
<1> QED
  BY <1>2, <1>3, <1>4 DEF Link!Execute

(* An answer that is taken is one to a request that has been executed, not *)
(* before the last one taken, and on an undisturbed line the one waited    *)
(* for.                                                                    *)
LEMMA AnswerPromised ==
  ASSUME LinkInv, ReadAnswer
  PROVE  Link!Take \/ UNCHANGED Link!vars
<1>1. LinkTyped /\ Ordered /\ (disturbances = 0 => Course)
  BY UndisturbedCourse DEF LinkInv
<1>2. /\ waiting = "answer" /\ output # <<>>
      /\ UNCHANGED <<asked, executed, disturbances>>
      /\ IF IsAnswer(Head(output)) /\ Head(output) # Answer(0)
         THEN taken' = Append(taken, Head(output)[2])
         ELSE taken' = taken
  BY DEF ReadAnswer, scannerVars, faultVars
<1>3. CASE IsAnswer(Head(output)) /\ Head(output) # Answer(0)
  <2>1. Numbered(Head(output))
    BY <1>3 DEF Numbered
  <2>2. /\ Link!Latest(taken) <= Head(output)[2]
        /\ \E k \in 1 .. Len(executed) : executed[k] = Head(output)[2]
    BY <1>1, <1>2, <2>1, ReadOrdered DEF Ordered
  <2>3. PICK k \in 1 .. Len(executed) : executed[k] = Head(output)[2]
    BY <2>2
  <2>4. k \in DOMAIN executed
    BY <1>1, LenProperties DEF LinkTyped, LinkTypeOK
  <2>5. Len(taken) < asked
    <3>1. Len(taken) = asked - 1 /\ asked \in Nat
      BY <1>1, <1>2, LinkNumbers DEF LinkTyped, Counted
    <3> QED
      BY <3>1
  <2>6. ASSUME disturbances = 0 PROVE Head(output)[2] = asked
    <3>1. \A m : <<m>> # <<>> /\ \A l : <<l, m>> # <<>>
      OBVIOUS
    <3>2. Answered /\ \E n \in {0, asked} : output = <<Answer(n)>>
      BY <1>1, <1>2, <2>6, <3>1
         DEF Course, Stage, Idle, Asking, Refused, Accepted, Answered, Reclaimed, Waits
    <3>3. PICK n \in {0, asked} : output = <<Answer(n)>>
      BY <3>2
    <3>4. Head(output) = Answer(n)
      BY <3>3
    <3> QED
      BY <1>3, <3>4, Messages
  <2>7. taken' = Append(taken, executed[k])
    BY <1>2, <1>3, <2>3
  <2> QED
    BY <1>2, <2>2, <2>3, <2>4, <2>5, <2>6, <2>7 DEF Link!Take
<1>4. CASE ~(IsAnswer(Head(output)) /\ Head(output) # Answer(0))
  BY <1>2, <1>4 DEF Link!vars
<1> QED
  BY <1>3, <1>4

(* Every step of the link is one of RequestAnswer, or a stutter.           *)
LEMMA StepPromised ==
  ASSUME LinkInv, [LinkNext]_vars
  PROVE  [Link!Next]_(Link!vars)
<1>1. CASE Scanner
  <2>1. Serve \/ UNCHANGED Link!vars
    BY <1>1 DEF Scanner, ScanPlus, ScanMinus, ScanPacket, ScanError, ScanNewline, ScanEOF,
                debuggerVars, faultVars, scannerVars, Link!vars
  <2> QED
    BY <2>1, ServePromised DEF Link!Next
<1>2. CASE Ask
  <2>1. Len(taken) = asked
    BY <1>2 DEF LinkInv, LinkTyped, Counted, Ask
  <2>2. Link!Ask
    BY <1>2, <2>1 DEF Ask, scannerVars, faultVars, Link!Ask
  <2> QED
    BY <2>2 DEF Link!Next
<1>3. CASE ReadAnswer
  BY <1>3, AnswerPromised DEF Link!Next
<1>4. CASE ReadAck \/ Timeout \/ Leave \/ UNCHANGED vars
  BY <1>4 DEF ReadAck, Timeout, Leave, vars, scannerVars, debuggerVars, faultVars, Link!vars
<1>5. CASE Faults
  <2>1. \/ disturbances' = disturbances
        \/ disturbances' = disturbances + 1
    BY DisturbancesKept DEF LinkInv
  <2>2. UNCHANGED <<executed, asked, taken>>
    BY <1>5 DEF Faults, DamageBody, Lose, Break, Stray, Impatience, scannerVars, debuggerVars
  <2> QED
    BY <2>1, <2>2 DEF Link!Next, Link!Disturb, Link!vars
<1> QED
  BY <1>1, <1>2, <1>3, <1>4, <1>5 DEF LinkNext, Debugger

(* For any number of requests, of faults of either kind and of timeouts,   *)
(* and any size of the buffer of errors, the link keeps its promise        *)
(* (gdb_packet_analysis, gdb_transmit_packet, handle_error): damaged       *)
(* bodies alone neither repeat a request, nor skip or reorder one, nor     *)
(* give the debugger another answer than its own; worse faults reorder     *)
(* none and give no answer to a later request before one to an earlier.    *)
THEOREM LinkPromiseKept == LinkSpec => LinkKeepsPromise
<1>1. LinkInit => LinkInv /\ Link!Init
  BY InitLink DEF LinkInit, Link!Init
<1>2. LinkInv /\ [LinkNext]_vars => LinkInv' /\ [Link!Next]_(Link!vars)
  BY LinkInvKept, StepPromised
<1> QED
  BY <1>1, <1>2, PTL DEF LinkSpec, LinkKeepsPromise, Link!Spec

-----------------------------------------------------------------------------
(* What a line still costs: how many requests the units of a sequence can  *)
(* have executed or refused, from each state of the buffer of errors: with *)
(* an even or an odd number of characters kept, outside a packet; with an  *)
(* even number behind a "$"; with an odd number of them, of which the "$"  *)
(* is the first or not.  Two characters kept are one refusal, for a packet *)
(* broken in one place leaves at least two.                                *)
Costs ==
  {v \in [even : Int, odd : Int, open : Int, first : Int, more : Int] :
     /\ v.more + 1 >= 0 /\ v.first >= 0
     /\ v.more <= v.first /\ v.first <= v.odd /\ v.first <= v.open
     /\ v.odd <= v.even /\ v.even <= v.odd + 1
     /\ v.open <= v.even /\ v.even <= v.open + 1
     /\ v.open <= v.more + 1 /\ v.odd <= v.more + 1}

AtLeast(v, x) ==
  /\ v.even >= x.even /\ v.odd >= x.odd
  /\ v.open >= x.open /\ v.first >= x.first /\ v.more >= x.more

Same(n) == [even |-> n, odd |-> n, open |-> n, first |-> n, more |-> n]

Raised(v, n) == [even |-> v.even + n, odd |-> v.odd + n,
                 open |-> v.open + n, first |-> v.first + n, more |-> v.more + n]

(* The costs before a unit, from those behind it.                          *)
Before(u, v) ==
  CASE u = Dollar -> Same(v.first + 1)
    [] IsHash(u) -> [even |-> v.even + 1, odd |-> v.even,
                     open |-> v.even, first |-> v.even, more |-> v.even - 1]
    [] u = BadHash -> [even |-> v.odd + 1, odd |-> v.even,
                       open |-> v.odd + 1, first |-> v.even, more |-> v.even]
    [] u \in {Plus, Minus} -> [even |-> v.even, odd |-> v.even,
                               open |-> v.open, first |-> v.open, more |-> v.open]
    [] u = EOF -> Same(v.even)
    [] u = Newline -> [v EXCEPT !.more = IF v.more < 0 THEN 0 ELSE v.more]
    [] OTHER -> [even |-> v.odd + 1, odd |-> v.even,
                 open |-> v.more + 1, first |-> v.open, more |-> v.open]

(* A character is what is none of the others.                              *)
Character(u) == u = Other \/ \E n \in 0 .. Requests : u = Body(n)

(* The costs are numbers.                                                  *)
LEMMA CostNumbers ==
  ASSUME NEW v \in Costs
  PROVE  v.even \in Int /\ v.odd \in Int /\ v.open \in Int /\ v.first \in Int /\ v.more \in Int
BY DEF Costs

(* The cases one by one.                                                   *)
LEMMA BeforeKinds ==
  ASSUME NEW v \in Costs
  PROVE  /\ Before(Dollar, v) = Same(v.first + 1)
         /\ \A u : IsHash(u) =>
              Before(u, v) = [even |-> v.even + 1, odd |-> v.even,
                              open |-> v.even, first |-> v.even, more |-> v.even - 1]
         /\ Before(BadHash, v) = [even |-> v.odd + 1, odd |-> v.even,
                       open |-> v.odd + 1, first |-> v.even, more |-> v.even]
         /\ \A u \in {Plus, Minus} :
              Before(u, v) = [even |-> v.even, odd |-> v.even,
                               open |-> v.open, first |-> v.open, more |-> v.open]
         /\ Before(EOF, v) = Same(v.even)
         /\ Before(Newline, v) = [even |-> v.even, odd |-> v.odd, open |-> v.open,
                       first |-> v.first, more |-> IF v.more < 0 THEN 0 ELSE v.more]
         /\ \A u : Character(u) =>
              Before(u, v) = [even |-> v.odd + 1, odd |-> v.even,
                 open |-> v.more + 1, first |-> v.open, more |-> v.open]
<1>1. \A u : IsHash(u) => u \notin {Dollar, BadHash, Plus, Minus, Other, Newline, EOF}
  BY Units
<1>2. Newline \notin {Dollar, BadHash, Plus, Minus, EOF}
  BY Kinds, Units DEF Newline, BadHash
<1>3. \A u : Character(u) => ~IsHash(u) /\ u \notin {Dollar, BadHash, Plus, Minus, Newline, EOF}
  <2>1. Other \notin {Dollar, BadHash, Plus, Minus, Newline, EOF}
    BY Kinds DEF Newline, Other
  <2>2. \A n : Body(n) \notin {Dollar, BadHash, Plus, Minus, Newline, EOF}
    BY Kinds
  <2> QED
    BY <2>1, <2>2, Units DEF Character
<1>4. Before(Dollar, v) = Same(v.first + 1)
  BY Units, Kinds DEF Before
<1>5. ASSUME NEW u, IsHash(u)
      PROVE  Before(u, v) = [even |-> v.even + 1, odd |-> v.even,
                              open |-> v.even, first |-> v.even, more |-> v.even - 1]
  BY <1>1, <1>5 DEF Before
<1>6. Before(BadHash, v) = [even |-> v.odd + 1, odd |-> v.even,
                       open |-> v.odd + 1, first |-> v.even, more |-> v.even]
  BY <1>2, Units, Kinds DEF Before
<1>7. ASSUME NEW u \in {Plus, Minus}
      PROVE  Before(u, v) = [even |-> v.even, odd |-> v.even,
                               open |-> v.open, first |-> v.open, more |-> v.open]
  BY Units, Kinds DEF Before
<1>8. Before(EOF, v) = Same(v.even)
  BY Units, Kinds DEF Before
<1>9. Before(Newline, v) = [even |-> v.even, odd |-> v.odd, open |-> v.open,
                       first |-> v.first, more |-> IF v.more < 0 THEN 0 ELSE v.more]
  <2>1. Before(Newline, v) = [v EXCEPT !.more = IF v.more < 0 THEN 0 ELSE v.more]
    BY <1>2, Units DEF Before
  <2> QED
    BY <2>1 DEF Costs
<1>10. ASSUME NEW u, Character(u)
       PROVE  Before(u, v) = [even |-> v.odd + 1, odd |-> v.even,
                 open |-> v.more + 1, first |-> v.open, more |-> v.open]
  BY <1>3, <1>10 DEF Before
<1> QED
  BY <1>4, <1>5, <1>6, <1>7, <1>8, <1>9, <1>10

(* Every unit is of one of these kinds.                                    *)
LEMMA UnitKinds ==
  ASSUME NEW u \in Unit
  PROVE  \/ u = Dollar \/ IsHash(u) \/ u = BadHash \/ u \in {Plus, Minus}
         \/ u = EOF \/ u = Newline \/ Character(u)
BY Units DEF Unit, Character

(* The costs before a unit are costs.                                      *)
LEMMA BeforeCosts ==
  ASSUME NEW u \in Unit, NEW v \in Costs
  PROVE  Before(u, v) \in Costs
<1> DEFINE x == Before(u, v)
<1>1. CASE u = Dollar
  BY <1>1, BeforeKinds DEF Costs, Same
<1>2. CASE IsHash(u)
  BY <1>2, BeforeKinds DEF Costs
<1>3. CASE u = BadHash
  BY <1>3, BeforeKinds DEF Costs
<1>4. CASE u \in {Plus, Minus}
  BY <1>4, BeforeKinds DEF Costs
<1>5. CASE u = EOF
  BY <1>5, BeforeKinds DEF Costs, Same
<1>6. CASE u = Newline
  BY <1>6, BeforeKinds DEF Costs
<1>7. CASE Character(u)
  BY <1>7, BeforeKinds DEF Costs
<1> QED
  BY <1>1, <1>2, <1>3, <1>4, <1>5, <1>6, <1>7, UnitKinds

(* More behind a unit is more before it.                                   *)
LEMMA BeforeMonotone ==
  ASSUME NEW u \in Unit, NEW v \in Costs, NEW x \in Costs, AtLeast(v, x)
  PROVE  AtLeast(Before(u, v), Before(u, x))
<1>1. /\ v.even >= x.even /\ v.odd >= x.odd
      /\ v.open >= x.open /\ v.first >= x.first /\ v.more >= x.more
  BY DEF AtLeast
<1>2. CASE u = Dollar
  BY <1>1, <1>2, BeforeKinds, CostNumbers DEF AtLeast, Same
<1>3. CASE IsHash(u)
  BY <1>1, <1>3, BeforeKinds, CostNumbers DEF AtLeast
<1>4. CASE u = BadHash
  BY <1>1, <1>4, BeforeKinds, CostNumbers DEF AtLeast
<1>5. CASE u \in {Plus, Minus}
  BY <1>1, <1>5, BeforeKinds, CostNumbers DEF AtLeast
<1>6. CASE u = EOF
  BY <1>1, <1>6, BeforeKinds, CostNumbers DEF AtLeast, Same
<1>7. CASE u = Newline
  BY <1>1, <1>7, BeforeKinds, CostNumbers DEF AtLeast
<1>8. CASE Character(u)
  BY <1>1, <1>8, BeforeKinds, CostNumbers DEF AtLeast
<1> QED
  BY <1>2, <1>3, <1>4, <1>5, <1>6, <1>7, <1>8, UnitKinds

(* One more behind a unit is at most one more before it; and so for n.     *)
LEMMA BeforeRaised ==
  ASSUME NEW u \in Unit, NEW v \in Costs, NEW n \in Nat
  PROVE  Raised(v, n) \in Costs /\ AtLeast(Raised(Before(u, v), n), Before(u, Raised(v, n)))
<1>1. Raised(v, n) \in Costs
  BY DEF Raised, Costs
<1>2. CASE u = Dollar
  BY <1>1, <1>2, BeforeKinds, CostNumbers DEF AtLeast, Same, Raised
<1>3. CASE IsHash(u)
  BY <1>1, <1>3, BeforeKinds, CostNumbers DEF AtLeast, Raised
<1>4. CASE u = BadHash
  BY <1>1, <1>4, BeforeKinds, CostNumbers DEF AtLeast, Raised
<1>5. CASE u \in {Plus, Minus}
  BY <1>1, <1>5, BeforeKinds, CostNumbers DEF AtLeast, Raised
<1>6. CASE u = EOF
  BY <1>1, <1>6, BeforeKinds, CostNumbers DEF AtLeast, Same, Raised
<1>7. CASE u = Newline
  BY <1>1, <1>7, BeforeKinds, CostNumbers DEF AtLeast, Raised
<1>8. CASE Character(u)
  BY <1>1, <1>8, BeforeKinds, CostNumbers DEF AtLeast, Raised
<1> QED
  BY <1>1, <1>2, <1>3, <1>4, <1>5, <1>6, <1>7, <1>8, UnitKinds

(* A unit that is lost costs at most one, unless it is the end.            *)
LEMMA BeforeLost ==
  ASSUME NEW u \in Unit, u # EOF, NEW v \in Costs
  PROVE  AtLeast(Raised(Before(u, v), 1), v)
<1>1. CASE u = Dollar
  BY <1>1, BeforeKinds DEF AtLeast, Same, Raised, Costs
<1>2. CASE IsHash(u)
  BY <1>2, BeforeKinds DEF AtLeast, Raised, Costs
<1>3. CASE u = BadHash
  BY <1>3, BeforeKinds DEF AtLeast, Raised, Costs
<1>4. CASE u \in {Plus, Minus}
  BY <1>4, BeforeKinds DEF AtLeast, Raised, Costs
<1>5. CASE u = Newline
  BY <1>5, BeforeKinds DEF AtLeast, Raised, Costs
<1>6. CASE Character(u)
  BY <1>6, BeforeKinds DEF AtLeast, Raised, Costs
<1> QED
  BY <1>1, <1>2, <1>3, <1>4, <1>5, <1>6, UnitKinds

(* A unit that frames or acknowledges and is broken costs at most one.     *)
LEMMA BeforeBroken ==
  ASSUME NEW u \in Unit, u \in {Dollar, Plus, Minus} \/ IsHash(u), NEW v \in Costs,
         NEW byte \in {Other, Minus} \cup (IF IsHash(u) THEN {BadHash} ELSE {})
  PROVE  AtLeast(Raised(Before(u, v), 1), Before(byte, v))
<1>1. Character(Other)
  BY DEF Character
<1>2. CASE u = Dollar
  <2>1. byte \in {Other, Minus}
    BY <1>2, Units
  <2> QED
    BY <1>1, <1>2, <2>1, BeforeKinds DEF AtLeast, Same, Raised, Costs
<1>3. CASE IsHash(u)
  BY <1>1, <1>3, BeforeKinds DEF AtLeast, Raised, Costs
<1>4. CASE u \in {Plus, Minus}
  <2>1. byte \in {Other, Minus}
    BY <1>4, Units
  <2> QED
    BY <1>1, <1>4, <2>1, BeforeKinds DEF AtLeast, Raised, Costs
<1> QED
  BY <1>2, <1>3, <1>4

(* What is at least something that is at least a third.                    *)
LEMMA AtLeastTransitive ==
  ASSUME NEW v \in Costs, NEW x \in Costs, NEW y \in Costs, AtLeast(v, x), AtLeast(x, y)
  PROVE  AtLeast(v, y)
BY CostNumbers DEF AtLeast

(* Raising keeps the order, and raises.                                    *)
LEMMA RaisedMonotone ==
  ASSUME NEW v \in Costs, NEW x \in Costs, AtLeast(v, x), NEW n \in Nat
  PROVE  /\ AtLeast(Raised(v, n), Raised(x, n)) /\ AtLeast(Raised(v, n), x)
         /\ AtLeast(Raised(v, n), v)
BY CostNumbers DEF AtLeast, Raised

(* A step of a bound raised as a whole.                                    *)
LEMMA RaisedStep ==
  ASSUME NEW u \in Unit, NEW v \in Costs, NEW x \in Costs, NEW n \in Nat,
         AtLeast(v, Before(u, x))
  PROVE  AtLeast(Raised(v, n), Before(u, Raised(x, n)))
<1>1. Before(u, x) \in Costs /\ Raised(x, n) \in Costs
  BY BeforeCosts, BeforeRaised
<1>2. /\ AtLeast(Raised(v, n), Raised(Before(u, x), n))
      /\ AtLeast(Raised(Before(u, x), n), Before(u, Raised(x, n)))
  BY <1>1, RaisedMonotone, BeforeRaised
<1>3. /\ Raised(v, n) \in Costs /\ Raised(Before(u, x), n) \in Costs
      /\ Before(u, Raised(x, n)) \in Costs
  <2>1. PICK any \in Unit : any = Dollar
    BY Units
  <2> QED
    BY <1>1, <2>1, BeforeCosts, BeforeRaised
<1> QED
  BY <1>2, <1>3, AtLeastTransitive

-----------------------------------------------------------------------------
(* A sequence costs at most v, when there are costs for each of its places *)
(* that agree from one place to the next.                                  *)
Bounds(w, s) ==
  /\ w \in [Nat -> Costs]
  /\ \A i \in 1 .. Len(s) : AtLeast(w[i], Before(s[i], w[i + 1]))
  /\ w[Len(s) + 1].more >= 0

Covers(v, s) == \E w : Bounds(w, s) /\ w[1] = v

(* The parts of a bound.                                                   *)
LEMMA BoundsParts ==
  ASSUME NEW s \in Seq(Unit), NEW w, Bounds(w, s)
  PROVE  /\ Len(s) \in Nat /\ \A i \in 1 .. Len(s) : s[i] \in Unit
         /\ \A i \in Nat : w[i] \in Costs
         /\ \A i \in 1 .. Len(s) : AtLeast(w[i], Before(s[i], w[i + 1]))
         /\ w[Len(s) + 1].more >= 0
BY LenProperties, ElementOfSeq DEF Bounds

(* What covers a sequence is a vector of costs.                            *)
LEMMA CoversCosts ==
  ASSUME NEW v, NEW s, Covers(v, s)
  PROVE  v \in Costs
BY DEF Covers, Bounds

(* Nothing costs nothing.                                                  *)
LEMMA CoversNothing == Same(0) \in Costs /\ Covers(Same(0), <<>>)
<1>1. Same(0) \in Costs /\ Same(0).more = 0
  BY DEF Same, Costs
<1> DEFINE w == [i \in Nat |-> Same(0)]
<1>2. w \in [Nat -> Costs] /\ w[1] = Same(0) /\ w[0 + 1].more >= 0
  BY <1>1
<1>3. Len(<<>>) = 0 /\ 1 .. 0 = {}
  OBVIOUS
<1> HIDE DEF w
<1> QED
  BY <1>1, <1>2, <1>3 DEF Covers, Bounds

(* The costs before the first unit, from those of the others.              *)
LEMMA CoversTail ==
  ASSUME NEW s \in Seq(Unit), s # <<>>, NEW v, Covers(v, s)
  PROVE  \E y \in Costs : Covers(y, Tail(s)) /\ AtLeast(v, Before(Head(s), y))
<1>1. PICK w : Bounds(w, s) /\ w[1] = v
  BY DEF Covers
<1>2. /\ Len(s) \in Nat /\ Len(s) >= 1 /\ Head(s) = s[1]
      /\ Tail(s) \in Seq(Unit) /\ Len(Tail(s)) = Len(s) - 1
      /\ \A i \in 1 .. Len(s) - 1 : Tail(s)[i] = s[i + 1]
  BY HeadTailProperties, LenProperties, EmptySeq
<1> DEFINE x == [i \in Nat |-> w[i + 1]]
<1>3. x \in [Nat -> Costs] /\ \A i \in Nat : x[i] = w[i + 1]
  BY <1>1, BoundsParts
<1> HIDE DEF x
<1>4. ASSUME NEW i \in 1 .. Len(s) - 1
      PROVE  AtLeast(x[i], Before(Tail(s)[i], x[i + 1]))
  <2>1. i \in Nat /\ i + 1 \in Nat /\ i + 1 \in 1 .. Len(s)
    BY <1>2
  <2> QED
    BY <1>1, <1>2, <1>3, <2>1, BoundsParts
<1>5. x[Len(s) - 1 + 1].more >= 0
  BY <1>1, <1>2, <1>3, BoundsParts
<1>6. Covers(x[1], Tail(s))
  BY <1>2, <1>3, <1>4, <1>5 DEF Covers, Bounds
<1>7. x[1] \in Costs /\ x[1] = w[1 + 1]
  BY <1>3
<1>8. AtLeast(w[1], Before(s[1], w[1 + 1]))
  BY <1>1, <1>2, BoundsParts
<1> QED
  BY <1>1, <1>2, <1>6, <1>7, <1>8

(* And the other way round: costs of the others give costs of all.         *)
LEMMA CoversBefore ==
  ASSUME NEW s \in Seq(Unit), s # <<>>, NEW y, Covers(y, Tail(s))
  PROVE  Covers(Before(Head(s), y), s)
<1>1. PICK w : Bounds(w, Tail(s)) /\ w[1] = y
  BY DEF Covers
<1>2. /\ Len(s) \in Nat /\ Len(s) >= 1 /\ Head(s) = s[1] /\ Head(s) \in Unit
      /\ Tail(s) \in Seq(Unit) /\ Len(Tail(s)) = Len(s) - 1
      /\ \A i \in 1 .. Len(s) - 1 : Tail(s)[i] = s[i + 1]
  BY HeadTailProperties, LenProperties, EmptySeq
<1> DEFINE b == Before(Head(s), y)
           x == [i \in Nat |-> IF i <= 1 THEN b ELSE w[i - 1]]
<1>3. \A i \in Nat : w[i] \in Costs
  BY <1>1, <1>2, BoundsParts
<1>4. b \in Costs
  BY <1>1, <1>2, <1>3, BeforeCosts
<1>5. x \in [Nat -> Costs] /\ x[1] = b /\ \A i \in Nat : i > 1 => x[i] = w[i - 1]
  BY <1>3, <1>4
<1>6. AtLeast(b, b)
  BY <1>4, CostNumbers DEF AtLeast
<1>7. b = Before(s[1], w[1])
  BY <1>1, <1>2
<1> HIDE DEF x, b
<1>8. ASSUME NEW i \in 1 .. Len(s)
      PROVE  AtLeast(x[i], Before(s[i], x[i + 1]))
  <2>1. CASE i = 1
    BY <1>5, <1>6, <1>7, <2>1
  <2>2. CASE i # 1
    <3>1. i - 1 \in 1 .. Len(s) - 1 /\ i > 1 /\ i + 1 > 1 /\ i \in Nat /\ i + 1 \in Nat
          /\ (i - 1) + 1 = i /\ (i + 1) - 1 = i
      BY <1>2, <2>2
    <3>2. AtLeast(w[i - 1], Before(Tail(s)[i - 1], w[(i - 1) + 1]))
      BY <1>1, <1>2, <3>1, BoundsParts
    <3> QED
      BY <1>2, <1>5, <3>1, <3>2
  <2> QED
    BY <2>1, <2>2
<1>9. x[Len(s) + 1].more >= 0
  <2>1. w[(Len(s) - 1) + 1].more >= 0
    BY <1>1, <1>2, BoundsParts
  <2> QED
    BY <1>2, <1>5, <2>1
<1> QED
  BY <1>5, <1>8, <1>9 DEF Covers, Bounds, b

(* What is sent behind a line adds at most its own costs from the start.   *)
LEMMA CoversJoin ==
  ASSUME NEW s \in Seq(Unit), NEW t \in Seq(Unit), NEW n \in Nat,
         NEW v, Covers(v, s), NEW x, Covers(x, t), AtLeast(Same(n), x)
  PROVE  Covers(Raised(v, n), s \o t)
<1>1. PICK w : Bounds(w, s) /\ w[1] = v
  BY DEF Covers
<1>2. PICK z : Bounds(z, t) /\ z[1] = x
  BY DEF Covers
<1> DEFINE st == s \o t
           y == [i \in Nat |-> IF i <= Len(s) + 1 THEN Raised(w[i], n) ELSE z[i - Len(s)]]
<1>3. /\ st \in Seq(Unit) /\ Len(st) = Len(s) + Len(t)
      /\ Len(s) \in Nat /\ Len(t) \in Nat
      /\ \A i \in 1 .. Len(s) + Len(t) :
           st[i] = IF i <= Len(s) THEN s[i] ELSE t[i - Len(s)]
  BY ConcatProperties, LenProperties
<1>4. /\ \A i \in Nat : w[i] \in Costs /\ z[i] \in Costs
      /\ \A i \in 1 .. Len(s) : s[i] \in Unit
      /\ \A i \in 1 .. Len(t) : t[i] \in Unit
  BY <1>1, <1>2, BoundsParts
<1>5. \A i \in Nat : Raised(w[i], n) \in Costs
  BY <1>4, BeforeRaised, Units
<1>6. /\ y \in [Nat -> Costs]
      /\ \A i \in Nat : i <= Len(s) + 1 => y[i] = Raised(w[i], n)
      /\ \A i \in Nat : i > Len(s) + 1 => y[i] = z[i - Len(s)]
  BY <1>3, <1>4, <1>5
<1> HIDE DEF st, y
<1> DEFINE m == Len(s) + 1
<1>7. m \in Nat /\ y[m] = Raised(w[m], n) /\ Raised(w[m], n) \in Costs
  BY <1>3, <1>5, <1>6
<1>8. AtLeast(Raised(w[m], n), x)
  <2>1. w[m].more >= 0 /\ w[m] \in Costs
    BY <1>1, <1>4, <1>7, BoundsParts
  <2>2. AtLeast(Raised(w[m], n), Same(n))
    BY <2>1, SMTT(60) DEF Costs, Raised, Same, AtLeast
  <2>3. Same(n) \in Costs
    BY DEF Same, Costs
  <2> QED
    BY <1>2, <1>4, <1>7, <2>2, <2>3, AtLeastTransitive
<1>9. ASSUME NEW i \in 1 .. Len(st)
      PROVE  AtLeast(y[i], Before(st[i], y[i + 1]))
  <2>1. CASE i <= Len(s)
    <3>1. /\ i \in 1 .. Len(s) /\ i \in Nat /\ i + 1 \in Nat /\ i <= Len(s) + 1
          /\ i + 1 <= Len(s) + 1 /\ st[i] = s[i]
      BY <1>3, <2>1
    <3>2. AtLeast(w[i], Before(s[i], w[i + 1]))
      BY <1>1, <3>1, BoundsParts
    <3> QED
      BY <1>4, <1>6, <3>1, <3>2, RaisedStep
  <2>2. CASE i = Len(s) + 1
    <3>1. /\ 1 \in 1 .. Len(t) /\ st[i] = t[1] /\ i + 1 \in Nat /\ i + 1 > Len(s) + 1
          /\ (i + 1) - Len(s) = 2
      BY <1>3, <2>2
    <3>2. AtLeast(x, Before(t[1], z[1 + 1])) /\ Before(t[1], z[2]) \in Costs /\ x \in Costs
      BY <1>2, <1>4, <3>1, BoundsParts, BeforeCosts
    <3>3. AtLeast(Raised(w[m], n), Before(t[1], z[2]))
      BY <1>7, <1>8, <3>2, AtLeastTransitive
    <3> QED
      BY <1>6, <1>7, <2>2, <3>1, <3>3
  <2>3. CASE i > Len(s) + 1
    <3>1. /\ i - Len(s) \in 1 .. Len(t) /\ st[i] = t[i - Len(s)] /\ i \in Nat /\ i + 1 \in Nat
          /\ i + 1 > Len(s) + 1 /\ (i + 1) - Len(s) = (i - Len(s)) + 1
      BY <1>3, <2>3
    <3>2. AtLeast(z[i - Len(s)], Before(t[i - Len(s)], z[(i - Len(s)) + 1]))
      BY <1>2, <3>1, BoundsParts
    <3> QED
      BY <1>6, <2>3, <3>1, <3>2
  <2>4. i \in Int /\ Len(s) \in Int
    BY <1>3
  <2> QED
    BY <2>1, <2>2, <2>3, <2>4
<1>10. y[Len(st) + 1].more >= 0
  <2>1. CASE Len(t) = 0
    <3>1. w[m].more >= 0 /\ w[m] \in Costs /\ y[Len(st) + 1] = Raised(w[m], n)
      BY <1>1, <1>3, <1>4, <1>7, <2>1, BoundsParts
    <3>2. Raised(w[m], n).more = w[m].more + n /\ w[m].more \in Int
      BY <3>1, CostNumbers DEF Raised
    <3> QED
      BY <3>1, <3>2
  <2>2. CASE Len(t) # 0
    <3>1. Len(st) + 1 \in Nat /\ Len(st) + 1 > Len(s) + 1 /\ Len(st) + 1 - Len(s) = Len(t) + 1
      BY <1>3, <2>2
    <3> QED
      BY <1>2, <1>6, <3>1, BoundsParts
  <2> QED
    BY <2>1, <2>2
<1>11. y[1] = Raised(v, n)
  BY <1>1, <1>3, <1>6
<1> QED
  BY <1>6, <1>9, <1>10, <1>11 DEF Covers, Bounds, st

(* A unit lost on the line costs at most one more.                         *)
LEMMA CoversLost ==
  ASSUME NEW s \in Seq(Unit), NEW v, Covers(v, s),
         NEW k \in 1 .. Len(s), s[k] # EOF
  PROVE  Covers(Raised(v, 1), RemoveAt(s, k))
<1>1. PICK w : Bounds(w, s) /\ w[1] = v
  BY DEF Covers
<1>2. /\ \A i \in Nat : w[i] \in Costs
      /\ \A i \in 1 .. Len(s) : s[i] \in Unit
      /\ Len(s) \in Nat
  BY <1>1, BoundsParts
<1> DEFINE t == RemoveAt(s, k)
           y == [i \in Nat |-> IF i <= k THEN Raised(w[i], 1) ELSE w[i + 1]]
<1>3. /\ Len(t) = Len(s) - 1
      /\ \A i \in 1 .. Len(s) - 1 : t[i] = IF i < k THEN s[i] ELSE s[i + 1]
  BY RemoveAtType
<1>4. \A i \in Nat : Raised(w[i], 1) \in Costs
  BY <1>2, BeforeRaised, Units
<1>5. /\ y \in [Nat -> Costs]
      /\ \A i \in Nat : i <= k => y[i] = Raised(w[i], 1)
      /\ \A i \in Nat : i > k => y[i] = w[i + 1]
  BY <1>2, <1>4
<1> HIDE DEF t, y
<1>6. k \in Nat /\ k + 1 \in Nat /\ w[k] \in Costs /\ w[k + 1] \in Costs /\ s[k] \in Unit
      /\ Raised(w[k], 1) \in Costs
  BY <1>2, <1>4
<1>7. AtLeast(Raised(w[k], 1), w[k + 1])
  <2>1. AtLeast(w[k], Before(s[k], w[k + 1])) /\ Before(s[k], w[k + 1]) \in Costs
    BY <1>1, <1>6, BoundsParts, BeforeCosts
  <2>2. AtLeast(Raised(w[k], 1), Raised(Before(s[k], w[k + 1]), 1))
    BY <1>6, <2>1, RaisedMonotone
  <2>3. AtLeast(Raised(Before(s[k], w[k + 1]), 1), w[k + 1])
    BY <1>6, BeforeLost
  <2>4. Raised(Before(s[k], w[k + 1]), 1) \in Costs
    BY <1>6, <2>1, BeforeRaised
  <2> QED
    BY <1>6, <2>2, <2>3, <2>4, AtLeastTransitive
<1>8. ASSUME NEW i \in 1 .. Len(t)
      PROVE  AtLeast(y[i], Before(t[i], y[i + 1]))
  <2>1. CASE i < k
    <3>1. i \in 1 .. Len(s) /\ i \in Nat /\ i + 1 \in Nat /\ i <= k /\ i + 1 <= k /\ t[i] = s[i]
      BY <1>2, <1>3, <2>1
    <3>2. AtLeast(w[i], Before(s[i], w[i + 1]))
      BY <1>1, <3>1, BoundsParts
    <3> QED
      BY <1>2, <1>5, <3>1, <3>2, RaisedStep
  <2>2. CASE i = k
    <3>1. /\ k + 1 \in 1 .. Len(s) /\ t[i] = s[k + 1] /\ k + 1 + 1 \in Nat /\ k + 1 > k
      BY <1>2, <1>3, <2>2
    <3>2. AtLeast(w[k + 1], Before(s[k + 1], w[k + 1 + 1]))
      BY <1>1, <3>1, BoundsParts
    <3>3. Before(s[k + 1], w[k + 1 + 1]) \in Costs
      BY <1>2, <3>1, BeforeCosts
    <3>4. AtLeast(Raised(w[k], 1), Before(s[k + 1], w[k + 1 + 1]))
      BY <1>6, <1>7, <3>2, <3>3, AtLeastTransitive
    <3> QED
      BY <1>5, <1>6, <2>2, <3>1, <3>4, SMTT(60)
  <2>3. CASE i > k
    <3>1. /\ i + 1 \in 1 .. Len(s) /\ t[i] = s[i + 1] /\ i \in Nat /\ i + 1 \in Nat
          /\ i + 1 > k
      BY <1>2, <1>3, <2>3
    <3>2. AtLeast(w[i + 1], Before(s[i + 1], w[i + 1 + 1]))
      BY <1>1, <3>1, BoundsParts
    <3> QED
      BY <1>5, <2>3, <3>1, <3>2
  <2>4. i \in Int /\ k \in Int
    OBVIOUS
  <2> QED
    BY <2>1, <2>2, <2>3, <2>4
<1>9. y[Len(t) + 1].more >= 0
  <2>1. CASE k = Len(s)
    <3>1. y[Len(t) + 1] = Raised(w[k], 1) /\ Raised(w[k], 1).more = w[k].more + 1
      BY <1>2, <1>3, <1>5, <1>6, <2>1 DEF Raised
    <3> QED
      BY <1>6, <3>1 DEF Costs
  <2>2. CASE k # Len(s)
    <3>1. Len(t) + 1 = Len(s) /\ Len(s) > k
      BY <1>2, <1>3, <2>2
    <3> QED
      BY <1>1, <1>2, <1>5, <3>1, BoundsParts
  <2> QED
    BY <2>1, <2>2
<1>10. y[1] = Raised(v, 1)
  BY <1>1, <1>5
<1> QED
  BY <1>5, <1>8, <1>9, <1>10 DEF Covers, Bounds, t

(* A unit that changes on the line costs as much more as it does alone.    *)
LEMMA CoversChanged ==
  ASSUME NEW s \in Seq(Unit), NEW v, Covers(v, s),
         NEW k \in 1 .. Len(s), NEW u \in Unit, NEW n \in Nat,
         \A x \in Costs : AtLeast(Raised(Before(s[k], x), n), Before(u, x))
  PROVE  Covers(Raised(v, n), [s EXCEPT ![k] = u])
<1>1. PICK w : Bounds(w, s) /\ w[1] = v
  BY DEF Covers
<1>2. /\ \A i \in Nat : w[i] \in Costs
      /\ \A i \in 1 .. Len(s) : s[i] \in Unit
      /\ Len(s) \in Nat
  BY <1>1, BoundsParts
<1> DEFINE t == [s EXCEPT ![k] = u]
           y == [i \in Nat |-> IF i <= k THEN Raised(w[i], n) ELSE w[i]]
<1>3. /\ Len(t) = Len(s) /\ t[k] = u
      /\ \A i \in 1 .. Len(s) : i # k => t[i] = s[i]
  BY ExceptSeq
<1>4. \A i \in Nat : Raised(w[i], n) \in Costs
  BY <1>2, BeforeRaised, Units
<1>5. /\ y \in [Nat -> Costs]
      /\ \A i \in Nat : i <= k => y[i] = Raised(w[i], n)
      /\ \A i \in Nat : i > k => y[i] = w[i]
  BY <1>2, <1>4
<1> HIDE DEF t, y
<1>6. k \in Nat /\ k + 1 \in Nat /\ w[k] \in Costs /\ w[k + 1] \in Costs /\ s[k] \in Unit
      /\ Raised(w[k], n) \in Costs
  BY <1>2, <1>4
<1>7. AtLeast(Raised(w[k], n), Before(u, w[k + 1]))
  <2>1. AtLeast(w[k], Before(s[k], w[k + 1])) /\ Before(s[k], w[k + 1]) \in Costs
    BY <1>1, <1>6, BoundsParts, BeforeCosts
  <2>2. AtLeast(Raised(w[k], n), Raised(Before(s[k], w[k + 1]), n))
    BY <1>6, <2>1, RaisedMonotone
  <2>3. Raised(Before(s[k], w[k + 1]), n) \in Costs /\ Before(u, w[k + 1]) \in Costs
    BY <1>6, <2>1, BeforeRaised, BeforeCosts
  <2> QED
    BY <1>6, <2>2, <2>3, AtLeastTransitive
<1>8. ASSUME NEW i \in 1 .. Len(t)
      PROVE  AtLeast(y[i], Before(t[i], y[i + 1]))
  <2>1. i \in 1 .. Len(s) /\ i \in Nat /\ i + 1 \in Nat /\ (i # k => t[i] = s[i])
    BY <1>2, <1>3
  <2>2. AtLeast(w[i], Before(s[i], w[i + 1]))
    BY <1>1, <2>1, BoundsParts
  <2>3. CASE i < k
    <3>1. i <= k /\ i + 1 <= k
      BY <2>1, <2>3
    <3> QED
      BY <1>2, <1>5, <2>1, <2>2, <2>3, <3>1, RaisedStep
  <2>4. CASE i = k
    BY <1>3, <1>5, <1>6, <1>7, <2>4
  <2>5. CASE i > k
    <3>1. i + 1 > k
      BY <2>1, <2>5
    <3> QED
      BY <1>5, <2>1, <2>2, <2>5, <3>1
  <2>6. i \in Int /\ k \in Int
    OBVIOUS
  <2> QED
    BY <2>3, <2>4, <2>5, <2>6
<1>9. y[Len(t) + 1].more >= 0
  <2>1. Len(t) + 1 = Len(s) + 1 /\ Len(s) + 1 > k /\ Len(s) + 1 \in Nat
    BY <1>2, <1>3
  <2> QED
    BY <1>1, <1>5, <2>1, BoundsParts
<1>10. y[1] = Raised(v, n)
  BY <1>1, <1>5
<1> QED
  BY <1>5, <1>8, <1>9, <1>10 DEF Covers, Bounds, t

(* A single unit.                                                          *)
LEMMA CoversUnit ==
  ASSUME NEW u \in Unit
  PROVE  Covers(Before(u, Same(0)), <<u>>)
<1>1. <<u>> \in Seq(Unit) /\ <<u>> # <<>> /\ Head(<<u>>) = u /\ Tail(<<u>>) = <<>>
  OBVIOUS
<1> QED
  BY <1>1, CoversNothing, CoversBefore

(* The bytes: only one that belongs to nothing costs something.            *)
LEMMA CoversByte ==
  /\ \A byte \in {Plus, Minus, Newline, EOF} :
       \E x : Covers(x, <<byte>>) /\ AtLeast(Same(0), x)
  /\ \E x : Covers(x, <<Other>>) /\ AtLeast(Same(1), x)
<1>1. /\ Same(0) \in Costs /\ Same(0).even = 0 /\ Same(0).odd = 0
      /\ Same(0).open = 0 /\ Same(0).first = 0 /\ Same(0).more = 0
  BY CoversNothing DEF Same
<1>2. Character(Other)
  BY DEF Character
<1>3. ASSUME NEW byte \in {Plus, Minus, Newline, EOF}
      PROVE  Covers(Before(byte, Same(0)), <<byte>>) /\ AtLeast(Same(0), Before(byte, Same(0)))
  <2>1. byte \in Unit
    BY Units
  <2>2. AtLeast(Same(0), Before(byte, Same(0)))
    BY <1>1, BeforeKinds DEF AtLeast, Same
  <2> QED
    BY <2>1, <2>2, CoversUnit
<1>4. Covers(Before(Other, Same(0)), <<Other>>) /\ AtLeast(Same(1), Before(Other, Same(0)))
  BY <1>1, <1>2, Units, CoversUnit, BeforeKinds DEF AtLeast, Same
<1> QED
  BY <1>3, <1>4

(* A packet costs one, from every state: it is executed or refused once.   *)
LEMMA CoversPacket ==
  ASSUME NEW n \in 1 .. Requests
  PROVE  Packet(n) \in Seq(Unit) /\ Covers(Same(1), Packet(n)) /\ AtLeast(Same(1), Same(1))
<1> DEFINE a == [even |-> 1, odd |-> 0, open |-> 0, first |-> 0, more |-> -1]
           b == [even |-> 1, odd |-> 1, open |-> 0, first |-> 0, more |-> 0]
           c == [even |-> 2, odd |-> 1, open |-> 1, first |-> 0, more |-> 0]
           z == Same(0)
           o == Same(1)
<1>1. /\ a \in Costs /\ b \in Costs /\ c \in Costs /\ z \in Costs /\ o \in Costs
      /\ AtLeast(o, o)
  BY DEF Costs, Same, AtLeast
<1>2. Character(Other) /\ Character(Body(n)) /\ IsHash(Hash(n))
  <2>1. n \in 0 .. Requests
    BY LinkAssumption
  <2> QED
    BY <2>1, Units DEF Character
<1>3. AtLeast(a, Before(Hash(n), z))
  BY <1>1, <1>2, BeforeKinds DEF AtLeast, Same
<1>4. AtLeast(b, Before(Body(n), a)) /\ AtLeast(b, Before(Other, a))
  BY <1>1, <1>2, BeforeKinds DEF AtLeast
<1>5. AtLeast(b, Before(Minus, b))
  BY <1>1, BeforeKinds DEF AtLeast
<1>6. AtLeast(c, Before(Body(n), b))
  BY <1>1, <1>2, BeforeKinds DEF AtLeast
<1>7. AtLeast(o, Before(Dollar, b)) /\ AtLeast(o, Before(Dollar, c))
  BY <1>1, BeforeKinds DEF AtLeast, Same
<1>8. z.more >= 0
  BY DEF Same
<1>9. PICK p : p = Packet(n)
  OBVIOUS
<1> HIDE DEF a, b, c, z, o
<1>10. CASE n \in Dashed
  <2>1. p = <<Dollar, Body(n), Minus, Other, Hash(n)>>
    BY <1>9, <1>10, PacketUnits
  <2>2. /\ Len(p) = 5 /\ p[1] = Dollar /\ p[2] = Body(n) /\ p[3] = Minus /\ p[4] = Other
        /\ p[5] = Hash(n)
    BY <2>1
  <2> DEFINE w == [i \in Nat |-> IF i <= 1 THEN o ELSE IF i = 2 THEN c
                       ELSE IF i = 3 \/ i = 4 THEN b ELSE IF i = 5 THEN a ELSE z]
  <2>3. /\ w \in [Nat -> Costs] /\ w[1] = o /\ w[2] = c /\ w[3] = b /\ w[4] = b
        /\ w[5] = a /\ w[6] = z
    BY <1>1
  <2> HIDE DEF w
  <2>4. ASSUME NEW i \in 1 .. 5 PROVE AtLeast(w[i], Before(p[i], w[i + 1]))
    <3>1. \/ (i = 1 /\ i + 1 = 2) \/ (i = 2 /\ i + 1 = 3) \/ (i = 3 /\ i + 1 = 4)
          \/ (i = 4 /\ i + 1 = 5) \/ (i = 5 /\ i + 1 = 6)
      OBVIOUS
    <3> QED
      BY <1>3, <1>4, <1>5, <1>6, <1>7, <2>2, <2>3, <3>1
  <2>5. Covers(o, p)
    BY <1>8, <2>2, <2>3, <2>4 DEF Covers, Bounds
  <2> QED
    BY <1>1, <1>9, <2>5, PacketUnits DEF o
<1>11. CASE n \notin Dashed
  <2>1. p = <<Dollar, Body(n), Hash(n)>>
    BY <1>9, <1>11, PacketUnits
  <2>2. Len(p) = 3 /\ p[1] = Dollar /\ p[2] = Body(n) /\ p[3] = Hash(n)
    BY <2>1
  <2> DEFINE w == [i \in Nat |-> IF i <= 1 THEN o ELSE IF i = 2 THEN b
                                 ELSE IF i = 3 THEN a ELSE z]
  <2>3. w \in [Nat -> Costs] /\ w[1] = o /\ w[2] = b /\ w[3] = a /\ w[4] = z
    BY <1>1
  <2> HIDE DEF w
  <2>4. ASSUME NEW i \in 1 .. 3 PROVE AtLeast(w[i], Before(p[i], w[i + 1]))
    <3>1. (i = 1 /\ i + 1 = 2) \/ (i = 2 /\ i + 1 = 3) \/ (i = 3 /\ i + 1 = 4)
      OBVIOUS
    <3> QED
      BY <1>3, <1>4, <1>7, <2>2, <2>3, <3>1
  <2>5. Covers(o, p)
    BY <1>8, <2>2, <2>3, <2>4 DEF Covers, Bounds
  <2> QED
    BY <1>1, <1>9, <2>5, PacketUnits DEF o
<1> QED
  BY <1>10, <1>11

-----------------------------------------------------------------------------
(* The costs of what a "$" begins. *)

(* What neither begins nor ends a packet.                                  *)
LEMMA InsideKinds ==
  ASSUME NEW u \in Unit, ~Ends(u)
  PROVE  u \in {Plus, Minus} \/ u = Newline \/ Character(u)
BY UnitKinds DEF Ends

(* What is paid behind a "$" stays paid inside the packet.                 *)
Paid(n, v) == n >= v.open \/ n >= v.first \/ n >= v.more + 1

(* A unit inside a packet keeps what is paid.                              *)
LEMMA InsidePaid ==
  ASSUME NEW u \in Unit, ~Ends(u), NEW v \in Costs, NEW x \in Costs,
         AtLeast(v, Before(u, x)), NEW n \in Int, Paid(n, v)
  PROVE  Paid(n, x)
<1>1. CASE u \in {Plus, Minus}
  BY <1>1, BeforeKinds, CostNumbers DEF AtLeast, Paid
<1>2. CASE u = Newline
  BY <1>2, BeforeKinds, CostNumbers DEF AtLeast, Paid
<1>3. CASE Character(u)
  BY <1>3, BeforeKinds, CostNumbers DEF AtLeast, Paid
<1> QED
  BY <1>1, <1>2, <1>3, InsideKinds

(* At a "$" one is paid, at the end of the packet nothing more.            *)
LEMMA FramePaid ==
  ASSUME NEW v \in Costs, NEW x \in Costs
  PROVE  /\ AtLeast(v, Before(Dollar, x)) =>
              v.even >= x.first + 1 /\ v.odd >= x.first + 1 /\ v.odd >= x.open
         /\ \A u, n : IsHash(u) /\ AtLeast(v, Before(u, x)) /\ n \in Int /\ Paid(n, v)
              => n >= x.even
<1>1. AtLeast(v, Before(Dollar, x)) =>
        v.even >= x.first + 1 /\ v.odd >= x.first + 1 /\ v.odd >= x.open
  BY BeforeKinds DEF AtLeast, Same, Costs
<1>2. ASSUME NEW u, NEW n \in Int, IsHash(u), AtLeast(v, Before(u, x)), Paid(n, v)
      PROVE  n >= x.even
  BY <1>2, BeforeKinds, CostNumbers DEF AtLeast, Paid
<1> QED
  BY <1>1, <1>2

(* A whole packet, whatever it holds, is paid for once when it is taken.   *)
LEMMA CoversMatched ==
  ASSUME NEW s \in Seq(Unit), NEW v, Covers(v, s), NEW e \in 2 .. Len(s),
         s[1] = Dollar, IsHash(s[e]), \A i \in 2 .. e - 1 : ~Ends(s[i])
  PROVE  \E y : /\ Covers(y, SubSeq(s, e + 1, Len(s)))
                /\ v.even >= y.even + 1 /\ v.odd >= y.even + 1
<1>1. PICK w : Bounds(w, s) /\ w[1] = v
  BY DEF Covers
<1>2. /\ \A i \in Nat : w[i] \in Costs
      /\ \A i \in 1 .. Len(s) : s[i] \in Unit
      /\ Len(s) \in Nat /\ e \in Nat
      /\ \A i \in 1 .. Len(s) : AtLeast(w[i], Before(s[i], w[i + 1]))
      /\ w[Len(s) + 1].more >= 0
  BY <1>1, BoundsParts
<1> DEFINE T == SubSeq(s, e + 1, Len(s))
           y == [i \in Nat |-> w[i + e]]
           Broken == {i \in 2 .. e : ~Paid(w[2].first, w[i])}
<1>3. /\ Len(T) = Len(s) - e /\ \A i \in 1 .. Len(s) - e : T[i] = s[i + e]
  <2>1. /\ Len(T) = IF e + 1 <= Len(s) THEN Len(s) - (e + 1) + 1 ELSE 0
        /\ \A i \in 1 .. Len(s) - (e + 1) + 1 : T[i] = s[e + 1 + i - 1]
    BY <1>2, SubSeqProperties
  <2> HIDE DEF T
  <2> QED
    BY <1>2, <2>1
<1>4. y \in [Nat -> Costs] /\ \A i \in Nat : y[i] = w[i + e]
  BY <1>2
<1> HIDE DEF T, y
<1>5. Covers(y[1], T)
  <2>1. ASSUME NEW i \in 1 .. Len(T) PROVE AtLeast(y[i], Before(T[i], y[i + 1]))
    <3>1. i + e \in 1 .. Len(s) /\ T[i] = s[i + e] /\ i \in Nat /\ i + 1 \in Nat
          /\ (i + 1) + e = (i + e) + 1
      BY <1>2, <1>3
    <3> QED
      BY <1>2, <1>4, <3>1
  <2>2. Len(T) + 1 \in Nat /\ (Len(T) + 1) + e = Len(s) + 1
    BY <1>2, <1>3
  <2> QED
    BY <1>2, <1>4, <2>1, <2>2 DEF Covers, Bounds
<1>6. Paid(w[2].first, w[2]) /\ w[2].first \in Int
  BY <1>2, CostNumbers DEF Paid
<1>7. ASSUME NEW i \in 2 .. e - 1, Paid(w[2].first, w[i])
      PROVE  Paid(w[2].first, w[i + 1])
  <2>1. /\ i \in 1 .. Len(s) /\ i \in Nat /\ i + 1 \in Nat /\ ~Ends(s[i]) /\ s[i] \in Unit
        /\ w[i] \in Costs /\ w[i + 1] \in Costs
    BY <1>2
  <2>2. AtLeast(w[i], Before(s[i], w[i + 1]))
    BY <1>2, <2>1
  <2> QED
    BY <1>6, <1>7, <2>1, <2>2, InsidePaid
<1>8. Broken = {}
  <2>1. SUFFICES ASSUME Broken # {} PROVE FALSE
    OBVIOUS
  <2>2. PICK m \in Broken : \A k \in Broken : m <= k
    BY <2>1, Least
  <2>3. m \in 2 .. e /\ ~Paid(w[2].first, w[m]) /\ m # 2
    BY <1>6, <2>2
  <2>4. m - 1 \in 2 .. e - 1 /\ m - 1 \in 2 .. e /\ (m - 1) + 1 = m /\ ~(m <= m - 1)
    BY <1>2, <2>3
  <2>5. Paid(w[2].first, w[m - 1])
    BY <2>2, <2>4
  <2> QED
    BY <1>7, <2>3, <2>4, <2>5
<1>9. Paid(w[2].first, w[e])
  BY <1>2, <1>8
<1>10. /\ w[2] \in Costs /\ w[e] \in Costs /\ w[e + 1] \in Costs /\ v \in Costs
       /\ y[1] = w[e + 1]
  <2>1. 1 \in Nat /\ 2 \in Nat /\ e + 1 \in Nat /\ 1 + e = e + 1
    BY <1>2
  <2> QED
    BY <1>1, <1>2, <1>4, <2>1
<1>11. w[2].first >= w[e + 1].even
  <2>1. AtLeast(w[e], Before(s[e], w[e + 1]))
    BY <1>2
  <2> QED
    BY <1>6, <1>9, <1>10, <2>1, FramePaid
<1>12. v.even >= w[2].first + 1 /\ v.odd >= w[2].first + 1
  <2>1. AtLeast(w[1], Before(s[1], w[1 + 1])) /\ 1 + 1 = 2
    BY <1>2
  <2> QED
    BY <1>1, <1>10, <2>1, FramePaid
<1>13. v.even \in Int /\ v.odd \in Int /\ w[e + 1].even \in Int
  BY <1>10, CostNumbers
<1>14. v.even >= y[1].even + 1 /\ v.odd >= y[1].even + 1
  <2>1. w[2].first \in Int /\ y[1].even = w[e + 1].even
    BY <1>6, <1>10
  <2> QED
    BY <1>11, <1>12, <1>13, <2>1, SMTT(60)
<1> QED
  BY <1>5, <1>14 DEF T

(* A "$" that begins no packet is an error like what follows it: behind it *)
(* the bounds inside a packet are bounds outside of one, up to its end.    *)
Outside(v) == [even |-> v.open, odd |-> v.more, open |-> v.open,
               first |-> v.more, more |-> v.more]

(* A unit inside the packet steps from such a bound to such a bound.       *)
LEMMA OutsideInside ==
  ASSUME NEW u \in Unit, ~Ends(u), NEW v \in Costs, NEW x \in Costs,
         AtLeast(v, Before(u, x)), x.more >= 0
  PROVE  AtLeast(Outside(v), Before(u, Outside(x)))
<1>1. Outside(x) \in Costs
  BY DEF Outside, Costs
<1>2. CASE u \in {Plus, Minus}
  BY <1>1, <1>2, BeforeKinds DEF AtLeast, Outside, Costs
<1>3. CASE u = Newline
  BY <1>1, <1>3, BeforeKinds DEF AtLeast, Outside, Costs
<1>4. CASE Character(u)
  BY <1>1, <1>4, BeforeKinds DEF AtLeast, Outside, Costs
<1> QED
  BY <1>2, <1>3, <1>4, InsideKinds

(* Nothing but the end of a packet is ever refunded.                       *)
LEMMA OutsideCosts ==
  ASSUME NEW u \in Unit, ~IsHash(u), NEW v \in Costs, NEW x \in Costs,
         AtLeast(v, Before(u, x))
  PROVE  v.more >= 0 /\ Outside(v) \in Costs
<1>1. v.more >= 0
  <2>1. CASE u \in {Plus, Minus}
    BY <2>1, BeforeKinds DEF AtLeast, Costs
  <2>2. CASE u = Newline
    BY <2>2, BeforeKinds DEF AtLeast, Costs
  <2>3. CASE Character(u)
    BY <2>3, BeforeKinds DEF AtLeast, Costs
  <2>4. CASE u = Dollar
    BY <2>4, BeforeKinds DEF AtLeast, Same, Costs
  <2>5. CASE u = BadHash
    BY <2>5, BeforeKinds DEF AtLeast, Costs
  <2>6. CASE u = EOF
    BY <2>6, BeforeKinds DEF AtLeast, Same, Costs
  <2> QED
    BY <2>1, <2>2, <2>3, <2>4, <2>5, <2>6, UnitKinds
<1>2. Outside(v) \in Costs
  BY <1>1 DEF Outside, Costs
<1> QED
  BY <1>1, <1>2

(* What ends no packet costs the same inside and outside.                  *)
LEMMA OutsideEnd ==
  ASSUME NEW u \in {Dollar, BadHash, EOF}, NEW v \in Costs, NEW x \in Costs,
         AtLeast(v, Before(u, x))
  PROVE  AtLeast(Outside(v), Before(u, x))
<1>1. CASE u = Dollar
  BY <1>1, BeforeKinds DEF AtLeast, Outside, Same, Costs
<1>2. CASE u = BadHash
  BY <1>2, BeforeKinds DEF AtLeast, Outside, Costs
<1>3. CASE u = EOF
  BY <1>3, BeforeKinds DEF AtLeast, Outside, Same, Costs
<1> QED
  BY <1>1, <1>2, <1>3

(* A "$" that begins no packet costs what an error does.                   *)
LEMMA CoversUnmatched ==
  ASSUME NEW s \in Seq(Unit), NEW v, Covers(v, s), NEW e \in 2 .. Len(s),
         s[1] = Dollar, s[e] \in {Dollar, BadHash, EOF}, \A i \in 2 .. e - 1 : ~Ends(s[i])
  PROVE  \E y : Covers(y, Tail(s)) /\ v.even >= y.odd + 1 /\ v.odd >= y.even
<1>1. PICK w : Bounds(w, s) /\ w[1] = v
  BY DEF Covers
<1>2. /\ \A i \in Nat : w[i] \in Costs
      /\ \A i \in 1 .. Len(s) : s[i] \in Unit
      /\ Len(s) \in Nat /\ e \in Nat
      /\ \A i \in 1 .. Len(s) : AtLeast(w[i], Before(s[i], w[i + 1]))
      /\ w[Len(s) + 1].more >= 0
  BY <1>1, BoundsParts
<1>3. /\ Len(Tail(s)) = Len(s) - 1
      /\ \A i \in 1 .. Len(s) - 1 : Tail(s)[i] = s[i + 1]
  BY <1>2, HeadTailProperties, EmptySeq
<1>4. ASSUME NEW i \in 2 .. e PROVE w[i].more >= 0 /\ Outside(w[i]) \in Costs
  <2>1. /\ i \in 1 .. Len(s) /\ i \in Nat /\ i + 1 \in Nat
        /\ w[i] \in Costs /\ w[i + 1] \in Costs
    BY <1>2
  <2>2. AtLeast(w[i], Before(s[i], w[i + 1]))
    BY <1>2, <2>1
  <2>3. s[i] \in Unit /\ ~IsHash(s[i])
    BY <1>2, <2>1, Units DEF Ends
  <2> QED
    BY <2>1, <2>2, <2>3, OutsideCosts
<1> DEFINE y == [i \in Nat |-> IF i \in 1 .. e - 1 THEN Outside(w[i + 1]) ELSE w[i + 1]]
<1>5. /\ y \in [Nat -> Costs]
      /\ \A i \in Nat : i \in 1 .. e - 1 => y[i] = Outside(w[i + 1])
      /\ \A i \in Nat : i \notin 1 .. e - 1 => y[i] = w[i + 1]
  <2>1. ASSUME NEW i \in 1 .. e - 1 PROVE Outside(w[i + 1]) \in Costs
    <3>1. i + 1 \in 2 .. e
      BY <1>2
    <3> QED
      BY <1>4, <3>1
  <2>2. \A i \in Nat : w[i + 1] \in Costs
    BY <1>2
  <2> QED
    BY <2>1, <2>2
<1> HIDE DEF y
<1>6. ASSUME NEW i \in 1 .. Len(s) - 1
      PROVE  AtLeast(y[i], Before(Tail(s)[i], y[i + 1]))
  <2>1. /\ i \in Nat /\ i + 1 \in Nat /\ i + 1 \in 1 .. Len(s) /\ Tail(s)[i] = s[i + 1]
        /\ i + 1 + 1 \in Nat
        /\ w[i + 1] \in Costs /\ w[i + 1 + 1] \in Costs /\ s[i + 1] \in Unit
    BY <1>2, <1>3
  <2>2. AtLeast(w[i + 1], Before(s[i + 1], w[i + 1 + 1]))
    BY <1>2, <2>1
  <2>3. CASE i + 1 < e
    <3>1. i \in 1 .. e - 1 /\ i + 1 \in 1 .. e - 1 /\ i + 1 \in 2 .. e - 1 /\ i + 1 + 1 \in 2 .. e
      BY <1>2, <2>1, <2>3
    <3>2. AtLeast(Outside(w[i + 1]), Before(s[i + 1], Outside(w[i + 1 + 1])))
      BY <1>4, <2>1, <2>2, <3>1, OutsideInside
    <3> QED
      BY <1>5, <2>1, <3>1, <3>2
  <2>4. CASE i + 1 = e
    <3>1. i \in 1 .. e - 1 /\ i + 1 \notin 1 .. e - 1
      BY <1>2, <2>1, <2>4
    <3>2. AtLeast(Outside(w[e]), Before(s[e], w[e + 1]))
      BY <2>1, <2>2, <2>4, OutsideEnd
    <3> QED
      BY <1>5, <2>1, <2>4, <3>1, <3>2
  <2>5. CASE i + 1 > e
    <3>1. i \notin 1 .. e - 1 /\ i + 1 \notin 1 .. e - 1
      BY <1>2, <2>1, <2>5
    <3> QED
      BY <1>5, <2>1, <2>2, <3>1
  <2>6. i + 1 \in Int /\ e \in Int
    BY <1>2, <2>1
  <2> QED
    BY <2>3, <2>4, <2>5, <2>6
<1>7. y[Len(s) - 1 + 1].more >= 0
  <2>1. Len(s) - 1 + 1 = Len(s) /\ Len(s) \notin 1 .. e - 1 /\ Len(s) \in Nat
    BY <1>2
  <2> QED
    BY <1>2, <1>5, <2>1
<1>8. Covers(y[1], Tail(s))
  BY <1>3, <1>5, <1>6, <1>7 DEF Covers, Bounds
<1>9. v.even >= y[1].odd + 1 /\ v.odd >= y[1].even
  <2>1. AtLeast(w[1], Before(s[1], w[1 + 1])) /\ 1 + 1 = 2 /\ w[2] \in Costs /\ 1 \in 1 .. e - 1
    BY <1>2
  <2>2. y[1] = Outside(w[2])
    BY <1>5, <2>1
  <2>3. v.even >= w[2].first + 1 /\ v.odd >= w[2].open
    BY <1>1, <1>2, <2>1, FramePaid
  <2>4. v.even \in Int /\ v.odd \in Int
    BY <1>1, <1>2, CostNumbers
  <2>5. /\ w[2].open \in Int /\ w[2].more \in Int /\ w[2].first \in Int
        /\ w[2].more <= w[2].first
    BY <2>1 DEF Costs
  <2>6. y[1].odd = w[2].more /\ y[1].even = w[2].open
    BY <2>2 DEF Outside
  <2> QED
    BY <2>3, <2>4, <2>5, <2>6
<1> QED
  BY <1>8, <1>9

-----------------------------------------------------------------------------
(* The refusals among the messages, counted in the same way: at most k.    *)
Refusal(m) == IF m = Minus THEN 1 ELSE 0

Tally(c, s) == c \in [Nat -> Nat] /\ \A i \in 1 .. Len(s) : c[i] >= c[i + 1] + Refusal(s[i])

Refuses(k, s) == \E c : Tally(c, s) /\ c[1] = k

(* The parts of a tally.                                                   *)
LEMMA TallyParts ==
  ASSUME NEW c, NEW s, Tally(c, s)
  PROVE  /\ \A i \in Nat : c[i] \in Nat
         /\ \A i \in 1 .. Len(s) : c[i] >= c[i + 1] + Refusal(s[i])
         /\ \A m : Refusal(m) \in {0, 1}
BY DEF Tally, Refusal

(* No message, and one.                                                    *)
LEMMA RefusesFew ==
  Refuses(0, <<>>) /\ \A m : Refuses(Refusal(m), <<m>>)
<1>1. Refuses(0, <<>>)
  <2> DEFINE c == [i \in Nat |-> 0]
  <2>1. c \in [Nat -> Nat] /\ c[1] = 0 /\ Len(<<>>) = 0
    OBVIOUS
  <2> HIDE DEF c
  <2> QED
    BY <2>1 DEF Refuses, Tally
<1>2. ASSUME NEW m PROVE Refuses(Refusal(m), <<m>>)
  <2> DEFINE c == [i \in Nat |-> IF i <= 1 THEN Refusal(m) ELSE 0]
             s == <<m>>
  <2>1. Refusal(m) \in {0, 1}
    BY DEF Refusal
  <2>2. c \in [Nat -> Nat] /\ c[1] = Refusal(m) /\ c[2] = 0 /\ Len(s) = 1 /\ s[1] = m
    BY <2>1
  <2> HIDE DEF c, s
  <2>3. ASSUME NEW i \in 1 .. Len(s) PROVE c[i] >= c[i + 1] + Refusal(s[i])
    <3>1. i = 1 /\ i + 1 = 2
      BY <2>2
    <3> QED
      BY <2>1, <2>2, <3>1
  <2> QED
    BY <2>2, <2>3 DEF Refuses, Tally, s
<1> QED
  BY <1>1, <1>2

(* The first message read.                                                 *)
LEMMA RefusesTail ==
  ASSUME NEW s \in Seq(Message), s # <<>>, NEW k \in Nat, Refuses(k, s)
  PROVE  \E n \in Nat : Refuses(n, Tail(s)) /\ k >= n + Refusal(Head(s))
<1>1. PICK c : Tally(c, s) /\ c[1] = k
  BY DEF Refuses
<1>2. /\ Len(s) \in Nat /\ Len(s) >= 1 /\ Head(s) = s[1]
      /\ Len(Tail(s)) = Len(s) - 1
      /\ \A i \in 1 .. Len(s) - 1 : Tail(s)[i] = s[i + 1]
  BY HeadTailProperties, LenProperties, EmptySeq
<1> DEFINE x == [i \in Nat |-> c[i + 1]]
<1>3. x \in [Nat -> Nat] /\ \A i \in Nat : x[i] = c[i + 1]
  BY <1>1, TallyParts
<1> HIDE DEF x
<1>4. ASSUME NEW i \in 1 .. Len(s) - 1
      PROVE  x[i] >= x[i + 1] + Refusal(Tail(s)[i])
  <2>3. /\ i \in Nat /\ i + 1 \in Nat /\ i + 1 \in 1 .. Len(s)
    BY <1>2
  <2>1. /\ i + 1 \in 1 .. Len(s) /\ Tail(s)[i] = s[i + 1]
        /\ x[i] = c[i + 1] /\ x[i + 1] = c[i + 1 + 1]
    BY <1>2, <1>3, <2>3
  <2>2. c[i + 1] >= c[i + 1 + 1] + Refusal(s[i + 1])
    BY <1>1, <2>1, TallyParts
  <2> QED
    BY <2>1, <2>2
<1>5. Refuses(x[1], Tail(s)) /\ x[1] \in Nat /\ x[1] = c[1 + 1]
  BY <1>2, <1>3, <1>4 DEF Refuses, Tally
<1>6. c[1] >= c[1 + 1] + Refusal(s[1])
  BY <1>1, <1>2, TallyParts
<1> QED
  BY <1>1, <1>2, <1>5, <1>6

(* Messages behind others.                                                 *)
LEMMA RefusesJoin ==
  ASSUME NEW s \in Seq(Message), NEW t \in Seq(Message), NEW k \in Nat, NEW n \in Nat,
         Refuses(k, s), Refuses(n, t)
  PROVE  Refuses(k + n, s \o t)
<1>1. PICK c : Tally(c, s) /\ c[1] = k
  BY DEF Refuses
<1>2. PICK d : Tally(d, t) /\ d[1] = n
  BY DEF Refuses
<1> DEFINE st == s \o t
           y == [i \in Nat |-> IF i <= Len(s) + 1 THEN c[i] + n ELSE d[i - Len(s)]]
<1>3. /\ Len(st) = Len(s) + Len(t)
      /\ Len(s) \in Nat /\ Len(t) \in Nat
      /\ \A i \in 1 .. Len(s) + Len(t) :
           st[i] = IF i <= Len(s) THEN s[i] ELSE t[i - Len(s)]
  BY ConcatProperties, LenProperties
<1>4. \A i \in Nat : c[i] \in Nat /\ d[i] \in Nat
  BY <1>1, <1>2, TallyParts
<1>5. /\ y \in [Nat -> Nat]
      /\ \A i \in Nat : i <= Len(s) + 1 => y[i] = c[i] + n
      /\ \A i \in Nat : i > Len(s) + 1 => y[i] = d[i - Len(s)]
  BY <1>3, <1>4
<1> HIDE DEF st, y
<1>6. ASSUME NEW i \in 1 .. Len(st)
      PROVE  y[i] >= y[i + 1] + Refusal(st[i])
  <2>1. CASE i <= Len(s)
    <3>1. /\ i \in 1 .. Len(s) /\ i \in Nat /\ i + 1 \in Nat /\ st[i] = s[i]
          /\ i <= Len(s) + 1 /\ i + 1 <= Len(s) + 1
      BY <1>3, <2>1
    <3>2. c[i] >= c[i + 1] + Refusal(s[i]) /\ Refusal(s[i]) \in {0, 1}
      BY <1>1, <3>1, TallyParts
    <3>3. y[i] = c[i] + n /\ y[i + 1] = c[i + 1] + n /\ c[i] \in Nat /\ c[i + 1] \in Nat
      BY <1>4, <1>5, <3>1
    <3> QED
      BY <3>1, <3>2, <3>3, SMTT(60)
  <2>2. CASE ~(i <= Len(s))
    <3>6. PICK j : j = i - Len(s)
      OBVIOUS
    <3>1. /\ j \in 1 .. Len(t) /\ st[i] = t[j] /\ i \in Nat /\ i + 1 \in Nat
          /\ i + 1 > Len(s) + 1 /\ (i + 1) - Len(s) = j + 1 /\ j \in Nat /\ j + 1 \in Nat
          /\ (i = Len(s) + 1 /\ j = 1) \/ i > Len(s) + 1
      BY <1>3, <2>2, <3>6
    <3>2. d[j] >= d[j + 1] + Refusal(t[j]) /\ Refusal(t[j]) \in {0, 1}
      BY <1>2, <3>1, TallyParts
    <3>3. y[i + 1] = d[j + 1] /\ d[j] \in Nat /\ d[j + 1] \in Nat /\ y[i] \in Nat
      <4>1. y[i + 1] = d[(i + 1) - Len(s)]
        BY <1>5, <3>1
      <4> QED
        BY <1>4, <1>5, <3>1, <4>1
    <3>4. y[i] >= d[j]
      <4>1. CASE i = Len(s) + 1 /\ j = 1
        <5>1. y[i] = c[i] + n /\ c[i] \in Nat /\ d[j] = n
          <6>1. i <= Len(s) + 1
            BY <1>3, <4>1
          <6> QED
            BY <1>2, <1>4, <1>5, <3>1, <4>1, <6>1
        <5> QED
          BY <5>1
      <4>2. CASE i > Len(s) + 1
        <5>1. y[i] = d[j]
          BY <1>5, <3>1, <3>6, <4>2
        <5> QED
          BY <3>3, <5>1
      <4> QED
        BY <3>1, <4>1, <4>2
    <3>5. Refusal(st[i]) = Refusal(t[j])
      BY <3>1
    <3> QED
      BY <3>2, <3>3, <3>4, <3>5
  <2> QED
    BY <2>1, <2>2
<1>7. y[1] = k + n
  <2>1. 1 \in Nat /\ 1 <= Len(s) + 1
    BY <1>3
  <2> QED
    BY <1>1, <1>5, <2>1
<1> QED
  BY <1>5, <1>6, <1>7 DEF Refuses, Tally, st

(* A message lost.                                                         *)
LEMMA RefusesLost ==
  ASSUME NEW s \in Seq(Message), NEW k \in Nat, Refuses(k, s), NEW p \in 1 .. Len(s)
  PROVE  Refuses(k, RemoveAt(s, p))
<1>1. PICK c : Tally(c, s) /\ c[1] = k
  BY DEF Refuses
<1> DEFINE t == RemoveAt(s, p)
           y == [i \in Nat |-> IF i <= p THEN c[i] ELSE c[i + 1]]
<1>2. /\ Len(t) = Len(s) - 1 /\ Len(s) \in Nat
      /\ \A i \in 1 .. Len(s) - 1 : t[i] = IF i < p THEN s[i] ELSE s[i + 1]
  BY RemoveAtType, LenProperties
<1> HIDE DEF t
<1>7. p \in Nat /\ p >= 1 /\ p <= Len(s)
  BY <1>2
<1>3. \A i \in Nat : c[i] \in Nat
  BY <1>1, TallyParts
<1>4. /\ y \in [Nat -> Nat]
      /\ \A i \in Nat : i <= p => y[i] = c[i]
      /\ \A i \in Nat : i > p => y[i] = c[i + 1]
  BY <1>3
<1> HIDE DEF y
<1>5. ASSUME NEW i \in 1 .. Len(t)
      PROVE  y[i] >= y[i + 1] + Refusal(t[i])
  <2>1. /\ i \in 1 .. Len(s) /\ i + 1 \in 1 .. Len(s) /\ i \in Nat /\ i + 1 \in Nat
        /\ i + 1 + 1 \in Nat /\ p \in Nat
    BY <1>2
  <2>2. /\ c[i] >= c[i + 1] + Refusal(s[i]) /\ Refusal(s[i]) \in {0, 1}
        /\ c[i + 1] >= c[i + 1 + 1] + Refusal(s[i + 1]) /\ Refusal(s[i + 1]) \in {0, 1}
        /\ c[i] \in Nat /\ c[i + 1] \in Nat /\ c[i + 1 + 1] \in Nat
    BY <1>1, <1>3, <2>1, TallyParts
  <2>3. CASE i < p
    <3>1. t[i] = s[i] /\ i <= p /\ i + 1 <= p
      BY <1>2, <1>7, <2>1, <2>3
    <3>2. y[i] = c[i] /\ y[i + 1] = c[i + 1]
      BY <1>4, <2>1, <3>1
    <3> QED
      BY <2>2, <3>1, <3>2
  <2>4. CASE ~(i < p)
    <3>1. t[i] = s[i + 1] /\ i + 1 > p /\ (i <= p \/ i > p)
      BY <1>2, <1>7, <2>1, <2>4
    <3>2. y[i + 1] = c[i + 1 + 1] /\ (y[i] = c[i] \/ y[i] = c[i + 1])
      BY <1>4, <2>1, <3>1
    <3> QED
      BY <2>2, <3>1, <3>2, SMTT(60)
  <2> QED
    BY <2>3, <2>4
<1>6. y[1] = k
  BY <1>1, <1>4, <1>7
<1> QED
  BY <1>4, <1>5, <1>6 DEF Refuses, Tally, t

(* An answer damaged.                                                      *)
LEMMA RefusesChanged ==
  ASSUME NEW s \in Seq(Message), NEW k \in Nat, Refuses(k, s), NEW p \in 1 .. Len(s),
         NEW m \in Message, m # Minus
  PROVE  Refuses(k, [s EXCEPT ![p] = m])
<1>1. PICK c : Tally(c, s) /\ c[1] = k
  BY DEF Refuses
<1> DEFINE t == [s EXCEPT ![p] = m]
<1>2. /\ Len(t) = Len(s) /\ t[p] = m /\ Len(s) \in Nat
      /\ \A i \in 1 .. Len(s) : i # p => t[i] = s[i]
  BY ExceptSeq, LenProperties
<1> HIDE DEF t
<1>3. ASSUME NEW i \in 1 .. Len(t) PROVE c[i] >= c[i + 1] + Refusal(t[i])
  <2>1. c[i] >= c[i + 1] + Refusal(s[i]) /\ Refusal(s[i]) \in {0, 1}
        /\ c[i] \in Nat /\ c[i + 1] \in Nat
    <3>1. i \in 1 .. Len(s) /\ i \in Nat /\ i + 1 \in Nat
      BY <1>2
    <3> QED
      BY <1>1, <3>1, TallyParts
  <2>2. t[i] = s[i] \/ Refusal(t[i]) = 0
    BY <1>2 DEF Refusal
  <2> QED
    BY <2>1, <2>2
<1> QED
  BY <1>1, <1>3 DEF Refuses, Tally, t

(* What handle_error sends is a refusal at most, and none for no error.    *)
LEMMA FlushedRefuses ==
  ASSUME NEW len \in Nat
  PROVE  \E f \in {0, 1} : Refuses(f, Flushed(len)) /\ (len = 0 => f = 0)
BY RefusesFew DEF Flushed, Refusal

-----------------------------------------------------------------------------
(* A line on which a whole packet is, and one on which an acknowledgement  *)
(* or a refusal is.                                                        *)
Whole(s) ==
  \E i, j \in 1 .. Len(s) : /\ i < j /\ s[i] = Dollar /\ IsHash(s[j])
                            /\ \A k \in i + 1 .. j - 1 : ~Ends(s[k])

Replied(s) == \E i \in 1 .. Len(s) : s[i] \in {Plus, Minus}

(* More behind a whole packet leaves it whole.                             *)
LEMMA WholeJoin ==
  ASSUME NEW s \in Seq(Unit), NEW t \in Seq(Unit)
  PROVE  Whole(s) \/ Whole(t) => Whole(s \o t)
<1> DEFINE st == s \o t
<1>1. /\ Len(st) = Len(s) + Len(t) /\ Len(s) \in Nat /\ Len(t) \in Nat
      /\ \A i \in 1 .. Len(s) + Len(t) :
           st[i] = IF i <= Len(s) THEN s[i] ELSE t[i - Len(s)]
  BY ConcatProperties, LenProperties
<1> HIDE DEF st
<1>2. \A i \in 1 .. Len(s) : i \in 1 .. Len(st) /\ st[i] = s[i]
  BY <1>1
<1>3. \A i \in 1 .. Len(t) : i + Len(s) \in 1 .. Len(st) /\ st[i + Len(s)] = t[i]
  <2> TAKE i \in 1 .. Len(t)
  <2>1. /\ i + Len(s) \in 1 .. Len(s) + Len(t) /\ ~(i + Len(s) <= Len(s))
        /\ (i + Len(s)) - Len(s) = i
    BY <1>1
  <2> QED
    BY <1>1, <2>1
<1>4. ASSUME Whole(s) PROVE Whole(st)
  <2>1. PICK i \in 1 .. Len(s), j \in 1 .. Len(s) :
               /\ i < j /\ s[i] = Dollar /\ IsHash(s[j])
               /\ \A k \in i + 1 .. j - 1 : ~Ends(s[k])
    BY <1>4 DEF Whole
  <2>2. \A k \in i + 1 .. j - 1 : k \in 1 .. Len(s)
    BY <1>1
  <2> QED
    BY <1>2, <2>1, <2>2 DEF Whole
<1>5. ASSUME Whole(t) PROVE Whole(st)
  <2>1. PICK i \in 1 .. Len(t), j \in 1 .. Len(t) :
               /\ i < j /\ t[i] = Dollar /\ IsHash(t[j])
               /\ \A k \in i + 1 .. j - 1 : ~Ends(t[k])
    BY <1>5 DEF Whole
  <2>2. PICK a, b : a = i + Len(s) /\ b = j + Len(s)
    OBVIOUS
  <2>3. /\ a \in 1 .. Len(st) /\ b \in 1 .. Len(st) /\ a < b /\ st[a] = Dollar /\ IsHash(st[b])
    BY <1>1, <1>3, <2>1, <2>2
  <2>4. ASSUME NEW k \in a + 1 .. b - 1 PROVE ~Ends(st[k])
    <3>1. /\ k - Len(s) \in i + 1 .. j - 1 /\ k - Len(s) \in 1 .. Len(t)
          /\ (k - Len(s)) + Len(s) = k
      BY <1>1, <2>2
    <3> QED
      BY <1>3, <2>1, <3>1
  <2> QED
    BY <2>3, <2>4 DEF Whole
<1> QED
  BY <1>4, <1>5 DEF st

(* What a debugger sends is whole.                                         *)
LEMMA WholePacket ==
  ASSUME NEW n \in 1 .. Requests
  PROVE  Whole(Packet(n))
<1>1. PICK p : p = Packet(n)
  OBVIOUS
<1>2. /\ IsHash(Hash(n)) /\ ~Ends(Body(n)) /\ ~Ends(Minus) /\ ~Ends(Other)
  <2>1. ~IsHash(Body(n)) /\ ~IsHash(Minus) /\ ~IsHash(Other) /\ IsHash(Hash(n))
    BY Units
  <2>2. \A u \in {Body(n), Minus, Other} : u \notin {Dollar, BadHash, EOF}
    BY Kinds
  <2> QED
    BY <2>1, <2>2 DEF Ends
<1>3. CASE n \in Dashed
  <2>1. p = <<Dollar, Body(n), Minus, Other, Hash(n)>>
    BY <1>1, <1>3, PacketUnits
  <2>2. /\ Len(p) = 5 /\ p[1] = Dollar /\ p[2] = Body(n) /\ p[3] = Minus /\ p[4] = Other
        /\ p[5] = Hash(n)
    BY <2>1
  <2>3. \A k \in 2 .. 4 : ~Ends(p[k])
    <3>1. \A k \in 2 .. 4 : k = 2 \/ k = 3 \/ k = 4
      OBVIOUS
    <3> QED
      BY <1>2, <2>2, <3>1
  <2>4. 1 \in 1 .. Len(p) /\ 5 \in 1 .. Len(p) /\ 1 + 1 = 2 /\ 5 - 1 = 4 /\ 1 < 5
    BY <2>2
  <2> QED
    BY <1>1, <1>2, <2>2, <2>3, <2>4 DEF Whole
<1>4. CASE n \notin Dashed
  <2>1. p = <<Dollar, Body(n), Hash(n)>>
    BY <1>1, <1>4, PacketUnits
  <2>2. Len(p) = 3 /\ p[1] = Dollar /\ p[2] = Body(n) /\ p[3] = Hash(n)
    BY <2>1
  <2>3. \A k \in 2 .. 2 : ~Ends(p[k])
    BY <1>2, <2>2
  <2>4. 1 \in 1 .. Len(p) /\ 3 \in 1 .. Len(p) /\ 1 + 1 = 2 /\ 3 - 1 = 2 /\ 1 < 3
    BY <2>2
  <2> QED
    BY <1>1, <1>2, <2>2, <2>3, <2>4 DEF Whole
<1> QED
  BY <1>3, <1>4

(* A first unit that begins no whole packet takes none away.               *)
LEMMA WholeTail ==
  ASSUME NEW s \in Seq(Unit), s # <<>>, Whole(s),
         Head(s) # Dollar \/ \E e \in 2 .. Len(s) : /\ Ends(s[e]) /\ ~IsHash(s[e])
                                                    /\ \A k \in 2 .. e - 1 : ~Ends(s[k])
  PROVE  Whole(Tail(s))
<1>1. PICK i \in 1 .. Len(s), j \in 1 .. Len(s) :
             /\ i < j /\ s[i] = Dollar /\ IsHash(s[j])
             /\ \A k \in i + 1 .. j - 1 : ~Ends(s[k])
  BY DEF Whole
<1>2. /\ Len(s) \in Nat /\ Head(s) = s[1] /\ Len(Tail(s)) = Len(s) - 1
      /\ \A k \in 1 .. Len(s) - 1 : Tail(s)[k] = s[k + 1]
  BY HeadTailProperties, LenProperties, EmptySeq
<1>3. i # 1
  <2>1. SUFFICES ASSUME i = 1 PROVE FALSE
    OBVIOUS
  <2>2. PICK e \in 2 .. Len(s) : /\ Ends(s[e]) /\ ~IsHash(s[e])
                                 /\ \A k \in 2 .. e - 1 : ~Ends(s[k])
    BY <1>1, <1>2, <2>1
  <2>3. Ends(s[j]) /\ e # j /\ (e < j \/ j < e)
    BY <1>1, <1>2, <2>2 DEF Ends
  <2>4. CASE e < j
    <3>1. e \in i + 1 .. j - 1
      BY <1>2, <2>1, <2>4
    <3> QED
      BY <1>1, <2>2, <3>1
  <2>5. CASE j < e
    <3>1. j \in 2 .. e - 1
      BY <1>1, <1>2, <2>1, <2>5
    <3> QED
      BY <2>2, <2>3, <3>1
  <2> QED
    BY <2>3, <2>4, <2>5
<1>4. PICK a, b : a = i - 1 /\ b = j - 1
  OBVIOUS
<1>5. /\ a \in 1 .. Len(Tail(s)) /\ b \in 1 .. Len(Tail(s)) /\ a < b
      /\ a + 1 = i /\ b + 1 = j
  BY <1>1, <1>2, <1>3, <1>4
<1>6. Tail(s)[a] = Dollar /\ IsHash(Tail(s)[b])
  BY <1>1, <1>2, <1>5
<1>7. ASSUME NEW k \in a + 1 .. b - 1 PROVE ~Ends(Tail(s)[k])
  <2>1. k + 1 \in i + 1 .. j - 1 /\ k \in 1 .. Len(s) - 1
    BY <1>2, <1>4, <1>5
  <2> QED
    BY <1>1, <1>2, <2>1
<1> QED
  BY <1>5, <1>6, <1>7 DEF Whole

(* A damaged body is still the body of a whole packet.                     *)
LEMMA WholeDamaged ==
  ASSUME NEW s \in Seq(Unit), Whole(s), NEW p \in 1 .. Len(s), s[p][1] = "body"
  PROVE  Whole([s EXCEPT ![p] = Body(0)])
<1> DEFINE t == [s EXCEPT ![p] = Body(0)]
<1>1. Body(0) \in Unit /\ ~IsHash(Body(0)) /\ ~Ends(Body(0))
  <2>1. 0 \in 0 .. Requests
    BY LinkAssumption
  <2> QED
    BY <2>1, Units, Kinds DEF Ends
<1>2. /\ Len(t) = Len(s) /\ t[p] = Body(0) /\ Len(s) \in Nat
      /\ \A i \in 1 .. Len(s) : i # p => t[i] = s[i]
  BY <1>1, ExceptSeq, LenProperties
<1> HIDE DEF t
<1>3. PICK i \in 1 .. Len(s), j \in 1 .. Len(s) :
             /\ i < j /\ s[i] = Dollar /\ IsHash(s[j])
             /\ \A k \in i + 1 .. j - 1 : ~Ends(s[k])
  BY DEF Whole
<1>4. i # p /\ j # p
  BY <1>3, Kinds DEF IsHash
<1>5. \A k \in i + 1 .. j - 1 : ~Ends(t[k])
  <2> TAKE k \in i + 1 .. j - 1
  <2>1. k \in 1 .. Len(s)
    BY <1>2
  <2> QED
    BY <1>1, <1>2, <1>3, <2>1
<1>6. t[i] = Dollar /\ IsHash(t[j])
  BY <1>2, <1>3, <1>4
<1> QED
  BY <1>2, <1>3, <1>5, <1>6 DEF Whole, t

(* Replies among more messages, and behind a message that is none.         *)
LEMMA RepliedJoin ==
  ASSUME NEW s \in Seq(Message), NEW t \in Seq(Message)
  PROVE  Replied(s) \/ Replied(t) => Replied(s \o t)
<1> DEFINE st == s \o t
<1>1. /\ Len(st) = Len(s) + Len(t) /\ Len(s) \in Nat /\ Len(t) \in Nat
      /\ \A i \in 1 .. Len(s) + Len(t) :
           st[i] = IF i <= Len(s) THEN s[i] ELSE t[i - Len(s)]
  BY ConcatProperties, LenProperties
<1> HIDE DEF st
<1>2. ASSUME Replied(s) PROVE Replied(st)
  <2>1. PICK i \in 1 .. Len(s) : s[i] \in {Plus, Minus}
    BY <1>2 DEF Replied
  <2>2. i \in 1 .. Len(st) /\ st[i] = s[i]
    BY <1>1
  <2> QED
    BY <2>1, <2>2 DEF Replied
<1>3. ASSUME Replied(t) PROVE Replied(st)
  <2>1. PICK i \in 1 .. Len(t) : t[i] \in {Plus, Minus}
    BY <1>3 DEF Replied
  <2>2. i + Len(s) \in 1 .. Len(s) + Len(t) /\ ~(i + Len(s) <= Len(s))
        /\ (i + Len(s)) - Len(s) = i
    BY <1>1
  <2>3. i + Len(s) \in 1 .. Len(st) /\ st[i + Len(s)] = t[i]
    BY <1>1, <2>2
  <2> QED
    BY <2>1, <2>3 DEF Replied
<1> QED
  BY <1>2, <1>3 DEF st

(* A reply behind an answer that is read stays.                            *)
LEMMA RepliedTail ==
  ASSUME NEW s \in Seq(Message), s # <<>>, Replied(s), Head(s) \notin {Plus, Minus}
  PROVE  Replied(Tail(s))
<1>1. /\ Len(s) \in Nat /\ Head(s) = s[1] /\ Len(Tail(s)) = Len(s) - 1
      /\ \A k \in 1 .. Len(s) - 1 : Tail(s)[k] = s[k + 1]
  BY HeadTailProperties, LenProperties, EmptySeq
<1>2. PICK i \in 1 .. Len(s) : s[i] \in {Plus, Minus}
  BY DEF Replied
<1>3. i # 1
  BY <1>1, <1>2
<1>4. i - 1 \in 1 .. Len(Tail(s)) /\ (i - 1) + 1 = i /\ i - 1 \in 1 .. Len(s) - 1
  BY <1>1, <1>3
<1>5. Tail(s)[i - 1] = s[i]
  BY <1>1, <1>4
<1> QED
  BY <1>2, <1>4, <1>5 DEF Replied

(* A damaged answer takes no reply away.                                   *)
LEMMA RepliedDamaged ==
  ASSUME NEW s \in Seq(Message), Replied(s), NEW p \in 1 .. Len(s), IsAnswer(s[p]),
         NEW m \in Message
  PROVE  Replied([s EXCEPT ![p] = m])
<1> DEFINE t == [s EXCEPT ![p] = m]
<1>1. Len(t) = Len(s) /\ \A i \in 1 .. Len(s) : i # p => t[i] = s[i]
  BY ExceptSeq
<1> HIDE DEF t
<1>2. PICK i \in 1 .. Len(s) : s[i] \in {Plus, Minus}
  BY DEF Replied
<1>3. i # p
  BY <1>2, Messages
<1> QED
  BY <1>1, <1>2, <1>3 DEF Replied, t

(* Single messages, and what handle_error sends.                           *)
LEMMA RepliedOne == Replied(<<Plus>>) /\ Replied(<<Minus>>)
<1>1. \A m : Len(<<m>>) = 1 /\ <<m>>[1] = m /\ 1 \in 1 .. 1
  OBVIOUS
<1> QED
  BY <1>1 DEF Replied

-----------------------------------------------------------------------------
(* The account of a session: what was executed, is being executed, may be  *)
(* refused for the errors kept (h) and for what is on the line (v), was    *)
(* refused (k), and the packet that has to be sent again when none is on   *)
(* its way (n), against what the debugger asked and what the line broke.   *)
Due == IF serving = 0 THEN 0 ELSE 1

Missing == waiting = "ack" /\ ~Whole(input) /\ ~Replied(output)

Settles(v, k, h, n) ==
  /\ Covers(v, input)
  /\ k \in Nat /\ Refuses(k, output)
  /\ h \in Nat
  /\ n \in {0, 1} /\ (Missing => n = 1)
  /\ \/ /\ errors = 2 * h
        /\ Len(executed) + Due + h + v.even + k + n <= asked + 2 * disturbances
     \/ /\ errors + 1 = 2 * h
        /\ Len(executed) + Due + h + v.odd + k + n <= asked + 2 * disturbances

Settled == \E v, k, h, n : Settles(v, k, h, n)

(* The end of the stream is read only from a debugger that has left.       *)
Ended(s) == \E i \in 1 .. Len(s) : s[i] = EOF

Closed == scanner = "returned" \/ Ended(input) => waiting = "gone"

Account == LinkTyped /\ Closed /\ Settled

(* The numbers of the account.                                             *)
LEMMA AccountNumbers ==
  ASSUME LinkTyped
  PROVE  /\ Len(executed) \in Nat /\ Due \in {0, 1} /\ asked \in Nat /\ disturbances \in Nat
         /\ errors \in Nat /\ errors <= MaxErrorSize - 1 /\ MaxErrorSize \in Nat
         /\ input \in Seq(Unit) /\ output \in Seq(Message)
         /\ Len(input) \in Nat /\ Len(output) \in Nat
         /\ DOMAIN input = 1 .. Len(input) /\ DOMAIN output = 1 .. Len(output)
         /\ waiting \in {"ack", "answer"} => asked \in 1 .. Requests
<1>1. /\ executed \in Seq(1 .. Requests) /\ asked \in 0 .. Requests
      /\ disturbances \in 0 .. MaxDisturb /\ errors \in 0 .. MaxErrorSize - 1
      /\ input \in Seq(Unit) /\ output \in Seq(Message) /\ taken \in Seq(1 .. Requests)
      /\ waiting \in {"ack", "answer"} => Len(taken) = asked - 1
  BY DEF LinkTyped, LinkTypeOK, Counted
<1>2. Due \in {0, 1}
  BY DEF Due
<1>3. waiting \in {"ack", "answer"} => asked \in 1 .. Requests
  BY <1>1, LenProperties, LinkAssumption
<1> QED
  BY <1>1, <1>2, <1>3, LenProperties, LinkAssumption

(* A session starts settled.                                               *)
LEMMA InitAccount == ASSUME LinkInit PROVE Account
<1>1. LinkTyped
  BY InitTyped
<1>2. /\ input = <<>> /\ output = <<>> /\ errors = 0 /\ serving = 0 /\ executed = <<>>
      /\ asked = 0 /\ disturbances = 0 /\ waiting = "nothing" /\ scanner = "scanning"
  BY DEF LinkInit
<1>3. Closed
  BY <1>2 DEF Closed, Ended
<1>4. Same(0).even = 0
  BY DEF Same
<1>5. Len(executed) = 0 /\ Due = 0 /\ ~Missing
  BY <1>2 DEF Due, Missing
<1>6. Settles(Same(0), 0, 0, 0)
  BY <1>2, <1>4, <1>5, CoversNothing, RefusesFew DEF Settles
<1> QED
  BY <1>1, <1>3, <1>6 DEF Account, Settled

(* A settled account bounds what was executed.                             *)
LEMMA AccountBounds == ASSUME Account PROVE RepetitionsBounded
<1>1. PICK v, k, h, n : Settles(v, k, h, n)
  BY DEF Account, Settled
<1>2. v \in Costs /\ v.even \in Nat /\ v.odd \in Nat
  <2>1. v \in Costs
    BY <1>1, CoversCosts DEF Settles
  <2> QED
    BY <2>1 DEF Costs
<1>3. k \in Nat /\ h \in Nat /\ n \in {0, 1}
  BY <1>1 DEF Settles
<1>4. PICK c \in Nat : Len(executed) + Due + h + c + k + n <= asked + 2 * disturbances
  BY <1>1, <1>2 DEF Settles
<1>5. Len(executed) \in Nat /\ Due \in Nat /\ asked \in Nat /\ disturbances \in Nat
  BY AccountNumbers DEF Account
<1>6. Len(executed) <= asked + 2 * disturbances
  BY <1>3, <1>4, <1>5
<1> QED
  BY <1>6 DEF RepetitionsBounded

(* The parts of a ledger.                                                  *)
LEMMA SettlesParts ==
  ASSUME LinkTyped, NEW v, NEW k, NEW h, NEW n, Settles(v, k, h, n)
  PROVE  /\ v \in Costs /\ v.even \in Int /\ v.odd \in Int /\ Covers(v, input)
         /\ k \in Nat /\ Refuses(k, output) /\ h \in Nat
         /\ n \in {0, 1} /\ (Missing => n = 1)
         /\ h = 0 => errors = 0
BY CoversCosts, CostNumbers, AccountNumbers DEF Settles

(* What handle_error sends is paid by the errors kept.                     *)
LEMMA FlushSettles ==
  ASSUME LinkTyped, NEW k \in Nat, Refuses(k, output), NEW h \in Nat, h = 0 => errors = 0,
         NEW j \in Nat, NEW msg \in Seq(Message), Refuses(j, msg)
  PROVE  /\ output \o Flushed(errors) \in Seq(Message)
         /\ \E f \in {0, 1} : f <= h /\ Refuses(k + f, output \o Flushed(errors))
         /\ \E f \in {0, 1} : f <= h /\ Refuses(k + f + j, output \o Flushed(errors) \o msg)
         /\ Replied(output) => /\ Replied(output \o Flushed(errors))
                               /\ Replied(output \o Flushed(errors) \o msg)
         /\ Replied(msg) => Replied(output \o Flushed(errors) \o msg)
<1>1. output \in Seq(Message) /\ errors \in Nat /\ Flushed(errors) \in Seq(Message)
  BY AccountNumbers, FlushedType
<1>2. output \o Flushed(errors) \in Seq(Message)
  BY <1>1, ConcatProperties
<1>3. PICK f \in {0, 1} : Refuses(f, Flushed(errors)) /\ (errors = 0 => f = 0)
  BY <1>1, FlushedRefuses
<1>4. f \in Nat /\ f <= h /\ k + f \in Nat
  BY <1>3
<1>5. Refuses(k + f, output \o Flushed(errors))
  BY <1>1, <1>3, <1>4, RefusesJoin
<1>6. Refuses(k + f + j, output \o Flushed(errors) \o msg)
  BY <1>2, <1>4, <1>5, RefusesJoin
<1>7. Replied(output) => Replied(output \o Flushed(errors))
  BY <1>1, RepliedJoin
<1>8. Replied(output \o Flushed(errors)) \/ Replied(msg)
        => Replied(output \o Flushed(errors) \o msg)
  BY <1>2, RepliedJoin
<1> QED
  BY <1>2, <1>4, <1>5, <1>6, <1>7, <1>8

(* The scanner's rules at the head of the input, in general: the costs     *)
(* fall, what is flushed is paid by the errors.                            *)
LEMMA ScanSettles ==
  ASSUME LinkTyped, NEW v, NEW k, NEW h, NEW n, Settles(v, k, h, n),
         NEW y, Covers(y, input'), v.even >= y.even + Due', v.odd >= y.even + Due',
         NEW kk \in Nat, Refuses(kk, output'), kk <= k + h,
         errors' = 0, serving = 0, Due' \in {0, 1}, Missing' => Missing,
         UNCHANGED <<executed, asked, disturbances>>
  PROVE  Settled'
<1>1. /\ v.even \in Int /\ v.odd \in Int /\ k \in Nat /\ h \in Nat
      /\ n \in {0, 1} /\ (Missing => n = 1)
  BY SettlesParts
<1>2. y.even \in Int
  BY CoversCosts, CostNumbers
<1>3. Due = 0
  BY DEF Due
<1>4. /\ Len(executed) \in Nat /\ asked \in Nat /\ disturbances \in Nat
  BY AccountNumbers
<1>5. PICK c \in {v.even, v.odd} :
        Len(executed) + Due + h + c + k + n <= asked + 2 * disturbances
  BY DEF Settles
<1>8. c \in Int /\ c >= y.even + Due'
  BY <1>1
<1>9. PICK d \in {0, 1} : d = Due'
  OBVIOUS
<1>6. Len(executed) + Due' + 0 + y.even + kk + n <= asked + 2 * disturbances
  <2>1. Len(executed) + h + c + k + n <= asked + 2 * disturbances
    BY <1>1, <1>3, <1>4, <1>5, <1>8
  <2>2. c >= y.even + d
    BY <1>8, <1>9
  <2>3. Len(executed) + d + 0 + y.even + kk + n <= asked + 2 * disturbances
    BY <1>1, <1>2, <1>4, <1>8, <2>1, <2>2, SMTT(60)
  <2> QED
    BY <1>9, <2>3
<1>7. Settles(y, kk, 0, n)'
  BY <1>1, <1>6 DEF Settles
<1> QED
  BY <1>7 DEF Settled

(* The first unit of the input.                                            *)
LEMMA ScanHead ==
  ASSUME LinkTyped, Scanning
  PROVE  /\ input \in Seq(Unit) /\ input # <<>> /\ Len(input) \in Nat /\ Len(input) >= 1
         /\ Head(input) = input[1] /\ Head(input) \in Unit
         /\ Tail(input) \in Seq(Unit)
BY AccountNumbers, HeadTailProperties, EmptySeq, ElementOfSeq DEF Scanning

(* "+" and "-" pay with a refusal for the errors before them.              *)
LEMMA AcknowledgeSettles ==
  ASSUME LinkTyped, Settled, ScanPlus \/ ScanMinus
  PROVE  Settled'
<1>1. PICK v, k, h, n : Settles(v, k, h, n)
  BY DEF Settled
<1>2. PICK msg \in Seq(Message) :
        /\ Refuses(0, msg)
        /\ \/ output' = output \o Flushed(errors)
           \/ output' = output \o Flushed(errors) \o msg
  <2>1. CASE ScanPlus
    BY <2>1, RefusesFew, EmptySeq DEF ScanPlus
  <2>2. CASE ScanMinus
    <3>1. output' = output \o Flushed(errors)
                      \o (IF packet = 0 THEN <<>> ELSE <<Answer(packet)>>)
      BY <2>2 DEF ScanMinus
    <3>2. Answer(packet) \in Message /\ Answer(packet) # Minus
      BY Messages, Kinds DEF LinkTyped, LinkTypeOK
    <3>3. Refuses(0, <<Answer(packet)>>) /\ <<Answer(packet)>> \in Seq(Message)
      BY <3>2, RefusesFew DEF Refusal
    <3>4. Refuses(0, <<>>) /\ <<>> \in Seq(Message)
      BY RefusesFew
    <3> QED
      BY <3>1, <3>3, <3>4
  <2> QED
    BY <2>1, <2>2
<1>3. /\ Scanning /\ Head(input) \in {Plus, Minus} /\ input' = Tail(input) /\ errors' = 0
      /\ serving' = serving /\ waiting' = waiting
      /\ UNCHANGED <<executed, asked, disturbances>>
  BY DEF ScanPlus, ScanMinus, debuggerVars, faultVars
<1>4. serving = 0 /\ Due' = 0
  BY <1>3 DEF Scanning, Due
<1>5. PICK y \in Costs : Covers(y, Tail(input)) /\ AtLeast(v, Before(Head(input), y))
  BY <1>1, <1>3, ScanHead, CoversTail, SettlesParts
<1>6. v.even >= y.even /\ v.odd >= y.even /\ y.even \in Int
  BY <1>3, <1>5, BeforeKinds, CostNumbers DEF AtLeast
<1>7. PICK kk \in Nat : Refuses(kk, output') /\ kk <= k + h
  <2>1. k \in Nat /\ h \in Nat /\ Refuses(k, output) /\ (h = 0 => errors = 0)
    BY <1>1, SettlesParts
  <2>2. /\ \E f \in {0, 1} : f <= h /\ Refuses(k + f, output \o Flushed(errors))
        /\ \E f \in {0, 1} : f <= h /\ Refuses(k + f + 0, output \o Flushed(errors) \o msg)
    BY <1>2, <2>1, FlushSettles
  <2>3. \A f \in {0, 1} : f <= h => k + f \in Nat /\ k + f + 0 = k + f /\ k + f <= k + h
    BY <2>1
  <2> QED
    BY <1>2, <2>2, <2>3
<1>8. Missing' => Missing
  <2>1. Replied(output) => Replied(output')
    <3>1. k \in Nat /\ h \in Nat /\ Refuses(k, output) /\ (h = 0 => errors = 0)
      BY <1>1, SettlesParts
    <3> QED
      BY <1>2, <3>1, FlushSettles
  <2>2. Whole(input) => Whole(Tail(input))
    BY <1>3, Kinds, ScanHead, WholeTail
  <2> QED
    BY <1>3, <2>1, <2>2 DEF Missing
<1>9. v.even >= y.even + Due' /\ v.odd >= y.even + Due' /\ Due' \in {0, 1}
  BY <1>4, <1>6
<1>10. Covers(y, input')
  BY <1>3, <1>5
<1> QED
  BY <1>1, <1>3, <1>4, <1>7, <1>8, <1>9, <1>10, ScanSettles

(* A packet taken is paid for where it began: it is executed or refused.   *)
LEMMA PacketSettles ==
  ASSUME LinkTyped, Settled, ScanPacket
  PROVE  Settled'
<1>1. PICK v, k, h, n : Settles(v, k, h, n)
  BY DEF Settled
<1>2. /\ Scanning /\ Head(input) = Dollar /\ MatchEnd # 0 /\ IsHash(input[MatchEnd])
      /\ input' = SubSeq(input, MatchEnd + 1, Len(input)) /\ errors' = 0
      /\ waiting' = waiting /\ UNCHANGED <<executed, asked, disturbances>>
  BY DEF ScanPacket, debuggerVars, faultVars
<1>3. PICK msg \in {<<Plus>>, <<Minus>>}, d \in {0, 1}, j \in {0, 1} :
        /\ output' = output \o Flushed(errors) \o msg
        /\ d = Due' /\ Refuses(j, msg) /\ j + d <= 1
  <2>1. \/ output' = output \o Flushed(errors) \o <<Plus>>
        \/ output' = output \o Flushed(errors) \o <<Minus>> /\ serving' = 0
    BY DEF ScanPacket
  <2>2. Refuses(0, <<Plus>>) /\ Refuses(1, <<Minus>>)
    BY RefusesFew, Kinds DEF Refusal
  <2>3. Due' \in {0, 1} /\ (serving' = 0 => Due' = 0)
    BY DEF Due
  <2>4. \A d \in {0, 1} : 0 + d <= 1 /\ (d = 0 => 1 + d <= 1)
    OBVIOUS
  <2> QED
    BY <2>1, <2>2, <2>3, <2>4
<1>4. serving = 0
  BY <1>2 DEF Scanning
<1>5. /\ MatchEnd \in 2 .. Len(input) /\ IsHash(input[MatchEnd])
      /\ \A i \in 2 .. MatchEnd - 1 : ~Ends(input[i])
  BY <1>2, AccountNumbers, MatchEnds
<1>6. PICK y : /\ Covers(y, input')
               /\ v.even >= y.even + 1 /\ v.odd >= y.even + 1
  BY <1>1, <1>2, <1>5, ScanHead, SettlesParts, CoversMatched
<1>7. y.even \in Int /\ v.even \in Int /\ v.odd \in Int /\ k \in Nat /\ h \in Nat
      /\ Refuses(k, output) /\ (h = 0 => errors = 0) /\ n \in {0, 1}
  BY <1>1, <1>6, SettlesParts, CoversCosts, CostNumbers
<1>8. /\ msg \in Seq(Message) /\ Replied(msg) /\ j \in Nat
      /\ output' = output \o Flushed(errors) \o msg /\ Refuses(j, msg)
  <2>1. <<Plus>> \in Seq(Message) /\ <<Minus>> \in Seq(Message)
    BY Messages
  <2>2. msg = <<Plus>> \/ msg = <<Minus>>
    OBVIOUS
  <2>3. msg \in Seq(Message) /\ Replied(msg)
    BY <2>1, <2>2, RepliedOne
  <2> QED
    BY <1>3, <2>3
<1>17. \E f \in {0, 1} : f <= h /\ Refuses(k + f + j, output \o Flushed(errors) \o msg)
  <2>1. k \in Nat /\ h \in Nat /\ Refuses(k, output) /\ (h = 0 => errors = 0)
    BY <1>7
  <2> QED
    BY <1>8, <2>1, FlushSettles
<1>9. PICK f \in {0, 1} : f <= h /\ Refuses(k + f + j, output')
  BY <1>8, <1>17
<1>10. ~Missing'
  <2>1. k \in Nat /\ h \in Nat /\ Refuses(k, output) /\ (h = 0 => errors = 0)
    BY <1>7
  <2>2. Replied(output')
    BY <1>8, <2>1, FlushSettles
  <2> QED
    BY <2>2 DEF Missing
<1>11. k + f + j \in Nat
  BY <1>7
<1>12. /\ Len(executed) \in Nat /\ asked \in Nat /\ disturbances \in Nat /\ Due = 0
  BY <1>4, AccountNumbers DEF Due
<1>13. PICK c \in {v.even, v.odd} :
         Len(executed) + Due + h + c + k + n <= asked + 2 * disturbances
  BY <1>1 DEF Settles
<1>14. c \in Int /\ c >= y.even + 1
  BY <1>6, <1>7
<1>15. Len(executed) + d + 0 + y.even + (k + f + j) + 0 <= asked + 2 * disturbances
  <2>1. Len(executed) + h + c + k <= asked + 2 * disturbances
    BY <1>7, <1>12, <1>13, <1>14
  <2>2. j + d <= 1 /\ f <= h
    BY <1>3, <1>9
  <2> QED
    BY <1>7, <1>12, <1>14, <2>1, <2>2
<1>16. Settles(y, k + f + j, 0, 0)'
  BY <1>2, <1>3, <1>6, <1>9, <1>10, <1>11, <1>15 DEF Settles
<1> QED
  BY <1>16 DEF Settled

(* An end of line costs nothing.                                           *)
LEMMA NewlineSettles ==
  ASSUME LinkTyped, Settled, ScanNewline
  PROVE  Settled'
<1>1. PICK v, k, h, n : Settles(v, k, h, n)
  BY DEF Settled
<1>2. /\ Scanning /\ Head(input) = Newline /\ input' = Tail(input)
      /\ UNCHANGED <<output, errors, serving, executed, asked, waiting, disturbances>>
  BY DEF ScanNewline, scannerVars, debuggerVars, faultVars
<1>3. PICK y \in Costs : Covers(y, Tail(input)) /\ AtLeast(v, Before(Newline, y))
  BY <1>1, <1>2, ScanHead, CoversTail, SettlesParts
<1>4. v.even >= y.even /\ v.odd >= y.odd
  BY <1>3, BeforeKinds DEF AtLeast
<1>5. Missing' => Missing
  <2>1. Newline # Dollar
    BY Kinds
  <2>2. Whole(input) => Whole(Tail(input))
    BY <1>2, <2>1, ScanHead, WholeTail
  <2> QED
    BY <1>2, <2>2 DEF Missing
<1>6. /\ Len(executed) \in Nat /\ asked \in Nat /\ disturbances \in Nat /\ Due \in {0, 1}
      /\ k \in Nat /\ h \in Nat /\ n \in {0, 1} /\ v.even \in Int /\ v.odd \in Int
      /\ y.even \in Int /\ y.odd \in Int /\ Due' = Due
  BY <1>1, <1>2, <1>3, AccountNumbers, SettlesParts, CostNumbers DEF Due
<1>7. \/ /\ errors = 2 * h
         /\ Len(executed) + Due + h + y.even + k + n <= asked + 2 * disturbances
      \/ /\ errors + 1 = 2 * h
         /\ Len(executed) + Due + h + y.odd + k + n <= asked + 2 * disturbances
  <2>1. \/ /\ errors = 2 * h
           /\ Len(executed) + Due + h + v.even + k + n <= asked + 2 * disturbances
        \/ /\ errors + 1 = 2 * h
           /\ Len(executed) + Due + h + v.odd + k + n <= asked + 2 * disturbances
    BY <1>1 DEF Settles
  <2>2. CASE /\ errors = 2 * h
             /\ Len(executed) + Due + h + v.even + k + n <= asked + 2 * disturbances
    BY <1>4, <1>6, <2>2
  <2>3. CASE /\ errors + 1 = 2 * h
             /\ Len(executed) + Due + h + v.odd + k + n <= asked + 2 * disturbances
    BY <1>4, <1>6, <2>3
  <2> QED
    BY <2>1, <2>2, <2>3
<1>8. Covers(y, input') /\ Refuses(k, output) /\ (Missing => n = 1)
  BY <1>1, <1>2, <1>3, SettlesParts
<1>9. Settles(y, k, h, n)'
  BY <1>2, <1>5, <1>6, <1>7, <1>8 DEF Settles
<1> QED
  BY <1>9 DEF Settled

(* At the end of the stream the errors kept are refused.                   *)
LEMMA EOFSettles ==
  ASSUME LinkTyped, Settled, ScanEOF
  PROVE  Settled'
<1>1. PICK v, k, h, n : Settles(v, k, h, n)
  BY DEF Settled
<1>2. /\ Scanning /\ Head(input) = EOF /\ input' = input /\ errors' = 0
      /\ output' = output \o Flushed(errors)
      /\ UNCHANGED <<serving, executed, asked, waiting, disturbances>>
  BY DEF ScanEOF, debuggerVars, faultVars
<1>3. PICK y \in Costs : Covers(y, Tail(input)) /\ AtLeast(v, Before(EOF, y))
  BY <1>1, <1>2, ScanHead, CoversTail, SettlesParts
<1>4. PICK x : x = Before(EOF, y)
  OBVIOUS
<1>5. Covers(x, input')
  BY <1>2, <1>3, <1>4, ScanHead, CoversBefore
<1>6. v.even >= x.even /\ v.odd >= x.even /\ x.even \in Int
  <2>1. x = Same(y.even)
    BY <1>3, <1>4, BeforeKinds
  <2> QED
    BY <1>3, <1>4, <2>1, CostNumbers DEF AtLeast, Same
<1>7. k \in Nat /\ h \in Nat /\ Refuses(k, output) /\ (h = 0 => errors = 0)
  BY <1>1, SettlesParts
<1>13. <<>> \in Seq(Message) /\ Refuses(0, <<>>) /\ 0 \in Nat
  BY RefusesFew
<1>14. \E f \in {0, 1} : f <= h /\ Refuses(k + f, output \o Flushed(errors))
  BY <1>7, <1>13, FlushSettles
<1>8. PICK f \in {0, 1} : f <= h /\ Refuses(k + f, output')
  BY <1>2, <1>14
<1>9. k + f \in Nat /\ k + f <= k + h
  BY <1>7, <1>8
<1>10. Missing' => Missing
  <2>1. Replied(output) => Replied(output')
    BY <1>2, <1>7, <1>13, FlushSettles
  <2> QED
    BY <1>2, <2>1 DEF Missing
<1>11. serving = 0 /\ Due' = 0
  BY <1>2 DEF Scanning, Due
<1>12. v.even >= x.even + Due' /\ v.odd >= x.even + Due' /\ Due' \in {0, 1}
  BY <1>6, <1>11
<1> QED
  BY <1>1, <1>2, <1>5, <1>8, <1>9, <1>10, <1>11, <1>12, ScanSettles

-----------------------------------------------------------------------------
(* What a character kept as an error was worth.                            *)
LEMMA ErrorCosts ==
  ASSUME LinkTyped, ScanError, NEW v, Covers(v, input)
  PROVE  /\ \E y \in Costs : Covers(y, Tail(input)) /\ v.even >= y.odd + 1 /\ v.odd >= y.even
         /\ Whole(input) => Whole(Tail(input))
<1>1. /\ Scanning
      /\ \/ Head(input) \notin {Plus, Minus, Dollar, Newline, EOF}
         \/ Head(input) = Dollar /\ MatchEnd # 0 /\ ~IsHash(input[MatchEnd])
  BY DEF ScanError
<1>2. /\ input \in Seq(Unit) /\ input # <<>> /\ Head(input) = input[1] /\ Head(input) \in Unit
  BY <1>1, ScanHead
<1>3. CASE Head(input) = Dollar
  <2>1. MatchEnd # 0 /\ ~IsHash(input[MatchEnd])
    BY <1>1, <1>3
  <2>2. /\ MatchEnd \in 2 .. Len(input) /\ Ends(input[MatchEnd])
        /\ \A i \in 2 .. MatchEnd - 1 : ~Ends(input[i])
    BY <1>2, <2>1, MatchEnds
  <2>3. input[MatchEnd] \in {Dollar, BadHash, EOF} /\ input[1] = Dollar
    BY <1>2, <1>3, <2>1, <2>2 DEF Ends
  <2>4. \E y : Covers(y, Tail(input)) /\ v.even >= y.odd + 1 /\ v.odd >= y.even
    BY <1>2, <2>2, <2>3, CoversUnmatched
  <2>5. Whole(input) => Whole(Tail(input))
    BY <1>2, <2>1, <2>2, WholeTail
  <2> QED
    BY <2>4, <2>5, CoversCosts
<1>4. CASE Head(input) # Dollar
  <2>1. PICK y \in Costs : Covers(y, Tail(input)) /\ AtLeast(v, Before(Head(input), y))
    BY <1>2, CoversTail
  <2>2. Head(input) \notin {Plus, Minus, Dollar, Newline, EOF}
    BY <1>1, <1>4
  <2>3. IsHash(Head(input)) \/ Head(input) = BadHash \/ Character(Head(input))
    BY <1>2, <2>2, UnitKinds
  <2>4. v \in Costs
    BY CoversCosts
  <2>5. v.even >= y.odd + 1 /\ v.odd >= y.even
    <3> DEFINE u == Head(input)
    <3> HIDE DEF u
    <3>1. AtLeast(v, Before(u, y)) /\ (IsHash(u) \/ u = BadHash \/ Character(u))
      BY <2>1, <2>3 DEF u
    <3>2. CASE IsHash(u)
      BY <2>4, <3>1, <3>2, BeforeKinds DEF AtLeast, Costs
    <3>3. CASE u = BadHash
      BY <2>4, <3>1, <3>3, BeforeKinds DEF AtLeast, Costs
    <3>4. CASE Character(u)
      BY <2>4, <3>1, <3>4, BeforeKinds DEF AtLeast, Costs
    <3> QED
      BY <3>1, <3>2, <3>3, <3>4
  <2>6. Whole(input) => Whole(Tail(input))
    BY <1>2, <1>4, WholeTail
  <2> QED
    BY <2>1, <2>5, <2>6
<1> QED
  BY <1>3, <1>4

(* The characters kept as an error are paid two by two.  A buffer that is  *)
(* full holds two at least, and the one that comes starts the next pair:   *)
(* with room for a single character each would be refused.                 *)
LEMMA ErrorSettles ==
  ASSUME MaxErrorSize >= 3, LinkTyped, Settled, ScanError
  PROVE  Settled'
<1>1. PICK v, k, h, n : Settles(v, k, h, n)
  BY DEF Settled
<1>2. /\ Scanning /\ input' = Tail(input)
      /\ UNCHANGED <<serving, executed, asked, waiting, disturbances>>
      /\ IF errors > MaxErrorSize - 2
         THEN output' = output \o Flushed(errors) /\ errors' = 1
         ELSE UNCHANGED output /\ errors' = errors + 1
  BY DEF ScanError, debuggerVars, faultVars
<1>3. PICK y \in Costs : /\ Covers(y, Tail(input))
                         /\ v.even >= y.odd + 1 /\ v.odd >= y.even
  BY <1>1, SettlesParts, ErrorCosts
<1>4. Whole(input) => Whole(Tail(input))
  BY <1>1, SettlesParts, ErrorCosts
<1>5. /\ k \in Nat /\ h \in Nat /\ Refuses(k, output) /\ (h = 0 => errors = 0)
      /\ n \in {0, 1} /\ (Missing => n = 1) /\ v.even \in Int /\ v.odd \in Int
  BY <1>1, SettlesParts
<1>6. y.even \in Int /\ y.odd \in Int /\ y.odd <= y.even
  BY <1>3 DEF Costs
<1>7. /\ Len(executed) \in Nat /\ asked \in Nat /\ disturbances \in Nat /\ Due \in {0, 1}
      /\ Due' = Due /\ errors \in Nat /\ MaxErrorSize \in Nat /\ errors <= MaxErrorSize - 1
  BY <1>2, AccountNumbers DEF Due
<1>8. \/ /\ errors = 2 * h
         /\ Len(executed) + Due + h + v.even + k + n <= asked + 2 * disturbances
      \/ /\ errors + 1 = 2 * h
         /\ Len(executed) + Due + h + v.odd + k + n <= asked + 2 * disturbances
  BY <1>1 DEF Settles
<1>9. Covers(y, input')
  BY <1>2, <1>3
<1>10. CASE ~(errors > MaxErrorSize - 2)
  <2>1. output' = output /\ errors' = errors + 1
    BY <1>2, <1>10
  <2>2. Missing' => n = 1
    BY <1>2, <1>4, <1>5, <2>1 DEF Missing
  <2>3. CASE /\ errors = 2 * h
             /\ Len(executed) + Due + h + v.even + k + n <= asked + 2 * disturbances
    <3>1. /\ h + 1 \in Nat /\ errors' + 1 = 2 * (h + 1)
          /\ Len(executed) + Due + (h + 1) + y.odd + k + n <= asked + 2 * disturbances
      BY <1>3, <1>5, <1>6, <1>7, <2>1, <2>3, SMTT(60)
    <3>2. Settles(y, k, h + 1, n)'
      BY <1>2, <1>5, <1>7, <1>9, <2>1, <2>2, <3>1 DEF Settles
    <3> QED
      BY <3>2 DEF Settled
  <2>4. CASE /\ errors + 1 = 2 * h
             /\ Len(executed) + Due + h + v.odd + k + n <= asked + 2 * disturbances
    <3>1. /\ errors' = 2 * h
          /\ Len(executed) + Due + h + y.even + k + n <= asked + 2 * disturbances
      BY <1>3, <1>5, <1>6, <1>7, <2>1, <2>4, SMTT(60)
    <3>2. Settles(y, k, h, n)'
      BY <1>2, <1>5, <1>7, <1>9, <2>1, <2>2, <3>1 DEF Settles
    <3> QED
      BY <3>2 DEF Settled
  <2> QED
    BY <1>8, <2>3, <2>4
<1>11. CASE errors > MaxErrorSize - 2
  <2>1. output' = output \o Flushed(errors) /\ errors' = 1
    BY <1>2, <1>11
  <2>2. <<>> \in Seq(Message) /\ Refuses(0, <<>>) /\ 0 \in Nat
    BY RefusesFew
  <2>3. \E f \in {0, 1} : f <= h /\ Refuses(k + f, output \o Flushed(errors))
    BY <1>5, <2>2, FlushSettles
  <2>4. PICK f \in {0, 1} : Refuses(k + f, output')
    BY <2>1, <2>3
  <2>5. Missing' => n = 1
    <3>1. Replied(output) => Replied(output')
      BY <1>5, <2>1, <2>2, FlushSettles
    <3> QED
      BY <1>2, <1>4, <1>5, <3>1 DEF Missing
  <2>6. errors >= 2
    BY <1>7, <1>11
  <2>7. Len(executed) + Due + 2 + y.odd + k + n <= asked + 2 * disturbances
    <3>1. CASE /\ errors = 2 * h
               /\ Len(executed) + Due + h + v.even + k + n <= asked + 2 * disturbances
      <4>1. h >= 1 /\ v.even >= y.odd + 1
        BY <1>3, <1>5, <2>6, <3>1
      <4> QED
        BY <1>5, <1>6, <1>7, <3>1, <4>1, SMTT(60)
    <3>2. CASE /\ errors + 1 = 2 * h
               /\ Len(executed) + Due + h + v.odd + k + n <= asked + 2 * disturbances
      <4>1. h >= 2 /\ v.odd >= y.odd
        BY <1>3, <1>5, <1>6, <1>7, <2>6, <3>2, SMTT(60)
      <4> QED
        BY <1>5, <1>6, <1>7, <3>2, <4>1, SMTT(60)
    <3> QED
      BY <1>8, <3>1, <3>2
  <2>8. /\ k + f \in Nat /\ errors' + 1 = 2 * 1
        /\ Len(executed) + Due + 1 + y.odd + (k + f) + n <= asked + 2 * disturbances
    <3>1. f \in Nat /\ f <= 1 /\ k + f \in Nat /\ 1 + 1 = 2 * 1
      BY <1>5
    <3>2. Len(executed) + Due + 1 + y.odd + (k + f) + n <= asked + 2 * disturbances
      BY <1>5, <1>6, <1>7, <2>7, <3>1
    <3> QED
      BY <2>1, <3>1, <3>2
  <2>9. Settles(y, k + f, 1, n)'
    BY <1>2, <1>5, <1>7, <1>9, <2>4, <2>5, <2>8 DEF Settles
  <2> QED
    BY <2>9 DEF Settled
<1> QED
  BY <1>10, <1>11

(* What was due is executed.                                               *)
LEMMA ServeSettles ==
  ASSUME LinkTyped, Settled, Serve
  PROVE  Settled'
<1>1. PICK v, k, h, n : Settles(v, k, h, n)
  BY DEF Settled
<1>2. /\ serving # 0 /\ executed' = Append(executed, serving) /\ serving' = 0
      /\ output' = Append(output, Answer(serving))
      /\ UNCHANGED <<input, errors, asked, waiting, disturbances>>
  BY DEF Serve, debuggerVars, faultVars
<1>3. serving \in 1 .. Requests /\ serving \in 0 .. Requests
      /\ executed \in Seq(1 .. Requests) /\ output \in Seq(Message)
  BY <1>2, LinkAssumption DEF LinkTyped, LinkTypeOK
<1>4. Answer(serving) \in Message /\ Answer(serving) \notin {Plus, Minus}
  BY <1>3, Messages, Kinds
<1>5. output' = output \o <<Answer(serving)>> /\ <<Answer(serving)>> \in Seq(Message)
  BY <1>2, <1>3, <1>4, AppendIsConcat
<1>6. Len(executed') = Len(executed) + 1
  BY <1>2, <1>3, AppendProperties
<1>7. Due = 1 /\ Due' = 0
  BY <1>2 DEF Due
<1>8. /\ k \in Nat /\ h \in Nat /\ Refuses(k, output)
      /\ n \in {0, 1} /\ (Missing => n = 1) /\ Covers(v, input)
  BY <1>1, SettlesParts
<1>9. Refuses(k, output')
  <2>1. Refuses(0, <<Answer(serving)>>)
    BY <1>4, RefusesFew DEF Refusal
  <2>2. Refuses(k + 0, output')
    BY <1>3, <1>5, <1>8, <2>1, RefusesJoin
  <2> QED
    BY <1>8, <2>2
<1>10. Missing' => Missing
  BY <1>2, <1>3, <1>5, RepliedJoin DEF Missing
<1>11. Len(executed') + Due' = Len(executed) + Due
  BY <1>6, <1>7, AccountNumbers
<1>12. Settles(v, k, h, n)'
  BY <1>1, <1>2, <1>8, <1>9, <1>10, <1>11 DEF Settles
<1> QED
  BY <1>12 DEF Settled

(* The scanner's rules and the handler settle what they take.              *)
LEMMA ScannerSettles ==
  ASSUME MaxErrorSize >= 3, LinkTyped, Settled, Scanner
  PROVE  Settled'
BY AcknowledgeSettles, PacketSettles, ErrorSettles, NewlineSettles, EOFSettles, ServeSettles
   DEF Scanner

-----------------------------------------------------------------------------
(* What is allowed for is a number.                                        *)
LEMMA AllowedNumber ==
  ASSUME NEW a \in Nat, NEW b \in Nat
  PROVE  a + 2 * b \in Int
OBVIOUS

(* A cost added to a bound that leaves room for it.                        *)
LEMMA CostAdded ==
  ASSUME NEW x \in Int, NEW e \in Int, NEW a \in Int, NEW b \in Int, NEW c \in Int,
         NEW k \in Int, NEW n \in Int, NEW kk \in Int, NEW nn \in Int,
         x + e + k + n <= a, a + c + kk + nn <= b + k + n
  PROVE  x + (e + c) + kk + nn <= b
OBVIOUS

(* Whatever the debugger or the line does costs a number of repetitions at *)
(* most, on the line (c), in the messages (kk) and for a packet missing    *)
(* (nn); when that many are allowed for, the account stays settled.        *)
LEMMA LineSettles ==
  ASSUME LinkTyped, NEW v, NEW k, NEW h, NEW n, Settles(v, k, h, n),
         NEW c \in {0, 1}, Covers(Raised(v, c), input'),
         NEW kk \in Nat, Refuses(kk, output'),
         NEW nn \in {0, 1}, Missing' => nn = 1,
         asked' \in Nat, disturbances' \in Nat,
         asked + 2 * disturbances + c + kk + nn <= asked' + 2 * disturbances' + k + n,
         UNCHANGED <<errors, serving, executed>>
  PROVE  Settled'
<1>1. /\ v.even \in Int /\ v.odd \in Int /\ k \in Nat /\ h \in Nat /\ n \in {0, 1}
  BY SettlesParts
<1>2. Raised(v, c).even = v.even + c /\ Raised(v, c).odd = v.odd + c
  BY DEF Raised
<1>3. /\ Len(executed) \in Nat /\ asked \in Nat /\ disturbances \in Nat /\ Due \in {0, 1}
      /\ Due' = Due
  BY AccountNumbers DEF Due
<1>4. PICK a \in Int, b \in Int : a = asked + 2 * disturbances /\ b = asked' + 2 * disturbances'
  <2>1. asked + 2 * disturbances \in Int
    BY <1>3, AllowedNumber
  <2>2. asked' + 2 * disturbances' \in Int
    BY AllowedNumber
  <2> QED
    BY <2>1, <2>2
<1>5. a + c + kk + nn <= b + k + n
  BY <1>4
<1>6. PICK x \in Nat : x = Len(executed) + Due + h
  BY <1>1, <1>3
<1>7. CASE errors = 2 * h /\ x + v.even + k + n <= a
  <2>1. x + (v.even + c) + kk + nn <= b
    <3>1. x \in Int /\ c \in Int /\ kk \in Int /\ nn \in Int
      BY <1>6
    <3>2. x + v.even + k + n <= a /\ k \in Int /\ n \in Int /\ v.even \in Int
      BY <1>1, <1>7
    <3> QED
      BY <1>5, <3>1, <3>2, CostAdded
  <2>2. Settles(Raised(v, c), kk, h, nn)'
    BY <1>1, <1>2, <1>3, <1>4, <1>6, <1>7, <2>1 DEF Settles
  <2> QED
    BY <2>2 DEF Settled
<1>8. CASE errors + 1 = 2 * h /\ x + v.odd + k + n <= a
  <2>1. x + (v.odd + c) + kk + nn <= b
    <3>1. x \in Int /\ c \in Int /\ kk \in Int /\ nn \in Int
      BY <1>6
    <3>2. x + v.odd + k + n <= a /\ k \in Int /\ n \in Int /\ v.odd \in Int
      BY <1>1, <1>8
    <3> QED
      BY <1>5, <3>1, <3>2, CostAdded
  <2>2. Settles(Raised(v, c), kk, h, nn)'
    BY <1>1, <1>2, <1>3, <1>4, <1>6, <1>8, <2>1 DEF Settles
  <2> QED
    BY <2>2 DEF Settled
<1> QED
  BY <1>4, <1>6, <1>7, <1>8 DEF Settles

(* Raising by nothing.                                                     *)
LEMMA RaisedNothing ==
  ASSUME NEW v \in Costs
  PROVE  Raised(v, 0) = v
BY DEF Costs, Raised

(* What a debugger that waits sends again.                                 *)
LEMMA ResendSettles ==
  ASSUME LinkTyped, Resend, NEW v, Covers(v, input)
  PROVE  \E c \in {0, 1} : /\ Covers(Raised(v, c), input')
                           /\ waiting = "ack" => Whole(input')
                           /\ waiting \in {"ack", "answer"}
                           /\ waiting = "answer" => c = 0
<1>1. CASE waiting = "ack" /\ Transmit(Packet(asked))
  <2>1. asked \in 1 .. Requests /\ input \in Seq(Unit)
    BY <1>1, AccountNumbers
  <2>2. PICK p : p = Packet(asked)
    OBVIOUS
  <2>3. input' = input \o p /\ p \in Seq(Unit) /\ Covers(Same(1), p)
        /\ AtLeast(Same(1), Same(1)) /\ Whole(p)
    BY <1>1, <2>1, <2>2, CoversPacket, WholePacket DEF Transmit
  <2>4. Covers(Raised(v, 1), input') /\ Whole(input')
    BY <2>1, <2>3, CoversJoin, WholeJoin
  <2> QED
    BY <1>1, <2>4
<1>2. CASE waiting = "answer" /\ Transmit(<<Minus>>)
  <2>1. PICK p : p = <<Minus>>
    OBVIOUS
  <2>2. input' = input \o p /\ p \in Seq(Unit) /\ input \in Seq(Unit)
    BY <1>2, <2>1, SmallSequences, AccountNumbers DEF Transmit
  <2>3. \E x : Covers(x, p) /\ AtLeast(Same(0), x)
    BY <2>1, CoversByte
  <2>4. Covers(Raised(v, 0), input')
    BY <2>2, <2>3, CoversJoin
  <2> QED
    BY <1>2, <2>4
<1> QED
  BY <1>1, <1>2 DEF Resend

(* A byte that the debugger sends, or none.                                *)
LEMMA ByteSettles ==
  ASSUME LinkTyped, NEW v, Covers(v, input),
         NEW units \in {<<>>, <<Plus>>, <<Minus>>, <<EOF>>, <<Newline>>}, Transmit(units)
  PROVE  Covers(Raised(v, 0), input') /\ (Whole(input) => Whole(input'))
<1>1. /\ input' = input \o units /\ input \in Seq(Unit) /\ units \in Seq(Unit)
  BY SmallSequences, AccountNumbers DEF Transmit
<1>2. \E x : Covers(x, units) /\ AtLeast(Same(0), x)
  <2>1. CASE units = <<>>
    <3>1. AtLeast(Same(0), Same(0))
      BY DEF AtLeast, Same
    <3> QED
      BY <2>1, <3>1, CoversNothing
  <2>2. CASE units # <<>>
    <3>1. PICK byte \in {Plus, Minus, Newline, EOF} : units = <<byte>>
      BY <2>2
    <3> QED
      BY <3>1, CoversByte
  <2> QED
    BY <2>1, <2>2
<1> QED
  BY <1>1, <1>2, CoversJoin, WholeJoin

(* The debugger: a request that it asks allows for one execution more, one *)
(* that it sends again follows a refusal or the loss of the one before.    *)
LEMMA DebuggerSettles ==
  ASSUME LinkTyped, LinkTyped', Closed, Settled, Debugger \/ Leave
  PROVE  Settled'
<1>1. PICK v, k, h, n : Settles(v, k, h, n)
  BY DEF Settled
<1>2. /\ k \in Nat /\ Refuses(k, output) /\ n \in {0, 1} /\ (Missing => n = 1)
      /\ Covers(v, input) /\ v \in Costs
  BY <1>1, SettlesParts
<1>3. /\ asked \in Nat /\ disturbances \in Nat /\ input \in Seq(Unit)
      /\ output \in Seq(Message)
  BY AccountNumbers
<1>4. asked' \in Nat /\ disturbances' \in Nat
  BY LinkAssumption DEF LinkTyped, LinkTypeOK
<1>5. UNCHANGED <<errors, serving, executed, disturbances>>
  BY DEF Debugger, Ask, ReadAck, ReadAnswer, Timeout, Leave, scannerVars, faultVars
<1>6. CASE Ask
  <2>1. PICK p : p = Packet(asked + 1)
    OBVIOUS
  <2>2. asked + 1 \in 1 .. Requests /\ asked' = asked + 1 /\ output' = output
        /\ input' = input \o p
    BY <1>3, <1>6, <2>1, LinkAssumption DEF Ask, Transmit, LinkTyped, LinkTypeOK
  <2>3. p \in Seq(Unit) /\ Covers(Same(1), p) /\ AtLeast(Same(1), Same(1)) /\ Whole(p)
    BY <2>1, <2>2, CoversPacket, WholePacket
  <2>4. Covers(Raised(v, 1), input') /\ Whole(input')
    BY <1>2, <1>3, <2>2, <2>3, CoversJoin, WholeJoin
  <2>5. ~Missing'
    BY <2>4 DEF Missing
  <2>6. asked + 2 * disturbances + 1 + k + 0 <= asked' + 2 * disturbances' + k + n
    BY <1>2, <1>3, <1>5, <2>2
  <2> QED
    BY <1>1, <1>2, <1>4, <1>5, <2>2, <2>4, <2>5, <2>6, LineSettles
<1>7. CASE ReadAck
  <2>1. /\ waiting = "ack" /\ output # <<>> /\ output' = Tail(output) /\ asked' = asked
        /\ waiting' = IF Head(output) = Plus THEN "answer" ELSE "ack"
        /\ Transmit(IF Head(output) = Minus THEN Packet(asked) ELSE <<>>)
    BY <1>7 DEF ReadAck
  <2>2. PICK kk \in Nat : Refuses(kk, output') /\ k >= kk + Refusal(Head(output))
    BY <1>2, <1>3, <2>1, RefusesTail
  <2>3. CASE Head(output) = Minus
    <3>1. PICK p : p = Packet(asked)
      OBVIOUS
    <3>2. asked \in 1 .. Requests /\ input' = input \o p /\ k >= kk + 1
      BY <2>1, <2>2, <2>3, <3>1, AccountNumbers DEF Transmit, Refusal
    <3>3. p \in Seq(Unit) /\ Covers(Same(1), p) /\ AtLeast(Same(1), Same(1)) /\ Whole(p)
      BY <3>1, <3>2, CoversPacket, WholePacket
    <3>4. Covers(Raised(v, 1), input') /\ Whole(input')
      BY <1>2, <1>3, <3>2, <3>3, CoversJoin, WholeJoin
    <3>5. ~Missing'
      BY <3>4 DEF Missing
    <3>6. asked + 2 * disturbances + 1 + kk + 0 <= asked' + 2 * disturbances' + k + n
      BY <1>2, <1>3, <1>5, <2>1, <3>2
    <3> QED
      BY <1>1, <1>4, <1>5, <2>2, <3>4, <3>5, <3>6, LineSettles
  <2>4. CASE Head(output) # Minus
    <3>1. Transmit(<<>>) /\ k >= kk
      BY <1>2, <2>1, <2>2, <2>4 DEF Refusal
    <3>2. Covers(Raised(v, 0), input') /\ (Whole(input) => Whole(input'))
      BY <1>2, <3>1, ByteSettles
    <3>3. Missing' => Missing
      <4>1. CASE Head(output) = Plus
        BY <2>1, <4>1 DEF Missing
      <4>2. CASE Head(output) # Plus
        <5>1. Replied(output) => Replied(output')
          BY <1>3, <2>1, <2>4, <4>2, RepliedTail
        <5> QED
          BY <2>1, <3>2, <5>1 DEF Missing
      <4> QED
        BY <4>1, <4>2
    <3>4. Missing' => n = 1
      BY <1>2, <3>3
    <3>5. asked + 2 * disturbances + 0 + kk + n <= asked' + 2 * disturbances' + k + n
      BY <1>2, <1>3, <1>5, <2>1, <3>1
    <3> QED
      BY <1>1, <1>2, <1>4, <1>5, <2>2, <3>2, <3>4, <3>5, LineSettles
  <2> QED
    BY <2>3, <2>4
<1>8. CASE ReadAnswer
  <2>1. /\ waiting = "answer" /\ output # <<>> /\ output' = Tail(output) /\ asked' = asked
        /\ waiting' # "ack"
        /\ \E units \in {<<>>, <<Plus>>, <<Minus>>} : Transmit(units)
    BY <1>8 DEF ReadAnswer
  <2>2. PICK kk \in Nat : Refuses(kk, output') /\ k >= kk + Refusal(Head(output))
    BY <1>2, <1>3, <2>1, RefusesTail
  <2>3. k >= kk
    BY <1>2, <2>2 DEF Refusal
  <2>4. Covers(Raised(v, 0), input')
    BY <1>2, <2>1, ByteSettles
  <2>5. ~Missing'
    BY <2>1 DEF Missing
  <2>6. asked + 2 * disturbances + 0 + kk + 0 <= asked' + 2 * disturbances' + k + n
    BY <1>2, <1>3, <1>5, <2>1, <2>3
  <2> QED
    BY <1>1, <1>4, <1>5, <2>2, <2>4, <2>5, <2>6, LineSettles
<1>9. CASE Timeout
  <2>1. Quiet /\ Resend /\ output' = output /\ waiting' = waiting /\ asked' = asked
    BY <1>9 DEF Timeout
  <2>2. PICK c \in {0, 1} : /\ Covers(Raised(v, c), input')
                            /\ waiting = "ack" => Whole(input')
                            /\ waiting \in {"ack", "answer"}
                            /\ waiting = "answer" => c = 0
    BY <1>2, <2>1, ResendSettles
  <2>3. ~Missing'
    BY <2>1, <2>2 DEF Missing
  <2>4. waiting = "ack" => Missing
    <3>1. output = <<>> /\ serving = 0 /\ (Scanning => Head(input) = Dollar /\ MatchEnd = 0)
      BY <2>1 DEF Quiet, ScannerWaits
    <3>2. ~Replied(output)
      BY <3>1 DEF Replied
    <3>3. scanner = "scanning"
      BY <2>2 DEF Closed, LinkTyped, LinkTypeOK
    <3>4. ~Whole(input)
      <4>1. CASE input = <<>>
        BY <4>1 DEF Whole
      <4>2. CASE input # <<>>
        <5>1. \A i \in 2 .. Len(input) : ~Ends(input[i])
          BY <1>3, <3>1, <3>3, <4>2, MatchEnds DEF Scanning
        <5>2. \A i, j \in 1 .. Len(input) : i < j => j \in 2 .. Len(input)
          BY AccountNumbers
        <5> QED
          BY <5>1, <5>2 DEF Whole, Ends
      <4> QED
        BY <4>1, <4>2
    <3> QED
      BY <3>2, <3>4 DEF Missing
  <2>5. c <= n
    BY <1>2, <2>2, <2>4
  <2>6. asked + 2 * disturbances + c + k + 0 <= asked' + 2 * disturbances' + k + n
    BY <1>2, <1>3, <1>5, <2>1, <2>5
  <2> QED
    BY <1>1, <1>2, <1>4, <1>5, <2>1, <2>2, <2>3, <2>6, LineSettles
<1>10. CASE Leave
  <2>1. /\ waiting' = "gone" /\ Transmit(<<EOF>>) /\ output' = output /\ asked' = asked
    BY <1>10 DEF Leave
  <2>2. Covers(Raised(v, 0), input') /\ ~Missing'
    BY <1>2, <2>1, ByteSettles DEF Missing
  <2>3. asked + 2 * disturbances + 0 + k + 0 <= asked' + 2 * disturbances' + k + n
    BY <1>2, <1>3, <1>5, <2>1
  <2> QED
    BY <1>1, <1>2, <1>4, <1>5, <2>1, <2>2, <2>3, LineSettles
<1> QED
  BY <1>6, <1>7, <1>8, <1>9, <1>10 DEF Debugger

-----------------------------------------------------------------------------
(* A fault that is counted allows for one repetition on the line and one   *)
(* for a packet that is missing.                                           *)
LEMMA DisturbanceSettles ==
  ASSUME LinkTyped, LinkTyped', NEW v, NEW k, NEW h, NEW n, Settles(v, k, h, n),
         Disturbed, NEW c \in {0, 1}, Covers(Raised(v, c), input'), Refuses(k, output'),
         UNCHANGED <<scannerVars, debuggerVars>>
  PROVE  Settled'
<1>1. /\ k \in Nat /\ n \in {0, 1} /\ asked \in Nat /\ disturbances \in Nat
      /\ disturbances' = disturbances + 1 /\ asked' = asked
  BY SettlesParts, AccountNumbers DEF Disturbed, debuggerVars
<1>2. asked' \in Nat /\ disturbances' \in Nat
  BY <1>1
<1>3. asked + 2 * disturbances + c + k + 1 <= asked' + 2 * disturbances' + k + n
  BY <1>1
<1>4. UNCHANGED <<errors, serving, executed>> /\ (Missing' => 1 = 1)
  BY DEF scannerVars
<1> QED
  BY <1>1, <1>2, <1>3, <1>4, LineSettles

(* The costs of a body are those of a damaged one.                         *)
LEMMA DamagedCosts ==
  ASSUME NEW u \in Unit, u[1] = "body", NEW x \in Costs
  PROVE  AtLeast(Raised(Before(u, x), 0), Before(Body(0), x))
<1>1. Body(0) \in Unit /\ Character(Body(0))
  BY LinkAssumption, Units DEF Character
<1>2. Character(u)
  <2>1. \A w \in {Dollar, BadHash, Plus, Minus, Newline, EOF} : w[1] # "body"
    BY DEF Dollar, BadHash, Plus, Minus, Newline, EOF
  <2>2. ~IsHash(u)
    BY DEF IsHash
  <2> QED
    BY <2>1, <2>2, UnitKinds
<1>3. Before(u, x) = Before(Body(0), x)
  BY <1>1, <1>2, BeforeKinds
<1>4. Before(u, x) \in Costs
  BY BeforeCosts
<1>5. Raised(Before(u, x), 0) = Before(u, x)
  BY <1>4, RaisedNothing
<1> QED
  BY <1>3, <1>4, <1>5, CostNumbers DEF AtLeast

(* A damaged body, or answer, costs nothing: its packet is refused instead *)
(* of executed.                                                            *)
LEMMA DamageSettles ==
  ASSUME LinkTyped, LinkTyped', Settled, DamageBody
  PROVE  Settled'
<1>1. PICK v, k, h, n : Settles(v, k, h, n)
  BY DEF Settled
<1>2. /\ k \in Nat /\ Refuses(k, output) /\ n \in {0, 1} /\ (Missing => n = 1)
      /\ Covers(v, input) /\ v \in Costs
  BY <1>1, SettlesParts
<1>3. /\ asked \in Nat /\ disturbances \in Nat /\ input \in Seq(Unit)
      /\ output \in Seq(Message) /\ asked' = asked /\ disturbances' = disturbances
      /\ waiting' = waiting /\ UNCHANGED <<errors, serving, executed>>
      /\ DOMAIN input = 1 .. Len(input) /\ DOMAIN output = 1 .. Len(output)
  BY AccountNumbers DEF DamageBody, scannerVars, debuggerVars
<1>4. asked + 2 * disturbances + 0 + k + n <= asked' + 2 * disturbances' + k + n
  BY <1>2, <1>3
<1>5. CASE output' = output /\ \E i \in DOMAIN input :
             input[i][1] = "body" /\ input[i] # Body(0) /\ input' = [input EXCEPT ![i] = Body(0)]
  <2>1. PICK i \in 1 .. Len(input) :
               input[i][1] = "body" /\ input' = [input EXCEPT ![i] = Body(0)]
    BY <1>3, <1>5
  <2>2. input[i] \in Unit /\ Body(0) \in Unit
    BY <1>3, ElementOfSeq, LinkAssumption, Units
  <2>3. \A x \in Costs : AtLeast(Raised(Before(input[i], x), 0), Before(Body(0), x))
    BY <2>1, <2>2, DamagedCosts
  <2>4. Covers(Raised(v, 0), input')
    BY <1>2, <1>3, <2>1, <2>2, <2>3, CoversChanged
  <2>5. Missing' => Missing
    <3>1. Whole(input) => Whole(input')
      BY <1>3, <2>1, WholeDamaged
    <3> QED
      BY <1>3, <1>5, <3>1 DEF Missing
  <2>6. Missing' => n = 1
    BY <1>2, <2>5
  <2> QED
    BY <1>1, <1>2, <1>3, <1>4, <1>5, <2>4, <2>6, LineSettles
<1>6. CASE input' = input /\ \E i \in DOMAIN output :
             /\ IsAnswer(output[i]) /\ output[i] # Answer(0)
             /\ output' = [output EXCEPT ![i] = Answer(0)]
  <2>1. PICK i \in 1 .. Len(output) :
               IsAnswer(output[i]) /\ output' = [output EXCEPT ![i] = Answer(0)]
    BY <1>3, <1>6
  <2>2. Answer(0) \in Message /\ Answer(0) # Minus
    BY LinkAssumption, Messages, Kinds
  <2>3. Refuses(k, output')
    BY <1>2, <1>3, <2>1, <2>2, RefusesChanged
  <2>4. Covers(Raised(v, 0), input')
    BY <1>2, <1>6, RaisedNothing
  <2>5. Missing' => Missing
    <3>1. Replied(output) => Replied(output')
      BY <1>3, <2>1, <2>2, RepliedDamaged
    <3> QED
      BY <1>3, <1>6, <3>1 DEF Missing
  <2>6. Missing' => n = 1
    BY <1>2, <2>5
  <2> QED
    BY <1>1, <1>2, <1>3, <1>4, <2>3, <2>4, <2>6, LineSettles
<1> QED
  BY <1>5, <1>6 DEF DamageBody

(* Every other fault is allowed for where it is counted.                   *)
LEMMA FaultsSettles ==
  ASSUME LinkTyped, LinkTyped', Settled, Faults
  PROVE  Settled'
<1>1. PICK v, k, h, n : Settles(v, k, h, n)
  BY DEF Settled
<1>2. /\ k \in Nat /\ Refuses(k, output) /\ Covers(v, input) /\ v \in Costs
  BY <1>1, SettlesParts
<1>3. /\ input \in Seq(Unit) /\ output \in Seq(Message)
      /\ DOMAIN input = 1 .. Len(input) /\ DOMAIN output = 1 .. Len(output)
  BY AccountNumbers
<1>4. UNCHANGED <<scannerVars, debuggerVars>>
  BY DEF Faults, DamageBody, Lose, Break, Stray, Impatience
<1>5. Covers(Raised(v, 0), input)
  BY <1>2, RaisedNothing
<1>6. CASE DamageBody
  BY <1>6, DamageSettles
<1>7. CASE Lose
  <2>1. CASE output' = output /\ \E i \in DOMAIN input :
                                    input[i] # EOF /\ input' = RemoveAt(input, i)
    <3>1. PICK i \in 1 .. Len(input) : input[i] # EOF /\ input' = RemoveAt(input, i)
      BY <1>3, <2>1
    <3>2. Covers(Raised(v, 1), input')
      BY <1>2, <1>3, <3>1, CoversLost
    <3> QED
      BY <1>1, <1>2, <1>4, <1>7, <2>1, <3>2, DisturbanceSettles DEF Lose
  <2>2. CASE input' = input /\ \E i \in DOMAIN output : output' = RemoveAt(output, i)
    <3>1. PICK i \in 1 .. Len(output) : output' = RemoveAt(output, i)
      BY <1>3, <2>2
    <3>2. Refuses(k, output')
      BY <1>2, <1>3, <3>1, RefusesLost
    <3> QED
      BY <1>1, <1>4, <1>5, <1>7, <2>2, <3>2, DisturbanceSettles DEF Lose
  <2> QED
    BY <1>7, <2>1, <2>2 DEF Lose
<1>8. CASE Break
  <2>1. PICK i \in 1 .. Len(input) :
          /\ input[i] \in {Dollar, Plus, Minus} \/ IsHash(input[i])
          /\ \E byte \in {Other, Minus} \cup (IF IsHash(input[i]) THEN {BadHash} ELSE {}) :
               input' = [input EXCEPT ![i] = byte]
    BY <1>3, <1>8 DEF Break
  <2>2. PICK byte \in {Other, Minus} \cup (IF IsHash(input[i]) THEN {BadHash} ELSE {}) :
               input' = [input EXCEPT ![i] = byte]
    BY <2>1
  <2>3. input[i] \in Unit /\ byte \in Unit
    BY <1>3, <2>2, ElementOfSeq, Units
  <2>4. \A x \in Costs : AtLeast(Raised(Before(input[i], x), 1), Before(byte, x))
    BY <2>1, <2>3, BeforeBroken
  <2>5. Covers(Raised(v, 1), input')
    BY <1>2, <1>3, <2>2, <2>3, <2>4, CoversChanged
  <2>6. Disturbed /\ output' = output
    BY <1>8 DEF Break
  <2> QED
    BY <1>1, <1>2, <1>4, <2>5, <2>6, DisturbanceSettles
<1>9. CASE Stray
  <2>1. PICK byte \in {Other, Newline} : Transmit(<<byte>>)
    BY <1>9 DEF Stray
  <2>2. \E c \in {0, 1} : Covers(Raised(v, c), input')
    <3>1. CASE byte = Newline
      <4>1. Covers(Raised(v, 0), input')
        BY <1>2, <2>1, <3>1, ByteSettles
      <4> QED
        BY <4>1
    <3>2. CASE byte = Other
      <4>1. PICK t : t = <<Other>>
        OBVIOUS
      <4>2. t \in Seq(Unit) /\ input' = input \o t
        BY <2>1, <3>2, <4>1, SmallSequences DEF Transmit
      <4>3. \E x : Covers(x, t) /\ AtLeast(Same(1), x)
        BY <4>1, CoversByte
      <4>4. Covers(Raised(v, 1), input')
        BY <1>2, <1>3, <4>2, <4>3, CoversJoin
      <4> QED
        BY <4>4
    <3> QED
      BY <3>1, <3>2
  <2>3. Disturbed /\ output' = output
    BY <1>9 DEF Stray
  <2> QED
    BY <1>1, <1>2, <1>4, <2>2, <2>3, DisturbanceSettles
<1>10. CASE Impatience
  <2>1. Disturbed /\ output' = output /\ Resend
    BY <1>10 DEF Impatience
  <2>2. \E c \in {0, 1} : Covers(Raised(v, c), input')
    BY <1>2, <2>1, ResendSettles
  <2> QED
    BY <1>1, <1>2, <1>4, <2>1, <2>2, DisturbanceSettles
<1> QED
  BY <1>6, <1>7, <1>8, <1>9, <1>10 DEF Faults

-----------------------------------------------------------------------------
(* The end of the stream in a part of the line, and in the line with more. *)
LEMMA EndedParts ==
  /\ \A s \in Seq(Unit) : s # <<>> /\ Ended(Tail(s)) => Ended(s)
  /\ \A s, t \in Seq(Unit) : Ended(s \o t) => Ended(s) \/ Ended(t)
  /\ \A s \in Seq(Unit), i \in Nat : Ended(SubSeq(s, i + 1, Len(s))) => Ended(s)
  /\ \A s \in Seq(Unit) : \A i \in 1 .. Len(s) : Ended(RemoveAt(s, i)) => Ended(s)
  /\ \A s \in Seq(Unit), u \in Unit :
       \A i \in 1 .. Len(s) : u # EOF /\ Ended([s EXCEPT ![i] = u]) => Ended(s)
<1>1. ASSUME NEW s \in Seq(Unit), s # <<>>, Ended(Tail(s))
      PROVE  Ended(s)
  <2>1. /\ Len(s) \in Nat /\ Len(Tail(s)) = Len(s) - 1
        /\ \A k \in 1 .. Len(s) - 1 : Tail(s)[k] = s[k + 1]
    BY <1>1, HeadTailProperties, LenProperties, EmptySeq
  <2>2. PICK i \in 1 .. Len(s) - 1 : Tail(s)[i] = EOF
    BY <1>1, <2>1 DEF Ended
  <2>3. i + 1 \in 1 .. Len(s) /\ s[i + 1] = EOF
    BY <2>1, <2>2
  <2> QED
    BY <2>3 DEF Ended
<1>2. ASSUME NEW s \in Seq(Unit), NEW t \in Seq(Unit), Ended(s \o t)
      PROVE  Ended(s) \/ Ended(t)
  <2> DEFINE st == s \o t
  <2>1. /\ Len(st) = Len(s) + Len(t) /\ Len(s) \in Nat /\ Len(t) \in Nat
        /\ \A i \in 1 .. Len(s) + Len(t) :
             st[i] = IF i <= Len(s) THEN s[i] ELSE t[i - Len(s)]
    BY ConcatProperties, LenProperties
  <2>2. PICK i \in 1 .. Len(s) + Len(t) : st[i] = EOF
    BY <1>2, <2>1 DEF Ended
  <2>3. CASE i <= Len(s)
    <3>1. i \in 1 .. Len(s) /\ s[i] = EOF
      BY <2>1, <2>2, <2>3
    <3> QED
      BY <3>1 DEF Ended
  <2>4. CASE ~(i <= Len(s))
    <3>1. i - Len(s) \in 1 .. Len(t) /\ t[i - Len(s)] = EOF
      BY <2>1, <2>2, <2>4
    <3> QED
      BY <3>1 DEF Ended
  <2> QED
    BY <2>3, <2>4
<1>3. ASSUME NEW s \in Seq(Unit), NEW i \in Nat, Ended(SubSeq(s, i + 1, Len(s)))
      PROVE  Ended(s)
  <2> DEFINE t == SubSeq(s, i + 1, Len(s))
  <2>1. Len(s) \in Nat
    BY LenProperties
  <2>2. PICK j \in 1 .. Len(t) : t[j] = EOF
    BY <1>3 DEF Ended
  <2>3. i + j \in 1 .. Len(s) /\ s[i + j] = EOF
    BY <2>1, <2>2
  <2> QED
    BY <2>3 DEF Ended
<1>4. ASSUME NEW s \in Seq(Unit), NEW i \in 1 .. Len(s), Ended(RemoveAt(s, i))
      PROVE  Ended(s)
  <2>1. /\ Len(s) \in Nat /\ Len(RemoveAt(s, i)) = Len(s) - 1
        /\ \A j \in 1 .. Len(s) - 1 :
             RemoveAt(s, i)[j] = IF j < i THEN s[j] ELSE s[j + 1]
    BY RemoveAtType, LenProperties
  <2>2. PICK j \in 1 .. Len(s) - 1 : RemoveAt(s, i)[j] = EOF
    BY <1>4, <2>1 DEF Ended
  <2>3. j \in 1 .. Len(s) /\ j + 1 \in 1 .. Len(s) /\ (s[j] = EOF \/ s[j + 1] = EOF)
    BY <2>1, <2>2
  <2> QED
    BY <2>3 DEF Ended
<1>5. ASSUME NEW s \in Seq(Unit), NEW u \in Unit, NEW i \in 1 .. Len(s), u # EOF,
             Ended([s EXCEPT ![i] = u])
      PROVE  Ended(s)
  <2> DEFINE t == [s EXCEPT ![i] = u]
  <2>1. /\ Len(t) = Len(s)
        /\ \A j \in 1 .. Len(s) : t[j] = IF j = i THEN u ELSE s[j]
    BY ExceptSeq
  <2>2. PICK j \in 1 .. Len(s) : t[j] = EOF
    BY <1>5, <2>1 DEF Ended
  <2>3. s[j] = EOF
    BY <1>5, <2>1, <2>2
  <2> QED
    BY <2>3 DEF Ended
<1> QED
  BY <1>1, <1>2, <1>3, <1>4, <1>5

(* What a debugger that has not left sends does not end the stream.        *)
LEMMA NotEnded ==
  /\ \A n \in 1 .. Requests : ~Ended(Packet(n))
  /\ ~Ended(<<>>) /\ \A byte \in {Plus, Minus, Other, Newline} : ~Ended(<<byte>>)
<1>1. ASSUME NEW n \in 1 .. Requests
      PROVE  ~Ended(Packet(n))
  <2>1. \A u \in {Dollar, Body(n), Minus, Other, Hash(n)} : u # EOF
    BY Kinds DEF EOF, Other
  <2>2. \A u \in {Dollar, Body(n), Minus, Other, Hash(n)} : u # EOF
    BY <2>1
  <2>3. PICK a, b, c, d, e : /\ a = Dollar /\ b = Body(n) /\ c = Minus /\ d = Other
                             /\ e = Hash(n)
    OBVIOUS
  <2>4. \A i \in 1 .. 5 : <<a, b, c, d, e>>[i] # EOF
    BY <2>2, <2>3
  <2>5. \A i \in 1 .. 3 : <<a, b, e>>[i] # EOF
    BY <2>2, <2>3
  <2>6. Len(<<a, b, c, d, e>>) = 5 /\ Len(<<a, b, e>>) = 3
    OBVIOUS
  <2>7. Packet(n) = <<a, b, c, d, e>> \/ Packet(n) = <<a, b, e>>
    BY <2>3, PacketUnits
  <2> QED
    BY <2>4, <2>5, <2>6, <2>7 DEF Ended
<1>2. ~Ended(<<>>)
  BY DEF Ended
<1>3. ASSUME NEW byte \in {Plus, Minus, Other, Newline}
      PROVE  ~Ended(<<byte>>)
  <2>1. byte # EOF
    BY Kinds DEF EOF, Other, Newline
  <2>2. Len(<<byte>>) = 1 /\ <<byte>>[1] = byte /\ \A i \in 1 .. 1 : i = 1
    OBVIOUS
  <2> QED
    BY <2>1, <2>2 DEF Ended
<1> QED
  BY <1>1, <1>2, <1>3

(* What the debugger sends before it leaves.                               *)
LEMMA TransmitEnded ==
  ASSUME LinkTyped, NEW units \in Seq(Unit), ~Ended(units), Transmit(units), Ended(input')
  PROVE  Ended(input)
BY EndedParts DEF Transmit, LinkTyped, LinkTypeOK

(* A request sent again does not end the stream.                           *)
LEMMA ResendEnded ==
  ASSUME LinkTyped, Resend, Ended(input')
  PROVE  Ended(input)
<1>1. CASE waiting = "ack" /\ Transmit(Packet(asked))
  <2>1. asked \in 1 .. Requests
    BY <1>1, AccountNumbers
  <2>2. Packet(asked) \in Seq(Unit) /\ ~Ended(Packet(asked))
    BY <2>1, PacketUnits, NotEnded
  <2> QED
    BY <1>1, <2>2, TransmitEnded
<1>2. CASE waiting = "answer" /\ Transmit(<<Minus>>)
  BY <1>2, SmallSequences, NotEnded, TransmitEnded
<1> QED
  BY <1>1, <1>2 DEF Resend

(* The stream ends, for the scanner and on the line, only behind a         *)
(* debugger that has left, and one that has left stays away.               *)
LEMMA ClosedKept ==
  ASSUME LinkTyped, Closed, Scanner \/ Debugger \/ Leave \/ Faults
  PROVE  Closed'
<1>1. /\ input \in Seq(Unit) /\ Len(input) \in Nat /\ DOMAIN input = 1 .. Len(input)
  BY AccountNumbers
<1>2. CASE Scanner
  <2>1. waiting' = waiting
    BY <1>2 DEF Scanner, ScanPlus, ScanMinus, ScanPacket, ScanError, ScanNewline, ScanEOF,
                Serve, debuggerVars
  <2>2. Ended(input') => Ended(input)
    <3>1. \/ input' = input
          \/ input' = Tail(input) /\ input # <<>>
          \/ /\ input' = SubSeq(input, MatchEnd + 1, Len(input))
             /\ MatchEnd # 0
      BY <1>2 DEF Scanner, ScanPlus, ScanMinus, ScanPacket, ScanError, ScanNewline,
                  ScanEOF, Serve, Scanning
    <3>2. MatchEnd # 0 => MatchEnd \in Nat
      BY <1>1, MatchEnds
    <3> QED
      BY <1>1, <3>1, <3>2, EndedParts
  <2>3. scanner' = "returned" => scanner = "returned" \/ Ended(input)
    <3>1. CASE ScanEOF
      <4>1. Scanning /\ Head(input) = EOF
        BY <3>1 DEF ScanEOF
      <4>2. input[1] = EOF /\ 1 \in 1 .. Len(input)
        BY <1>1, <4>1, ScanHead
      <4> QED
        BY <4>2 DEF Ended
    <3>2. CASE ~ScanEOF
      BY <1>2, <3>2 DEF Scanner, ScanPlus, ScanMinus, ScanPacket, ScanError, ScanNewline,
                        Serve, scannerVars
    <3> QED
      BY <3>1, <3>2
  <2> QED
    BY <2>1, <2>2, <2>3 DEF Closed
<1>3. CASE Debugger
  <2>1. scanner' = scanner /\ waiting # "gone"
    BY <1>3 DEF Debugger, Ask, ReadAck, ReadAnswer, Timeout, Resend, scannerVars
  <2>2. Ended(input') => Ended(input)
    <3>1. CASE Ask
      <4>1. asked + 1 \in 1 .. Requests
        BY <3>1, LinkAssumption DEF Ask, LinkTyped, LinkTypeOK
      <4>2. Packet(asked + 1) \in Seq(Unit) /\ ~Ended(Packet(asked + 1))
        BY <4>1, PacketUnits, NotEnded
      <4> QED
        BY <3>1, <4>2, TransmitEnded DEF Ask
    <3>2. CASE ReadAck
      <4>1. asked \in 1 .. Requests
        BY <3>2, AccountNumbers DEF ReadAck
      <4>2. /\ Packet(asked) \in Seq(Unit) /\ ~Ended(Packet(asked))
            /\ <<>> \in Seq(Unit) /\ ~Ended(<<>>)
        BY <4>1, PacketUnits, NotEnded, SmallSequences
      <4>3. Transmit(Packet(asked)) \/ Transmit(<<>>)
        BY <3>2 DEF ReadAck
      <4> QED
        BY <4>2, <4>3, TransmitEnded
    <3>3. CASE ReadAnswer
      <4>1. Transmit(<<Plus>>) \/ Transmit(<<Minus>>) \/ Transmit(<<>>)
        BY <3>3 DEF ReadAnswer
      <4> QED
        BY <4>1, NotEnded, SmallSequences, TransmitEnded
    <3>4. CASE Timeout
      BY <3>4, ResendEnded DEF Timeout
    <3> QED
      BY <1>3, <3>1, <3>2, <3>3, <3>4 DEF Debugger
  <2> QED
    BY <2>1, <2>2 DEF Closed
<1>4. CASE Leave
  BY <1>4 DEF Leave, Closed
<1>5. CASE Faults
  <2>1. waiting' = waiting /\ scanner' = scanner
    BY <1>5 DEF Faults, DamageBody, Lose, Break, Stray, Impatience, scannerVars, debuggerVars
  <2>2. Ended(input') => Ended(input)
    <3>1. CASE DamageBody
      <4>1. Body(0) \in Unit /\ Body(0) # EOF
        BY LinkAssumption, Units, Kinds
      <4>2. input' = input \/ \E i \in 1 .. Len(input) : input' = [input EXCEPT ![i] = Body(0)]
        BY <1>1, <3>1 DEF DamageBody
      <4> QED
        BY <1>1, <4>1, <4>2, EndedParts
    <3>2. CASE Lose
      <4>1. input' = input \/ \E i \in 1 .. Len(input) : input' = RemoveAt(input, i)
        BY <1>1, <3>2 DEF Lose
      <4> QED
        BY <1>1, <4>1, EndedParts
    <3>3. CASE Break
      <4>1. PICK i \in 1 .. Len(input), byte \in {Other, Minus, BadHash} :
              input' = [input EXCEPT ![i] = byte]
        BY <1>1, <3>3 DEF Break
      <4>2. byte \in Unit /\ byte # EOF
        BY Units, Kinds DEF EOF, Other, BadHash
      <4> QED
        BY <1>1, <4>1, <4>2, EndedParts
    <3>4. CASE Stray
      BY <3>4, NotEnded, SmallSequences, TransmitEnded DEF Stray
    <3>5. CASE Impatience
      BY <3>5, ResendEnded DEF Impatience
    <3> QED
      BY <1>5, <3>1, <3>2, <3>3, <3>4, <3>5 DEF Faults
  <2> QED
    BY <2>1, <2>2 DEF Closed
<1> QED
  BY <1>2, <1>3, <1>4, <1>5

(* The account of a session is kept by every step.                         *)
LEMMA AccountKept ==
  ASSUME MaxErrorSize >= 3, Account, [LinkNext]_vars
  PROVE  Account'
<1>1. LinkTyped /\ Closed /\ Settled /\ LinkTyped'
  BY LinkTypedKept DEF Account
<1>2. CASE UNCHANGED vars
  <2>1. UNCHANGED <<input, output, errors, serving, executed, scanner, asked, waiting,
                    disturbances>>
    BY <1>2 DEF vars, scannerVars, debuggerVars, faultVars
  <2>2. Closed'
    BY <1>1, <2>1 DEF Closed
  <2>3. Due' = Due /\ Missing' = Missing
    BY <2>1 DEF Due, Missing
  <2>4. Settled'
    <3>1. PICK v, k, h, n : Settles(v, k, h, n)
      BY <1>1 DEF Settled
    <3>2. Settles(v, k, h, n)'
      BY <2>1, <2>3, <3>1 DEF Settles
    <3> QED
      BY <3>2 DEF Settled
  <2> QED
    BY <1>1, <2>2, <2>4 DEF Account
<1>3. CASE LinkNext
  <2>1. Closed'
    BY <1>1, <1>3, ClosedKept DEF LinkNext
  <2>2. Settled'
    BY <1>1, <1>3, ScannerSettles, DebuggerSettles, FaultsSettles DEF LinkNext
  <2> QED
    BY <1>1, <2>1, <2>2 DEF Account
<1> QED
  BY <1>2, <1>3

(* Each worse fault costs at most two repetitions, whatever the number of  *)
(* requests and faults and however the line mixes them, as long as the     *)
(* buffer of handle_error has room for two characters (MAX_ERROR_SIZE is   *)
(* 1024): with room for one, every character of a broken frame is refused  *)
(* on its own.                                                             *)
THEOREM RepetitionsBoundedHolds ==
  ASSUME MaxErrorSize >= 3
  PROVE  LinkSpec => []RepetitionsBounded
<1>1. LinkInit => Account
  BY InitAccount
<1>2. Account /\ [LinkNext]_vars => Account'
  BY AccountKept
<1>3. Account => RepetitionsBounded
  BY AccountBounds
<1> QED
  BY <1>1, <1>2, <1>3, PTL DEF LinkSpec

-----------------------------------------------------------------------------
(* Induction over an interval, for the members of a set.                   *)
LEMMA Induct ==
  ASSUME NEW a \in Int, NEW n \in Int, NEW T, a \in T,
         \A i \in a + 1 .. n : i - 1 \in T => i \in T
  PROVE  \A i \in a .. n : i \in T
<1>1. SUFFICES ASSUME NEW x \in a .. n, x \notin T PROVE FALSE
  OBVIOUS
<1> DEFINE W == {k \in 2 .. n - a + 2 : k + a - 2 \notin T}
<1>2. x - a + 2 \in W
  <2>1. x - a + 2 \in 2 .. n - a + 2 /\ (x - a + 2) + a - 2 = x
    BY <1>1
  <2> QED
    BY <1>1, <2>1
<1>3. PICK m \in W : \A k \in W : m <= k
  <2>1. W \subseteq 2 .. n - a + 2 /\ W # {}
    BY <1>2
  <2> HIDE DEF W
  <2> QED
    BY <2>1, Least
<1>4. m \in 2 .. n - a + 2 /\ m + a - 2 \notin T
  OBVIOUS
<1>5. m # 2
  <2>1. 2 + a - 2 = a
    OBVIOUS
  <2> QED
    BY <1>4, <2>1
<1>6. m - 1 \in 2 .. n - a + 2 /\ m - 1 \notin W
  BY <1>3, <1>4, <1>5
<1>7. (m - 1) + a - 2 \in T
  BY <1>6
<1>8. m + a - 2 \in a + 1 .. n /\ (m + a - 2) - 1 = (m - 1) + a - 2
  BY <1>4, <1>5
<1> QED
  BY <1>4, <1>7, <1>8

(* A function computed from its value at the number before.                *)
Recursive(f, S, base, n, step) ==
  /\ f \in [0 .. n -> S]
  /\ f[0] = base
  /\ \A i \in 1 .. n : f[i] = step[i][f[i - 1]]

(* It exists.                                                              *)
LEMMA RecursiveFunction ==
  ASSUME NEW S, NEW base \in S, NEW n \in Nat,
         NEW step \in [1 .. n -> [S -> S]]
  PROVE  \E f : Recursive(f, S, base, n, step)
<1> DEFINE T == {k \in 0 .. n : \E f : Recursive(f, S, base, k, step)}
<1>1. 0 \in T
  <2> DEFINE f == [i \in 0 .. 0 |-> base]
  <2>1. f \in [0 .. 0 -> S] /\ f[0] = base /\ \A i \in 1 .. 0 : f[i] = step[i][f[i - 1]]
    OBVIOUS
  <2> HIDE DEF f
  <2>2. Recursive(f, S, base, 0, step)
    BY <2>1 DEF Recursive
  <2> QED
    BY <2>2
<1>2. ASSUME NEW k \in 1 .. n, k - 1 \in T PROVE k \in T
  <2>1. PICK f : Recursive(f, S, base, k - 1, step)
    BY <1>2
  <2>2. /\ f \in [0 .. k - 1 -> S] /\ f[0] = base
        /\ \A i \in 1 .. k - 1 : f[i] = step[i][f[i - 1]]
    BY <2>1 DEF Recursive
  <2> DEFINE g == [i \in 0 .. k |-> IF i = k THEN step[k][f[k - 1]] ELSE f[i]]
  <2>3. f[k - 1] \in S /\ step[k][f[k - 1]] \in S
    BY <2>2
  <2>4. g \in [0 .. k -> S] /\ g[0] = base
    BY <2>2, <2>3
  <2>5. g[k] = step[k][f[k - 1]] /\ \A i \in 0 .. k - 1 : g[i] = f[i]
    OBVIOUS
  <2> HIDE DEF g
  <2>6. ASSUME NEW i \in 1 .. k PROVE g[i] = step[i][g[i - 1]]
    <3>1. g[i - 1] = f[i - 1]
      BY <2>5
    <3>2. CASE i = k
      BY <2>5, <3>1, <3>2
    <3>3. CASE i # k
      <4>1. i \in 1 .. k - 1 /\ i \in 0 .. k - 1
        BY <3>3
      <4> QED
        BY <2>2, <2>5, <3>1, <4>1
    <3> QED
      BY <3>2, <3>3
  <2>7. Recursive(g, S, base, k, step)
    BY <2>4, <2>6 DEF Recursive
  <2> QED
    BY <2>7
<1> HIDE DEF T
<1>3. \A k \in 0 .. n : k \in T
  <2>1. \A i \in 0 + 1 .. n : i - 1 \in T => i \in T
    BY <1>2
  <2>2. 0 \in Int /\ n \in Int
    OBVIOUS
  <2> QED
    BY <1>1, <2>1, <2>2, Induct
<1>4. n \in T
  BY <1>3
<1> QED
  BY <1>4 DEF T

-----------------------------------------------------------------------------
(* The tables, entry by entry.                                             *)
LEMMA TableEntries ==
  /\ /\ yy_accept[1] = 0 /\ yy_accept[4] = 4 /\ yy_accept[5] = 5 /\ yy_accept[6] = 4
     /\ yy_accept[7] = 1 /\ yy_accept[8] = 2 /\ yy_accept[9] = 0 /\ yy_accept[10] = 0
     /\ yy_accept[11] = 0 /\ yy_accept[12] = 3 /\ yy_accept[13] = 0
  /\ /\ yy_base[0] = 0 /\ yy_base[1] = 0 /\ yy_base[2] = 0 /\ yy_base[3] = 13
     /\ yy_base[4] = 14 /\ yy_base[5] = 14 /\ yy_base[6] = 9 /\ yy_base[7] = 14
     /\ yy_base[8] = 14 /\ yy_base[9] = 8 /\ yy_base[10] = 3 /\ yy_base[11] = 2
     /\ yy_base[12] = 14 /\ yy_base[13] = 14 /\ yy_base[14] = 7
  /\ /\ yy_def[0] = 0 /\ yy_def[1] = 13 /\ yy_def[2] = 1 /\ yy_def[3] = 13
     /\ yy_def[4] = 13 /\ yy_def[5] = 13 /\ yy_def[6] = 14 /\ yy_def[7] = 13
     /\ yy_def[8] = 13 /\ yy_def[9] = 14 /\ yy_def[10] = 13 /\ yy_def[11] = 13
     /\ yy_def[12] = 13 /\ yy_def[13] = 0 /\ yy_def[14] = 13
  /\ /\ yy_meta[0] = 0 /\ yy_meta[1] = 1 /\ yy_meta[2] = 1 /\ yy_meta[3] = 1
     /\ yy_meta[4] = 2 /\ yy_meta[5] = 1 /\ yy_meta[6] = 1 /\ yy_meta[7] = 1
  /\ /\ yy_chk[0] = 0 /\ yy_chk[1] = 1 /\ yy_chk[2] = 1 /\ yy_chk[3] = 1 /\ yy_chk[4] = 1
     /\ yy_chk[5] = 1 /\ yy_chk[6] = 1 /\ yy_chk[7] = 1 /\ yy_chk[8] = 14 /\ yy_chk[9] = 11
     /\ yy_chk[10] = 10 /\ yy_chk[11] = 9 /\ yy_chk[12] = 6 /\ yy_chk[13] = 3
     /\ \A i \in 14 .. 21 : yy_chk[i] = 13
  /\ /\ yy_nxt[0] = 0 /\ yy_nxt[1] = 4 /\ yy_nxt[2] = 5 /\ yy_nxt[3] = 4 /\ yy_nxt[4] = 6
     /\ yy_nxt[5] = 7 /\ yy_nxt[6] = 8 /\ yy_nxt[7] = 4 /\ yy_nxt[8] = 9 /\ yy_nxt[9] = 12
     /\ yy_nxt[10] = 11 /\ yy_nxt[11] = 10 /\ yy_nxt[12] = 10 /\ yy_nxt[13] = 13
     /\ yy_nxt[14] = 3 /\ \A i \in 15 .. 21 : yy_nxt[i] = 13
<1>1. /\ yy_accept[1] = 0 /\ yy_accept[4] = 4 /\ yy_accept[5] = 5 /\ yy_accept[6] = 4
      /\ yy_accept[7] = 1 /\ yy_accept[8] = 2 /\ yy_accept[9] = 0 /\ yy_accept[10] = 0
      /\ yy_accept[11] = 0 /\ yy_accept[12] = 3 /\ yy_accept[13] = 0
  BY DEF yy_accept, Table
<1>2. /\ yy_base[0] = 0 /\ yy_base[1] = 0 /\ yy_base[2] = 0 /\ yy_base[3] = 13
      /\ yy_base[4] = 14 /\ yy_base[5] = 14 /\ yy_base[6] = 9 /\ yy_base[7] = 14
      /\ yy_base[8] = 14 /\ yy_base[9] = 8 /\ yy_base[10] = 3 /\ yy_base[11] = 2
      /\ yy_base[12] = 14 /\ yy_base[13] = 14 /\ yy_base[14] = 7
  BY DEF yy_base, Table
<1>3. /\ yy_def[0] = 0 /\ yy_def[1] = 13 /\ yy_def[2] = 1 /\ yy_def[3] = 13
      /\ yy_def[4] = 13 /\ yy_def[5] = 13 /\ yy_def[6] = 14 /\ yy_def[7] = 13
      /\ yy_def[8] = 13 /\ yy_def[9] = 14 /\ yy_def[10] = 13 /\ yy_def[11] = 13
      /\ yy_def[12] = 13 /\ yy_def[13] = 0 /\ yy_def[14] = 13
  BY DEF yy_def, Table
<1>4. /\ yy_meta[0] = 0 /\ yy_meta[1] = 1 /\ yy_meta[2] = 1 /\ yy_meta[3] = 1
      /\ yy_meta[4] = 2 /\ yy_meta[5] = 1 /\ yy_meta[6] = 1 /\ yy_meta[7] = 1
  BY DEF yy_meta, Table
<1>5. /\ yy_chk[0] = 0 /\ yy_chk[1] = 1 /\ yy_chk[2] = 1 /\ yy_chk[3] = 1 /\ yy_chk[4] = 1
      /\ yy_chk[5] = 1 /\ yy_chk[6] = 1 /\ yy_chk[7] = 1 /\ yy_chk[8] = 14 /\ yy_chk[9] = 11
      /\ yy_chk[10] = 10 /\ yy_chk[11] = 9 /\ yy_chk[12] = 6 /\ yy_chk[13] = 3
      /\ \A i \in 14 .. 21 : yy_chk[i] = 13
  BY DEF yy_chk, Table
<1>6. /\ yy_nxt[0] = 0 /\ yy_nxt[1] = 4 /\ yy_nxt[2] = 5 /\ yy_nxt[3] = 4 /\ yy_nxt[4] = 6
      /\ yy_nxt[5] = 7 /\ yy_nxt[6] = 8 /\ yy_nxt[7] = 4 /\ yy_nxt[8] = 9 /\ yy_nxt[9] = 12
      /\ yy_nxt[10] = 11 /\ yy_nxt[11] = 10 /\ yy_nxt[12] = 10 /\ yy_nxt[13] = 13
      /\ yy_nxt[14] = 3 /\ \A i \in 15 .. 21 : yy_nxt[i] = 13
  BY DEF yy_nxt, Table
<1> QED
  BY <1>1, <1>2, <1>3, <1>4, <1>5, <1>6

(* The automaton that the tables compress: from the start every character  *)
(* leads to the state of its rule, "$" to 6; from there and from 9 "#"     *)
(* leads to 10, another "$" nowhere, the rest to 9; two digits lead from   *)
(* 10 over 11 to 12.                                                       *)
Automaton(s, c) ==
  CASE s = 0 \/ c = 0 -> IF s = 0 THEN 0 ELSE IF s = 3 THEN 13 ELSE 3
    [] s \in {1, 2} /\ c # 0 -> yy_nxt[c]
    [] s \in {6, 9} /\ c # 0 -> IF c = 3 THEN 10 ELSE IF c = 4 THEN 13 ELSE 9
    [] s = 10 /\ c # 0 -> IF c = 7 THEN 11 ELSE 13
    [] s = 11 /\ c # 0 -> IF c = 7 THEN 12 ELSE 13
    [] s = 14 /\ c # 0 -> IF c = 1 THEN 9 ELSE 13
    [] s \in {3, 4, 5, 7, 8, 12, 13} /\ c # 0 -> 13

(* One step of the search through the tables.                              *)
LEMMA AutomatonFound ==
  ASSUME NEW s \in 0 .. 14, NEW c \in 0 .. 7
  PROVE  Automaton(s, c) =
           IF yy_chk[yy_base[s] + c] = s THEN yy_nxt[yy_base[s] + c]
           ELSE Automaton(yy_def[s], IF yy_def[s] >= 14 THEN yy_meta[c] ELSE c)
<1>0. CASE s = 0
  BY <1>0, TableEntries DEF Automaton
<1>1. CASE s = 1
  BY <1>1, TableEntries DEF Automaton
<1>2. CASE s = 2
  BY <1>2, TableEntries DEF Automaton
<1>3. CASE s = 3
  BY <1>3, TableEntries DEF Automaton
<1>4. CASE s \in {4, 5, 7, 8, 12}
  BY <1>4, TableEntries DEF Automaton
<1>6. CASE s = 6
  BY <1>6, TableEntries DEF Automaton
<1>9. CASE s = 9
  BY <1>9, TableEntries DEF Automaton
<1>10. CASE s = 10
  BY <1>10, TableEntries DEF Automaton
<1>11. CASE s = 11
  BY <1>11, TableEntries DEF Automaton
<1>13. CASE s = 13
  BY <1>13, TableEntries DEF Automaton
<1>14. CASE s = 14
  BY <1>14, TableEntries DEF Automaton
<1> QED
  BY <1>0, <1>1, <1>2, <1>3, <1>4, <1>6, <1>9, <1>10, <1>11, <1>13, <1>14

-----------------------------------------------------------------------------
(* The search through the tables finds the automaton.                      *)
LEMMA SuccessorFound ==
  /\ \A s \in 1 .. 13, c \in 1 .. 7 : Successor[s][c] = Automaton(s, c)
  /\ \A s \in 1 .. 13, c \in 1 .. 7 : Automaton(s, c) \in 1 .. 13
<1> DEFINE Made(g) == [s \in 0 .. 14 |-> [c \in 0 .. 7 |->
              IF yy_chk[yy_base[s] + c] = s THEN yy_nxt[yy_base[s] + c]
              ELSE g[yy_def[s]][IF yy_def[s] >= 14 THEN yy_meta[c] ELSE c]]]
           go == CHOOSE g : g = Made(g)
<1>1. Successor = [s \in 1 .. 13 |-> [c \in 1 .. 7 |-> go[s][c]]]
  BY DEF Successor
<1>2. \A s \in 0 .. 14 : yy_def[s] \in 0 .. 14
  BY TableEntries
<1>3. \A c \in 0 .. 7 : yy_meta[c] \in 0 .. 7
  BY TableEntries
<1>4. \E g : g = Made(g)
  <2> DEFINE a == [s \in 0 .. 14 |-> [c \in 0 .. 7 |-> Automaton(s, c)]]
  <2>1. \A s \in 0 .. 14, c \in 0 .. 7 : a[s][c] = Automaton(s, c)
    OBVIOUS
  <2>2. ASSUME NEW s \in 0 .. 14, NEW c \in 0 .. 7
        PROVE  Automaton(s, c) =
            IF yy_chk[yy_base[s] + c] = s THEN yy_nxt[yy_base[s] + c]
            ELSE a[yy_def[s]][IF yy_def[s] >= 14 THEN yy_meta[c] ELSE c]
    <3>1. PICK d \in 0 .. 7 : d = IF yy_def[s] >= 14 THEN yy_meta[c] ELSE c
      BY <1>3
    <3>2. a[yy_def[s]][d] = Automaton(yy_def[s], d)
      BY <1>2, <2>1
    <3> HIDE DEF a
    <3> QED
      BY <3>1, <3>2, AutomatonFound
  <2>3. a = Made(a)
    <3> DEFINE b(s, c) == IF yy_chk[yy_base[s] + c] = s THEN yy_nxt[yy_base[s] + c]
                 ELSE a[yy_def[s]][IF yy_def[s] >= 14 THEN yy_meta[c] ELSE c]
    <3>1. \A s \in 0 .. 14, c \in 0 .. 7 : Automaton(s, c) = b(s, c)
      BY <2>2
    <3>2. Made(a) = [s \in 0 .. 14 |-> [c \in 0 .. 7 |-> b(s, c)]]
      OBVIOUS
    <3> HIDE DEF b
    <3>3. \A s \in 0 .. 14 : [c \in 0 .. 7 |-> Automaton(s, c)] = [c \in 0 .. 7 |-> b(s, c)]
      BY <3>1
    <3>4. a = [s \in 0 .. 14 |-> [c \in 0 .. 7 |-> b(s, c)]]
      BY <3>3
    <3> QED
      BY <3>2, <3>4, Zenon
  <2> QED
    BY <2>3
<1> HIDE DEF Made
<1>5. go = Made(go)
  BY <1>4, Zenon
<1> HIDE DEF go
<1>6. \A s \in 0 .. 14, c \in 0 .. 7 :
        go[s][c] = IF yy_chk[yy_base[s] + c] = s THEN yy_nxt[yy_base[s] + c]
                   ELSE go[yy_def[s]][IF yy_def[s] >= 14 THEN yy_meta[c] ELSE c]
  <2> DEFINE b(s, c) == IF yy_chk[yy_base[s] + c] = s THEN yy_nxt[yy_base[s] + c]
                   ELSE go[yy_def[s]][IF yy_def[s] >= 14 THEN yy_meta[c] ELSE c]
  <2>1. Made(go) = [s \in 0 .. 14 |-> [c \in 0 .. 7 |-> b(s, c)]]
    BY DEF Made
  <2> HIDE DEF b
  <2>2. \A s \in 0 .. 14 : go[s] = [c \in 0 .. 7 |-> b(s, c)]
    BY <1>5, <2>1
  <2>3. \A s \in 0 .. 14, c \in 0 .. 7 : go[s][c] = b(s, c)
    BY <2>2
  <2> QED
    BY <2>3 DEF b
<1>7. \A c \in 1 .. 7 : go[13][c] = 13 /\ go[1][c] = yy_nxt[c]
  BY <1>6, TableEntries, SMTT(60)
<1>8. \A c \in 1 .. 7 : go[14][c] = IF c = 1 THEN 9 ELSE 13
  BY <1>6, <1>7, TableEntries, SMTT(60)
<1>9. ASSUME NEW s \in 1 .. 13, NEW c \in 1 .. 7
      PROVE  go[s][c] = Automaton(s, c)
  <2>1. CASE s \in {1, 2}
    BY <1>6, <1>7, <2>1, TableEntries, SMTT(60) DEF Automaton
  <2>2. CASE s \in {3, 4, 5, 7, 8, 12, 13}
    <3>1. Automaton(s, c) = 13
      BY <2>2 DEF Automaton
    <3>2. CASE s = 3
      BY <1>6, <1>7, <3>1, <3>2, TableEntries, SMTT(60)
    <3>3. CASE s \in {4, 5, 7, 8, 12}
      BY <1>6, <1>7, <3>1, <3>3, TableEntries, SMTT(60)
    <3>4. CASE s = 13
      BY <1>7, <3>1, <3>4
    <3> QED
      BY <2>2, <3>2, <3>3, <3>4
  <2>3. CASE s = 6
    BY <1>6, <1>8, <2>3, TableEntries, SMTT(60) DEF Automaton
  <2>4. CASE s = 9
    BY <1>6, <1>8, <2>4, TableEntries, SMTT(60) DEF Automaton
  <2>5. CASE s = 10
    BY <1>6, <1>7, <2>5, TableEntries, SMTT(60) DEF Automaton
  <2>6. CASE s = 11
    BY <1>6, <1>7, <2>6, TableEntries, SMTT(60) DEF Automaton
  <2> QED
    BY <2>1, <2>2, <2>3, <2>4, <2>5, <2>6
<1>10. \A s \in 1 .. 13, c \in 1 .. 7 : Successor[s][c] = Automaton(s, c)
  BY <1>1, <1>9
<1>11. \A s \in 1 .. 13, c \in 1 .. 7 : Automaton(s, c) \in 1 .. 13
  BY TableEntries DEF Automaton
<1> QED
  BY <1>10, <1>11

(* The classes of all characters but "#" and "$". *)
Plain == {1, 2, 5, 6, 7}

(* The classes of the characters that units are spelled with.              *)
LEMMA Classes ==
  /\ \A ch \in 0 .. 255 : yy_ec[ch] \in 1 .. 7
  /\ yy_ec[36] = 4 /\ yy_ec[35] = 3 /\ yy_ec[43] = 5 /\ yy_ec[45] = 6 /\ yy_ec[10] = 2
  /\ yy_ec[0] = 1 /\ yy_ec[99] = 7 /\ yy_ec[120] = 1 /\ yy_ec[48] = 7 /\ yy_ec[97] = 7
BY DEF yy_ec

(* A sequence of states that reads the characters. *)
Reads(f, n, chars) ==
  /\ Len(chars) = n /\ f \in [0 .. n -> 1 .. 13] /\ f[0] = 1
  /\ \A i \in 1 .. n : f[i] = Successor[f[i - 1]][yy_ec[chars[i]]]

(* StatesOf is that sequence, counted from 1.                              *)
LEMMA StatesEquation ==
  ASSUME NEW chars, NEW n \in Nat, NEW f, Reads(f, n, chars)
  PROVE  /\ DOMAIN StatesOf(chars) = 1 .. n + 1
         /\ \A i \in 1 .. n + 1 : StatesOf(chars)[i] = f[i - 1]
<1> DEFINE Made(g) == [i \in 1 .. Len(chars) + 1 |->
              IF i = 1 THEN 1 ELSE Successor[g[i - 1]][yy_ec[chars[i - 1]]]]
           state == CHOOSE g : g = Made(g)
<1>0. /\ Len(chars) = n /\ f \in [0 .. n -> 1 .. 13] /\ f[0] = 1
      /\ \A i \in 1 .. n : f[i] = Successor[f[i - 1]][yy_ec[chars[i]]]
  BY DEF Reads
<1>1. StatesOf(chars) = state
  BY DEF StatesOf
<1>2. \E g : g = Made(g)
  <2> DEFINE a == [i \in 1 .. n + 1 |-> f[i - 1]]
  <2>1. \A i \in 1 .. n + 1 : i # 1 => i - 1 \in 1 .. n + 1 /\ i - 1 \in 1 .. n
    OBVIOUS
  <2>2. \A i \in 1 .. n + 1 : i # 1 => a[i - 1] = f[(i - 1) - 1]
    BY <2>1
  <2> HIDE DEF a
  <2>3. \A i \in 1 .. n + 1 :
          f[i - 1] = IF i = 1 THEN 1 ELSE Successor[a[i - 1]][yy_ec[chars[i - 1]]]
    BY <1>0, <2>1, <2>2
  <2>4. a = Made(a)
    BY <1>0, <2>3 DEF a
  <2> QED
    BY <2>4
<1> HIDE DEF Made
<1>3. state = Made(state)
  BY <1>2, Zenon
<1> HIDE DEF state
<1>4. /\ DOMAIN state = 1 .. n + 1
      /\ \A i \in 1 .. n + 1 :
            state[i] = IF i = 1 THEN 1 ELSE Successor[state[i - 1]][yy_ec[chars[i - 1]]]
  BY <1>0, <1>3 DEF Made
<1> DEFINE T == {i \in 1 .. n + 1 : state[i] = f[i - 1]}
<1>5. 1 \in T
  <2>1. 1 \in 1 .. n + 1 /\ state[1] = 1
    BY <1>4
  <2> QED
    BY <1>0, <2>1
<1>6. ASSUME NEW i \in 1 + 1 .. n + 1, i - 1 \in T PROVE i \in T
  <2>1. i \in 1 .. n + 1 /\ i # 1 /\ i - 1 \in 1 .. n /\ state[i - 1] = f[(i - 1) - 1]
    BY <1>6
  <2>2. state[i] = Successor[state[i - 1]][yy_ec[chars[i - 1]]]
    BY <1>4, <2>1
  <2>3. state[i] = f[i - 1]
    BY <1>0, <2>1, <2>2
  <2> QED
    BY <2>1, <2>3
<1> HIDE DEF T
<1>7. \A i \in 1 .. n + 1 : i \in T
  <2>1. 1 \in Int /\ n + 1 \in Int
    OBVIOUS
  <2>2. \A i \in 1 + 1 .. n + 1 : i - 1 \in T => i \in T
    BY <1>6
  <2> QED
    BY <1>5, <2>1, <2>2, Induct
<1> QED
  BY <1>1, <1>4, <1>7 DEF T

(* The states while the characters are read.                               *)
LEMMA StatesFound ==
  ASSUME NEW chars \in Seq(0 .. 255)
  PROVE  /\ DOMAIN StatesOf(chars) = 1 .. Len(chars) + 1
         /\ StatesOf(chars)[1] = 1
         /\ \A i \in 1 .. Len(chars) :
              /\ StatesOf(chars)[i] \in 1 .. 13 /\ yy_ec[chars[i]] \in 1 .. 7
              /\ StatesOf(chars)[i + 1] = Automaton(StatesOf(chars)[i], yy_ec[chars[i]])
<1>1. PICK n \in Nat : n = Len(chars)
  BY LenProperties
<1>2. \A i \in 1 .. n : chars[i] \in 0 .. 255
  BY <1>1, ElementOfSeq
<1> DEFINE cl(i) == yy_ec[chars[i]]
           S == 1 .. 13
           step == [i \in 1 .. n |-> [s \in S |-> Automaton(s, cl(i))]]
<1>3. ASSUME NEW i \in 1 .. n PROVE cl(i) \in 1 .. 7
  <2>1. PICK ch \in 0 .. 255 : ch = chars[i]
    BY <1>2
  <2>2. yy_ec[ch] \in 1 .. 7
    BY Classes
  <2> QED
    BY <2>1, <2>2
<1> HIDE DEF cl
<1>4. step \in [1 .. n -> [S -> S]]
  BY <1>3, SuccessorFound
<1>5. 1 \in S
  OBVIOUS
<1> HIDE DEF S, step
<1>6. PICK f : Recursive(f, S, 1, n, step)
  BY <1>4, <1>5, RecursiveFunction
<1>7. f \in [0 .. n -> S] /\ f[0] = 1 /\ \A i \in 1 .. n : f[i] = step[i][f[i - 1]]
  BY <1>6 DEF Recursive
<1>8. \A i \in 1 .. n : f[i - 1] \in S /\ f[i] = Automaton(f[i - 1], cl(i))
  <2>1. \A i \in 1 .. n : f[i - 1] \in S
    BY <1>7
  <2> QED
    BY <1>7, <2>1 DEF step
<1>9. \A i \in 1 .. n : f[i] = Successor[f[i - 1]][cl(i)]
  BY <1>3, <1>8, SuccessorFound DEF S
<1>10. /\ DOMAIN StatesOf(chars) = 1 .. n + 1
       /\ \A i \in 1 .. n + 1 : StatesOf(chars)[i] = f[i - 1]
  <2>1. f \in [0 .. n -> 1 .. 13]
    BY <1>7 DEF S
  <2>2. \A i \in 1 .. n : f[i] = Successor[f[i - 1]][yy_ec[chars[i]]]
    BY <1>9 DEF cl
  <2>3. Len(chars) = n /\ f[0] = 1
    BY <1>1, <1>7
  <2> QED
    <3>1. Reads(f, n, chars)
      BY <2>1, <2>2, <2>3 DEF Reads
    <3> QED
      BY <3>1, StatesEquation
<1>11. StatesOf(chars)[1] = 1
  <2>1. 1 \in 1 .. n + 1 /\ 1 - 1 = 0
    OBVIOUS
  <2> QED
    BY <1>7, <1>10, <2>1
<1>12. ASSUME NEW i \in 1 .. n
       PROVE  /\ StatesOf(chars)[i] \in 1 .. 13 /\ cl(i) \in 1 .. 7
              /\ StatesOf(chars)[i + 1] = Automaton(StatesOf(chars)[i], cl(i))
  <2>1. i \in 1 .. n + 1 /\ i + 1 \in 1 .. n + 1 /\ (i + 1) - 1 = i
    OBVIOUS
  <2>2. StatesOf(chars)[i] = f[i - 1] /\ StatesOf(chars)[i + 1] = f[i]
    BY <1>10, <2>1
  <2> QED
    BY <1>3, <1>8, <2>2 DEF S
<1> QED
  BY <1>1, <1>10, <1>11, <1>12 DEF cl

-----------------------------------------------------------------------------
(* The least and the greatest of some numbers.                             *)
LEMMA Extremes ==
  ASSUME NEW S, S \subseteq Int, NEW m \in S
  PROVE  /\ (\A i \in S : m <= i) => Min(S) = m
         /\ (\A i \in S : m >= i) => Max(S) = m
<1>1. ASSUME \A i \in S : m <= i PROVE Min(S) = m
  <2>1. PICK x : x = Min(S)
    OBVIOUS
  <2>2. x \in S /\ \A i \in S : x <= i
    BY <1>1, <2>1 DEF Min
  <2>3. x \in Int /\ m \in Int /\ x <= m /\ m <= x
    BY <1>1, <2>2
  <2> QED
    BY <2>1, <2>3
<1>2. ASSUME \A i \in S : m >= i PROVE Max(S) = m
  <2>1. PICK x : x = Max(S)
    OBVIOUS
  <2>2. x \in S /\ \A i \in S : x >= i
    BY <1>2, <2>1 DEF Max
  <2>3. x \in Int /\ m \in Int /\ x <= m /\ m <= x
    BY <1>2, <2>2
  <2> QED
    BY <2>1, <2>3
<1> QED
  BY <1>1, <1>2

(* The loop stops in the first state without successors and goes back to   *)
(* the last one that accepts.                                              *)
LEMMA MatchStops ==
  ASSUME NEW chars \in Seq(0 .. 255), NEW eof \in BOOLEAN,
         NEW p \in 1 .. Len(chars) + 1, NEW q \in 1 .. p,
         yy_base[StatesOf(chars)[p]] = 14,
         \A i \in 1 .. p - 1 : yy_base[StatesOf(chars)[i]] # 14,
         yy_accept[StatesOf(chars)[q]] # 0,
         \A i \in q + 1 .. p : yy_accept[StatesOf(chars)[i]] = 0
  PROVE  yy_match(chars, eof) = [rule |-> yy_accept[StatesOf(chars)[q]], length |-> q - 1]
<1> DEFINE n == Len(chars)
           state == StatesOf(chars)
           stops == {i \in DOMAIN state : yy_base[state[i]] = 14}
           end == IF stops = {} THEN n + 1 ELSE Min(stops)
           accepted == {i \in 1 .. end : yy_accept[state[i]] # 0}
<1>1. n \in Nat /\ DOMAIN state = 1 .. n + 1
  BY StatesFound, LenProperties
<1>2. yy_match(chars, eof) =
        IF (stops = {} /\ ~eof) \/ accepted = {} THEN Waiting
        ELSE [rule |-> yy_accept[state[Max(accepted)]], length |-> Max(accepted) - 1]
  BY DEF yy_match
<1>3. stops # {} /\ end = p
  <2>1. p \in stops
    BY <1>1
  <2>2. \A i \in stops : p <= i
    <3>1. ASSUME NEW i \in stops, ~(p <= i) PROVE FALSE
      <4>1. i \in 1 .. p - 1 /\ yy_base[state[i]] = 14
        BY <1>1, <3>1
      <4> QED
        BY <4>1
    <3> QED
      BY <3>1
  <2>3. stops \subseteq Int
    BY <1>1
  <2> HIDE DEF stops
  <2>5. Min(stops) = p
    BY <2>1, <2>2, <2>3, Extremes
  <2> QED
    BY <2>1, <2>5
<1>4. accepted # {} /\ Max(accepted) = q
  <2>1. accepted = {i \in 1 .. p : yy_accept[state[i]] # 0}
    BY <1>3
  <2>2. q \in accepted /\ accepted \subseteq Int
    BY <1>1, <2>1
  <2>3. \A i \in accepted : q >= i
    <3>1. ASSUME NEW i \in accepted, ~(q >= i) PROVE FALSE
      <4>1. i \in q + 1 .. p /\ yy_accept[state[i]] # 0
        BY <1>1, <2>1, <3>1
      <4> QED
        BY <4>1
    <3> QED
      BY <3>1
  <2> HIDE DEF accepted
  <2>5. Max(accepted) = q
    BY <2>2, <2>3, Extremes
  <2> QED
    BY <2>2, <2>5
<1> HIDE DEF stops, accepted, end
<1> QED
  BY <1>2, <1>3, <1>4

(* Without such a state it waits for more, and at the end of the stream it *)
(* takes the last rule that accepted.                                      *)
LEMMA MatchRunsOut ==
  ASSUME NEW chars \in Seq(0 .. 255), NEW eof \in BOOLEAN,
         \A i \in 1 .. Len(chars) + 1 : yy_base[StatesOf(chars)[i]] # 14
  PROVE  /\ ~eof => yy_match(chars, eof) = Waiting
         /\ \A q \in 1 .. Len(chars) + 1 :
              /\ eof /\ yy_accept[StatesOf(chars)[q]] # 0
              /\ \A i \in q + 1 .. Len(chars) + 1 : yy_accept[StatesOf(chars)[i]] = 0
              => yy_match(chars, eof) =
                   [rule |-> yy_accept[StatesOf(chars)[q]], length |-> q - 1]
<1> DEFINE n == Len(chars)
           state == StatesOf(chars)
           stops == {i \in DOMAIN state : yy_base[state[i]] = 14}
           end == IF stops = {} THEN n + 1 ELSE Min(stops)
           accepted == {i \in 1 .. end : yy_accept[state[i]] # 0}
<1>1. n \in Nat /\ DOMAIN state = 1 .. n + 1
  BY StatesFound, LenProperties
<1>2. yy_match(chars, eof) =
        IF (stops = {} /\ ~eof) \/ accepted = {} THEN Waiting
        ELSE [rule |-> yy_accept[state[Max(accepted)]], length |-> Max(accepted) - 1]
  BY DEF yy_match
<1>3. stops = {} /\ end = n + 1
  BY <1>1
<1>4. ~eof => yy_match(chars, eof) = Waiting
  <2> HIDE DEF stops, accepted
  <2> QED
    BY <1>2, <1>3
<1>5. ASSUME NEW q \in 1 .. n + 1, eof, yy_accept[state[q]] # 0,
             \A i \in q + 1 .. n + 1 : yy_accept[state[i]] = 0
      PROVE  yy_match(chars, eof) = [rule |-> yy_accept[state[q]], length |-> q - 1]
  <2>1. accepted = {i \in 1 .. n + 1 : yy_accept[state[i]] # 0}
    BY <1>3
  <2>2. q \in accepted /\ accepted \subseteq Int
    BY <1>1, <1>5, <2>1
  <2>3. \A i \in accepted : q >= i
    <3>1. ASSUME NEW i \in accepted, ~(q >= i) PROVE FALSE
      <4>1. i \in q + 1 .. n + 1 /\ yy_accept[state[i]] # 0
        BY <1>1, <2>1, <3>1
      <4> QED
        BY <1>5, <4>1
    <3> QED
      BY <3>1
  <2> HIDE DEF accepted
  <2>5. Max(accepted) = q
    BY <2>2, <2>3, Extremes
  <2> HIDE DEF stops
  <2> QED
    BY <1>2, <1>3, <1>5, <2>2, <2>5
<1> QED
  BY <1>4, <1>5

-----------------------------------------------------------------------------
(* Sequences of characters. *)
Chars == Seq(0 .. 255)

(* The characters of the units.                                            *)
LEMMA SpelledUnits ==
  /\ \A u \in Unit : Spelled(u) \in Chars
  /\ \A u : IsHash(u) => Spelled(u) = <<35, 48, 97>>
  /\ Spelled(Dollar) = <<36>> /\ Spelled(BadHash) = <<35, 120>>
  /\ Spelled(Plus) = <<43>> /\ Spelled(Minus) = <<45>> /\ Spelled(Newline) = <<10>>
  /\ Spelled(EOF) = <<>>
  /\ \A u : Character(u) => \E ch \in {0, 99, 120} : Spelled(u) = <<ch>>
<1>1. \A u \in {Dollar, BadHash, Plus, Minus, Other, Newline, EOF} :
        ~IsHash(u) /\ u[1] # "body"
  BY Units DEF Dollar, BadHash, Plus, Minus, Other, Newline, EOF
<1>2. \A u : IsHash(u) => /\ u \notin {Dollar, BadHash, Plus, Minus, Other, Newline, EOF}
                          /\ u[1] # "body"
  BY <1>1 DEF IsHash
<1>3. Newline \notin {Dollar, BadHash, Plus, Minus, Other, EOF}
  BY Kinds DEF Newline, BadHash, Other
<1>4. Spelled(Dollar) = <<36>>
  BY <1>1, Kinds DEF Spelled
<1>5. Spelled(BadHash) = <<35, 120>>
  BY <1>1, <1>3, Kinds DEF Spelled
<1>6. Spelled(Plus) = <<43>>
  BY <1>1, <1>3, Kinds DEF Spelled
<1>7. Spelled(Minus) = <<45>>
  BY <1>1, <1>3, Kinds DEF Spelled
<1>8. Spelled(Newline) = <<10>>
  BY <1>1, <1>3, Kinds DEF Spelled
<1>9. Spelled(EOF) = <<>>
  BY <1>1, <1>3, Kinds DEF Spelled
<1>10. Spelled(Other) = <<0>>
  BY <1>1, <1>3, Kinds DEF Spelled
<1>11. \A u : IsHash(u) => Spelled(u) = <<35, 48, 97>>
  BY <1>2 DEF Spelled
<1>12. \A n : Spelled(Body(n)) = IF Body(n) = Body(0) THEN <<120>> ELSE <<99>>
  <2>1. \A n : /\ Body(n)[1] = "body" /\ ~IsHash(Body(n))
               /\ Body(n) \notin {Dollar, BadHash, Plus, Minus, Other, Newline, EOF}
    BY Kinds, Units
  <2> QED
    BY <2>1 DEF Spelled
<1>13. \A u : Character(u) => \E ch \in {0, 99, 120} : Spelled(u) = <<ch>>
  BY <1>10, <1>12 DEF Character
<1>14. ASSUME NEW u \in Unit PROVE Spelled(u) \in Chars
  <2>1. <<35, 48, 97>> \in Chars /\ <<35, 120>> \in Chars /\ <<>> \in Chars
    BY DEF Chars
  <2>2. \A ch \in 0 .. 255 : <<ch>> \in Chars
    BY DEF Chars
  <2>3. CASE IsHash(u)
    BY <1>11, <2>1, <2>3
  <2>4. CASE u \in {Dollar, BadHash, Plus, Minus, Newline, EOF}
    <3>1. /\ <<36>> \in Chars /\ <<43>> \in Chars /\ <<45>> \in Chars
          /\ <<10>> \in Chars
      BY <2>2
    <3>2. CASE u = Dollar
      BY <1>4, <3>1, <3>2
    <3>3. CASE u = BadHash
      BY <1>5, <2>1, <3>3
    <3>4. CASE u = Plus
      BY <1>6, <3>1, <3>4
    <3>5. CASE u = Minus
      BY <1>7, <3>1, <3>5
    <3>6. CASE u = Newline
      BY <1>8, <3>1, <3>6
    <3>7. CASE u = EOF
      BY <1>9, <2>1, <3>7
    <3> QED
      BY <2>4, <3>2, <3>3, <3>4, <3>5, <3>6, <3>7
  <2>5. CASE Character(u)
    <3>1. PICK ch \in {0, 99, 120} : Spelled(u) = <<ch>>
      BY <1>13, <2>5
    <3>2. ch \in 0 .. 255
      OBVIOUS
    <3> QED
      BY <2>2, <3>1, <3>2
  <2> QED
    BY <2>3, <2>4, <2>5, UnitKinds
<1> QED
  BY <1>4, <1>5, <1>6, <1>7, <1>8, <1>9, <1>11, <1>13, <1>14

(* What is written of the first i of a sequence of sequences is f[i]. *)
Joins(f, t, m, S) ==
  /\ t \in Seq(Seq(S)) /\ t # <<>> /\ m \in Nat /\ m >= Len(t)
  /\ f \in [0 .. m -> Seq(S)] /\ f[0] = <<>>
  /\ \A i \in 1 .. Len(t) : f[i] = f[i - 1] \o t[i]

(* What is written of all of them is the flat sequence.                    *)
LEMMA FlattenIs ==
  ASSUME NEW S, NEW t, NEW m, NEW f, Joins(f, t, m, S)
  PROVE  FlattenSeq(t) = f[Len(t)]
<1> DEFINE n == Len(t)
           Made(g) == [i \in 1 .. Len(t) |-> IF i = 1 THEN t[i] ELSE g[i - 1] \o t[i]]
           flatten == CHOOSE g : g = Made(g)
<1>0. /\ t \in Seq(Seq(S)) /\ t # <<>> /\ m \in Nat /\ m >= Len(t)
      /\ f \in [0 .. m -> Seq(S)] /\ f[0] = <<>>
      /\ \A i \in 1 .. n : f[i] = f[i - 1] \o t[i]
  BY DEF Joins
<1>1. n \in Nat /\ n >= 1 /\ n # 0 /\ n \in 1 .. n
  BY <1>0, LenProperties, EmptySeq
<1>2. FlattenSeq(t) = flatten[n]
  BY <1>1 DEF FlattenSeq
<1>3. f[1] = t[1]
  <2>1. t[1] \in Seq(S) /\ 1 \in 1 .. n
    BY <1>0, <1>1, ElementOfSeq
  <2>2. PICK k \in 1 .. n : k = 1
    BY <2>1
  <2>3. f[k] = f[k - 1] \o t[k]
    BY <1>0
  <2>4. k - 1 = 0
    BY <2>2
  <2>5. <<>> \o t[1] = t[1]
    BY <2>1, ConcatEmptySeq
  <2> QED
    BY <1>0, <2>2, <2>3, <2>4, <2>5
<1>4. \E g : g = Made(g)
  <2> DEFINE a == [i \in 1 .. n |-> f[i]]
  <2>1. \A i \in 1 .. n : i # 1 => i - 1 \in 1 .. n
    BY <1>1
  <2>2. \A i \in 1 .. n : f[i] = IF i = 1 THEN t[i] ELSE a[i - 1] \o t[i]
    BY <1>0, <1>3, <2>1
  <2>3. a = Made(a)
    BY <2>2
  <2> QED
    BY <2>3
<1> HIDE DEF Made
<1>5. flatten = Made(flatten)
  BY <1>4, Zenon
<1> HIDE DEF flatten
<1>6. \A i \in 1 .. n : flatten[i] = IF i = 1 THEN t[i] ELSE flatten[i - 1] \o t[i]
  BY <1>5 DEF Made
<1>7. \A i \in 1 .. n : flatten[i] = f[i]
  <2> DEFINE T == {i \in 1 .. n : flatten[i] = f[i]}
  <2>1. 1 \in T
    BY <1>1, <1>3, <1>6
  <2>2. ASSUME NEW i \in 1 + 1 .. n, i - 1 \in T PROVE i \in T
    <3>1. i \in 1 .. n /\ i # 1 /\ flatten[i - 1] = f[i - 1]
      BY <2>2
    <3> QED
      BY <1>0, <1>6, <3>1
  <2> HIDE DEF T, n
  <2>3. \A i \in 1 + 1 .. n : i - 1 \in T => i \in T
    BY <2>2
  <2>4. 1 \in Int /\ n \in Int
    BY <1>1
  <2>5. \A i \in 1 .. n : i \in T
    BY <2>1, <2>3, <2>4, Induct
  <2> QED
    BY <2>5 DEF T
<1> QED
  BY <1>1, <1>2, <1>7

(* What is written of a line up to its i-th unit is f[i]. *)
Written(f, s) ==
  /\ f \in [0 .. Len(s) -> Chars] /\ f[0] = <<>>
  /\ \A i \in 1 .. Len(s) : f[i] = f[i - 1] \o Spelled(s[i])
  /\ \A i \in 1 .. Len(s) : Characters(SubSeq(s, 1, i)) = f[i]
  /\ Characters(s) = f[Len(s)]

(* Every line is written so, unit by unit.                                 *)
LEMMA CharactersWritten ==
  ASSUME NEW s \in Seq(Unit), s # <<>>
  PROVE  \E f : Written(f, s)
<1> DEFINE n == Len(s)
           step == [i \in 1 .. n |-> [c \in Chars |-> c \o Spelled(s[i])]]
<1>1. n \in Nat /\ n >= 1 /\ \A i \in 1 .. n : Spelled(s[i]) \in Chars
  BY LenProperties, EmptySeq, ElementOfSeq, SpelledUnits
<1>2. step \in [1 .. n -> [Chars -> Chars]]
  <2>1. \A c, d \in Chars : c \o d \in Chars
    BY ConcatProperties DEF Chars
  <2> HIDE DEF n
  <2> QED
    BY <1>1, <2>1
<1>3. <<>> \in Chars
  BY DEF Chars
<1> HIDE DEF n, step
<1>4. PICK f : Recursive(f, Chars, <<>>, n, step)
  BY <1>1, <1>2, <1>3, RecursiveFunction
<1>5. /\ f \in [0 .. n -> Chars] /\ f[0] = <<>>
      /\ \A i \in 1 .. n : f[i] = f[i - 1] \o Spelled(s[i])
  <2>1. f \in [0 .. n -> Chars] /\ f[0] = <<>> /\ \A i \in 1 .. n : f[i] = step[i][f[i - 1]]
    BY <1>4 DEF Recursive
  <2>2. \A i \in 1 .. n : f[i - 1] \in Chars
    BY <1>1, <2>1
  <2> QED
    BY <2>1, <2>2 DEF step
<1>6. ASSUME NEW i \in 1 .. n PROVE Characters(SubSeq(s, 1, i)) = f[i]
  <2> DEFINE r == SubSeq(s, 1, i)
             t == [j \in 1 .. i |-> Spelled(s[j])]
  <2>1. /\ Len(r) = i /\ DOMAIN r = 1 .. i /\ \A j \in 1 .. i : r[j] = s[j]
    BY <1>1 DEF n
  <2>2. t = [j \in DOMAIN r |-> Spelled(r[j])]
    BY <2>1
  <2>3. t \in Seq(Chars) /\ Len(t) = i /\ \A j \in 1 .. i : t[j] = Spelled(s[j])
    BY <1>1
  <2>4. t # <<>> /\ i \in Nat
    BY <2>3
  <2>5. ASSUME NEW j \in 1 .. i PROVE f[j] = f[j - 1] \o t[j]
    <3>1. j \in 1 .. n /\ t[j] = Spelled(s[j])
      BY <1>1, <2>3
    <3> HIDE DEF t
    <3> QED
      BY <1>5, <3>1
  <2>6. Characters(r) = FlattenSeq(t)
    BY <2>2 DEF Characters
  <2> HIDE DEF t, r
  <2>7. n >= Len(t) /\ t \in Seq(Seq(0 .. 255)) /\ f \in [0 .. n -> Seq(0 .. 255)]
    BY <1>1, <1>5, <2>3 DEF Chars
  <2>8. FlattenSeq(t) = f[Len(t)]
    <3>1. Joins(f, t, n, 0 .. 255)
      BY <1>1, <1>5, <2>3, <2>4, <2>5, <2>7 DEF Joins
    <3> QED
      BY <3>1, FlattenIs
  <2> QED
    BY <2>3, <2>6, <2>8 DEF r
<1>7. Characters(s) = f[n]
  <2>1. SubSeq(s, 1, n) = s
    BY SubSeqFull DEF n
  <2>2. n \in 1 .. n
    BY <1>1
  <2>3. Characters(SubSeq(s, 1, n)) = f[n]
    BY <1>6, <2>2
  <2> QED
    BY <2>1, <2>3
<1>8. Written(f, s)
  BY <1>5, <1>6, <1>7 DEF Written, n
<1> QED
  BY <1>8

(* What was written stays at the beginning.                                *)
LEMMA WrittenKept ==
  ASSUME NEW s \in Seq(Unit), NEW f, Written(f, s), NEW i \in 0 .. Len(s)
  PROVE  \A k \in i .. Len(s) : /\ Len(f[i]) <= Len(f[k])
                                /\ \A j \in 1 .. Len(f[i]) : f[k][j] = f[i][j]
<1> DEFINE T == {k \in i .. Len(s) : /\ Len(f[i]) <= Len(f[k])
                                     /\ \A j \in 1 .. Len(f[i]) : f[k][j] = f[i][j]}
<1>1. /\ Len(s) \in Nat /\ f \in [0 .. Len(s) -> Chars] /\ i \in Int
      /\ \A k \in 1 .. Len(s) : f[k] = f[k - 1] \o Spelled(s[k]) /\ Spelled(s[k]) \in Chars
  <2>1. \A k \in 1 .. Len(s) : Spelled(s[k]) \in Chars
    BY ElementOfSeq, SpelledUnits
  <2>2. Len(s) \in Nat
    BY LenProperties
  <2>3. /\ f \in [0 .. Len(s) -> Chars]
        /\ \A k \in 1 .. Len(s) : f[k] = f[k - 1] \o Spelled(s[k])
    BY DEF Written
  <2>4. i \in Int
    BY <2>2
  <2> QED
    BY <2>1, <2>2, <2>3, <2>4
<1>2. i \in T
  <2>1. Len(f[i]) \in Nat
    BY <1>1, LenProperties DEF Chars
  <2> QED
    BY <1>1, <2>1
<1>3. ASSUME NEW k \in i + 1 .. Len(s), k - 1 \in T PROVE k \in T
  <2>1. /\ k \in 1 .. Len(s) /\ k - 1 \in 0 .. Len(s) /\ k \in i .. Len(s)
        /\ Len(f[i]) <= Len(f[k - 1])
        /\ \A j \in 1 .. Len(f[i]) : f[k - 1][j] = f[i][j]
    BY <1>1, <1>3
  <2>2. PICK a, b : a = f[k - 1] /\ b = Spelled(s[k])
    OBVIOUS
  <2>3. a \in Seq(0 .. 255) /\ b \in Seq(0 .. 255) /\ f[k] = a \o b /\ f[i] \in Seq(0 .. 255)
    BY <1>1, <2>1, <2>2 DEF Chars
  <2>4. /\ Len(a \o b) = Len(a) + Len(b) /\ Len(a) \in Nat /\ Len(b) \in Nat
        /\ Len(f[i]) \in Nat
        /\ \A j \in 1 .. Len(a) + Len(b) :
             (a \o b)[j] = IF j <= Len(a) THEN a[j] ELSE b[j - Len(a)]
    BY <2>3, ConcatProperties, LenProperties
  <2>5. Len(f[i]) <= Len(f[k])
    <3>1. Len(f[i]) <= Len(a) /\ Len(f[k]) = Len(a) + Len(b)
      BY <2>1, <2>2, <2>3, <2>4
    <3> QED
      BY <2>4, <3>1
  <2>6. ASSUME NEW j \in 1 .. Len(f[i]) PROVE f[k][j] = f[i][j]
    <3>1. Len(f[i]) <= Len(a) /\ a[j] = f[i][j]
      BY <2>1, <2>2
    <3>2. j \in 1 .. Len(a) + Len(b) /\ j <= Len(a)
      BY <2>4, <3>1
    <3>3. (a \o b)[j] = a[j]
      BY <2>4, <3>2
    <3> QED
      BY <2>3, <3>1, <3>3
  <2> QED
    BY <2>1, <2>5, <2>6
<1> HIDE DEF T
<1>4. \A k \in i .. Len(s) : k \in T
  <2>1. \A k \in i + 1 .. Len(s) : k - 1 \in T => k \in T
    BY <1>3
  <2>2. i \in Int /\ Len(s) \in Int
    BY <1>1
  <2> QED
    BY <1>2, <2>1, <2>2, Induct
<1> QED
  BY <1>4 DEF T

(* What was written before the i-th unit, and what the unit adds. *)
Adds(f, s, i, a, b) == i \in 1 .. Len(s) /\ a = f[i - 1] /\ b = Spelled(s[i])

(* What is written of one unit more.                                       *)
LEMMA WrittenNext ==
  ASSUME NEW s \in Seq(Unit), NEW f, Written(f, s),
         NEW i, NEW a, NEW b, Adds(f, s, i, a, b)
  PROVE  /\ b \in Chars /\ Len(b) \in Nat /\ a \in Chars /\ Len(a) \in Nat
         /\ f[i] \in Chars /\ Len(f[i]) = Len(a) + Len(b)
         /\ \A j \in 1 .. Len(a) : f[i][j] = a[j]
         /\ \A j \in 1 .. Len(b) : f[i][Len(a) + j] = b[j]
<1>0. i \in 1 .. Len(s) /\ a = f[i - 1] /\ b = Spelled(s[i])
  BY DEF Adds
<1>1. /\ Len(s) \in Nat /\ f \in [0 .. Len(s) -> Chars]
      /\ f[i] = f[i - 1] \o b /\ b \in Chars
  BY <1>0, LenProperties, ElementOfSeq, SpelledUnits DEF Written
<1>2. i - 1 \in 0 .. Len(s) /\ i \in 0 .. Len(s)
  BY <1>0, <1>1
<1>3. f[i] \in Chars /\ f[i - 1] \in Chars
  BY <1>1, <1>2
<1>5. a \in Seq(0 .. 255) /\ b \in Seq(0 .. 255) /\ f[i] = a \o b
  BY <1>0, <1>1, <1>3 DEF Chars
<1>6. /\ Len(a \o b) = Len(a) + Len(b) /\ Len(a) \in Nat /\ Len(b) \in Nat
      /\ \A j \in 1 .. Len(a) + Len(b) :
           (a \o b)[j] = IF j <= Len(a) THEN a[j] ELSE b[j - Len(a)]
  BY <1>5, ConcatProperties, LenProperties
<1>7. \A j \in 1 .. Len(a) : f[i][j] = a[j]
  BY <1>5, <1>6
<1>8. \A j \in 1 .. Len(b) : f[i][Len(a) + j] = b[j]
  <2>1. \A j \in 1 .. Len(b) : /\ Len(a) + j \in 1 .. Len(a) + Len(b) /\ ~(Len(a) + j <= Len(a))
                               /\ (Len(a) + j) - Len(a) = j
    BY <1>6
  <2> QED
    BY <1>5, <1>6, <2>1
<1> QED
  BY <1>0, <1>1, <1>3, <1>5, <1>6, <1>7, <1>8

-----------------------------------------------------------------------------
(* A unit inside a packet is written with plain characters.                *)
LEMMA PlainUnits ==
  ASSUME NEW u \in Unit, ~Ends(u)
  PROVE  \E ch \in 0 .. 255 : Spelled(u) = <<ch>> /\ yy_ec[ch] \in Plain
<1>1. u \in {Plus, Minus, Newline} \/ Character(u)
  BY InsideKinds
<1>2. \A ch \in {43, 45, 10, 0, 99, 120} : ch \in 0 .. 255 /\ yy_ec[ch] \in Plain
  BY Classes DEF Plain
<1> QED
  BY <1>1, <1>2, SpelledUnits

(* What is written of a packet up to its end: "$" and plain characters.    *)
LEMMA FrameWritten ==
  ASSUME NEW s \in Seq(Unit), NEW f, Written(f, s), s # <<>>, s[1] = Dollar,
         NEW e \in 1 .. Len(s), \A i \in 2 .. e : ~Ends(s[i])
  PROVE  /\ f[e] \in Chars /\ Len(f[e]) \in Nat /\ Len(f[e]) >= 1 /\ f[e][1] = 36
         /\ \A j \in 2 .. Len(f[e]) : yy_ec[f[e][j]] \in Plain
<1> DEFINE Good(i) == /\ f[i] \in Chars /\ Len(f[i]) \in Nat /\ Len(f[i]) >= 1
                      /\ f[i][1] = 36
                      /\ \A j \in 2 .. Len(f[i]) : yy_ec[f[i][j]] \in Plain
           T == {i \in 1 .. e : Good(i)}
<1>1. Len(s) \in Nat /\ e \in Nat /\ 1 \in 1 .. Len(s)
  BY LenProperties, EmptySeq
<1>2. 1 \in T
  <2>1. PICK b : b = <<36>>
    OBVIOUS
  <2>2. Spelled(s[1]) = b /\ Len(b) = 1 /\ b[1] = 36
    BY <2>1, SpelledUnits
  <2>3. PICK i \in 1 .. Len(s) : i = 1
    BY <1>1
  <2>4. PICK a : a = f[i - 1]
    OBVIOUS
  <2>5. /\ f[1] \in Chars /\ Len(f[1]) = 1 /\ f[1][1] = 36
    <3>1. f[0] = <<>> /\ i - 1 = 0
      BY <2>3 DEF Written
    <3>2. a = <<>>
      BY <2>4, <3>1
    <3>3. Adds(f, s, i, a, b)
      BY <2>2, <2>3, <2>4 DEF Adds
    <3>4. /\ f[i] \in Chars /\ Len(f[i]) = Len(a) + Len(b)
          /\ \A j \in 1 .. Len(b) : f[i][Len(a) + j] = b[j]
      BY <3>3, WrittenNext
    <3>5. Len(a) = 0
      BY <3>2
    <3>6. Len(f[i]) = 1 /\ f[i][1] = 36
      BY <2>2, <3>4, <3>5
    <3> QED
      BY <2>3, <3>4, <3>6
  <2>6. Good(1)
    BY <2>5
  <2> QED
    BY <1>1, <2>6
<1>3. ASSUME NEW i \in 1 + 1 .. e, i - 1 \in T PROVE i \in T
  <2>1. i \in 2 .. e /\ i \in 1 .. Len(s) /\ i \in 1 .. e /\ Good(i - 1)
    BY <1>1, <1>3
  <2>2. s[i] \in Unit /\ ~Ends(s[i])
    BY <2>1, ElementOfSeq
  <2>3. PICK ch \in 0 .. 255 : Spelled(s[i]) = <<ch>> /\ yy_ec[ch] \in Plain
    BY <2>2, PlainUnits
  <2>4. PICK b : b = <<ch>>
    OBVIOUS
  <2>5. Len(b) = 1 /\ b[1] = ch /\ Spelled(s[i]) = b
    BY <2>3, <2>4
  <2>6. PICK a : a = f[i - 1]
    OBVIOUS
  <2>7. PICK l : l = Len(a)
    OBVIOUS
  <2>8. /\ f[i] \in Chars /\ l \in Nat /\ Len(f[i]) = l + 1
        /\ \A j \in 1 .. l : f[i][j] = f[i - 1][j]
        /\ f[i][l + 1] = ch
    <3>1. Adds(f, s, i, a, b)
      BY <2>1, <2>5, <2>6 DEF Adds
    <3>2. /\ Len(a) \in Nat /\ f[i] \in Chars /\ Len(f[i]) = Len(a) + Len(b)
          /\ \A j \in 1 .. Len(a) : f[i][j] = a[j]
          /\ \A j \in 1 .. Len(b) : f[i][Len(a) + j] = b[j]
      BY <3>1, WrittenNext
    <3>3. f[i][l + 1] = ch
      BY <2>5, <2>6, <2>7, <3>2
    <3> QED
      BY <2>5, <2>6, <2>7, <3>2, <3>3
  <2>9. /\ l >= 1 /\ f[i - 1][1] = 36 /\ \A j \in 2 .. l : yy_ec[f[i - 1][j]] \in Plain
    BY <2>1, <2>6, <2>7
  <2> HIDE DEF Good
  <2>10. f[i][1] = 36
    BY <2>8, <2>9
  <2>11. ASSUME NEW j \in 2 .. l + 1 PROVE yy_ec[f[i][j]] \in Plain
    <3>1. CASE j = l + 1
      BY <2>3, <2>8, <3>1
    <3>2. CASE j # l + 1
      <4>1. j \in 1 .. l /\ j \in 2 .. l
        BY <2>8, <3>2
      <4> QED
        BY <2>8, <2>9, <4>1
    <3> QED
      BY <3>1, <3>2
  <2>12. \A j \in 2 .. Len(f[i]) : yy_ec[f[i][j]] \in Plain
    BY <2>8, <2>11
  <2>13. Len(f[i]) \in Nat /\ Len(f[i]) >= 1
    BY <2>8
  <2>14. Good(i)
    BY <2>8, <2>10, <2>12, <2>13 DEF Good
  <2> QED
    BY <2>1, <2>14
<1> HIDE DEF T
<1>4. \A i \in 1 .. e : i \in T
  <2> HIDE DEF Good
  <2> QED
    BY <1>1, <1>2, <1>3, Induct
<1>5. e \in T
  BY <1>1, <1>4
<1> QED
  BY <1>5 DEF T

(* The state behind a character.                                           *)
LEMMA StateBehind ==
  ASSUME NEW chars \in Chars, NEW i \in 1 .. Len(chars), NEW c, yy_ec[chars[i]] = c,
         NEW s, StatesOf(chars)[i] = s, NEW k, k = i + 1
  PROVE  StatesOf(chars)[k] = Automaton(s, c)
<1>1. chars \in Seq(0 .. 255)
  BY DEF Chars
<1>2. StatesOf(chars)[i + 1] = Automaton(StatesOf(chars)[i], yy_ec[chars[i]])
  BY <1>1, StatesFound
<1> QED
  BY <1>2

(* The states of the scanner in a packet: 6 behind the "$", then 9.        *)
LEMMA FrameStates ==
  ASSUME NEW chars \in Chars, NEW l \in 1 .. Len(chars), chars[1] = 36,
         \A j \in 2 .. l : yy_ec[chars[j]] \in Plain
  PROVE  /\ StatesOf(chars)[1] = 1 /\ StatesOf(chars)[2] = 6
         /\ \A j \in 3 .. l + 1 : StatesOf(chars)[j] = 9
<1> DEFINE state == StatesOf(chars)
           T == {j \in 2 .. l + 1 : state[j] = IF j = 2 THEN 6 ELSE 9}
<1>1. /\ Len(chars) \in Nat /\ state[1] = 1
      /\ \A i \in 1 .. Len(chars) : state[i + 1] = Automaton(state[i], yy_ec[chars[i]])
  BY StatesFound, LenProperties DEF Chars
<1>2. state[2] = 6
  <2>1. state[1 + 1] = Automaton(state[1], yy_ec[chars[1]])
    BY <1>1
  <2>2. Automaton(1, 4) = 6
    BY TableEntries DEF Automaton
  <2> QED
    BY <1>1, <2>1, <2>2, Classes
<1>3. 2 \in T
  BY <1>1, <1>2
<1>4. ASSUME NEW j \in 2 + 1 .. l + 1, j - 1 \in T PROVE j \in T
  <2>1. /\ j - 1 \in 2 .. l /\ j - 1 \in 1 .. Len(chars) /\ (j - 1) + 1 = j
        /\ j \in 2 .. l + 1 /\ j # 2 /\ state[j - 1] \in {6, 9}
    BY <1>1, <1>4
  <2>2. PICK c \in Plain : c = yy_ec[chars[j - 1]]
    BY <2>1
  <2>3. state[j] = Automaton(state[j - 1], c)
    BY <1>1, <2>1, <2>2
  <2>4. \A s \in {6, 9}, x \in Plain : Automaton(s, x) = 9
    BY SMTT(60) DEF Automaton, Plain
  <2>5. state[j] = 9
    BY <2>1, <2>3, <2>4
  <2> QED
    BY <2>1, <2>5
<1> HIDE DEF T, state
<1>5. \A j \in 2 .. l + 1 : j \in T
  <2>1. \A j \in 2 + 1 .. l + 1 : j - 1 \in T => j \in T
    BY <1>4
  <2>2. 2 \in Int /\ l + 1 \in Int
    BY <1>1
  <2> QED
    BY <1>3, <2>1, <2>2, Induct
<1>6. \A j \in 3 .. l + 1 : state[j] = 9
  <2>1. \A j \in 3 .. l + 1 : j \in 2 .. l + 1 /\ j # 2
    OBVIOUS
  <2> QED
    BY <1>5, <2>1 DEF T
<1> QED
  BY <1>1, <1>2, <1>6 DEF state

-----------------------------------------------------------------------------
(* A unit that begins no packet: one character is matched.                 *)
LEMMA MatchSingle ==
  ASSUME NEW chars \in Chars, NEW eof \in BOOLEAN, Len(chars) >= 1,
         NEW s \in {4, 5, 7, 8}, Automaton(1, yy_ec[chars[1]]) = s
  PROVE  yy_match(chars, eof) = [rule |-> yy_accept[s], length |-> 1]
<1>1. /\ Len(chars) \in Nat /\ StatesOf(chars)[1] = 1
      /\ StatesOf(chars)[1 + 1] = Automaton(StatesOf(chars)[1], yy_ec[chars[1]])
  BY StatesFound, LenProperties DEF Chars
<1>2. StatesOf(chars)[2] = s
  BY <1>1
<1>3. yy_base[s] = 14 /\ yy_accept[s] # 0 /\ yy_base[1] # 14
  BY TableEntries, SMTT(60)
<1>4. 2 \in 1 .. Len(chars) + 1 /\ 2 \in 1 .. 2
  BY <1>1
<1>5. \A i \in 1 .. 2 - 1 : i = 1
  OBVIOUS
<1>6. \A i \in 2 + 1 .. 2 : FALSE
  OBVIOUS
<1>7. yy_match(chars, eof) = [rule |-> yy_accept[s], length |-> 2 - 1]
  <2>1. /\ yy_base[StatesOf(chars)[2]] = 14 /\ yy_accept[StatesOf(chars)[2]] # 0
        /\ \A i \in 1 .. 2 - 1 : yy_base[StatesOf(chars)[i]] # 14
        /\ \A i \in 2 + 1 .. 2 : yy_accept[StatesOf(chars)[i]] = 0
    BY <1>1, <1>2, <1>3, <1>5, <1>6
  <2>2. chars \in Seq(0 .. 255)
    BY DEF Chars
  <2> QED
    BY <1>2, <1>4, <2>1, <2>2, MatchStops
<1> QED
  BY <1>7

(* A packet with its digits is matched to its end.                         *)
LEMMA MatchWhole ==
  ASSUME NEW chars \in Chars, NEW eof \in BOOLEAN,
         NEW l \in Nat, l >= 1, l + 3 <= Len(chars), chars[1] = 36,
         \A j \in 2 .. l : yy_ec[chars[j]] \in Plain,
         chars[l + 1] = 35, chars[l + 2] = 48, chars[l + 3] = 97
  PROVE  yy_match(chars, eof) = [rule |-> 3, length |-> l + 3]
<1> DEFINE state == StatesOf(chars)
<1>1. /\ Len(chars) \in Nat /\ l \in 1 .. Len(chars)
      /\ \A i \in 1 .. Len(chars) : state[i + 1] = Automaton(state[i], yy_ec[chars[i]])
  BY StatesFound, LenProperties DEF Chars
<1>2. state[1] = 1 /\ state[2] = 6 /\ \A j \in 3 .. l + 1 : state[j] = 9
  BY <1>1, FrameStates
<1>3. /\ \A s \in {6, 9} : Automaton(s, 3) = 10
      /\ Automaton(10, 7) = 11 /\ Automaton(11, 7) = 12
  BY DEF Automaton
<1> HIDE DEF state
<1>4. state[l + 1] \in {6, 9}
  BY <1>2
<1>5. state[l + 2] = 10
  <2>1. yy_ec[chars[l + 1]] = 3 /\ l + 1 \in 1 .. Len(chars) /\ l + 2 = (l + 1) + 1
    BY <1>1, Classes
  <2>2. state[l + 2] = Automaton(state[l + 1], 3)
    BY <2>1, StateBehind DEF state
  <2> QED
    BY <1>3, <1>4, <2>2
<1>6. state[l + 3] = 11
  <2>1. yy_ec[chars[l + 2]] = 7 /\ l + 2 \in 1 .. Len(chars) /\ l + 3 = (l + 2) + 1
    BY <1>1, Classes
  <2>2. state[l + 3] = Automaton(state[l + 2], 7)
    BY <2>1, StateBehind DEF state
  <2> QED
    BY <1>3, <1>5, <2>2
<1>7. state[l + 4] = 12
  <2>1. yy_ec[chars[l + 3]] = 7 /\ l + 3 \in 1 .. Len(chars) /\ l + 4 = (l + 3) + 1
    BY <1>1, Classes
  <2>2. state[l + 4] = Automaton(state[l + 3], 7)
    BY <2>1, StateBehind DEF state
  <2> QED
    BY <1>3, <1>6, <2>2
<1>8. \A i \in 1 .. (l + 4) - 1 : state[i] \in {1, 6, 9, 10, 11}
  <2>1. \A i \in 1 .. (l + 4) - 1 : \/ i = 1 \/ i = 2 \/ i \in 3 .. l + 1
                                    \/ i = l + 2 \/ i = l + 3
    BY <1>1
  <2> QED
    BY <1>2, <1>5, <1>6, <2>1
<1>9. /\ \A s \in {1, 6, 9, 10, 11} : yy_base[s] # 14
      /\ yy_base[12] = 14 /\ yy_accept[12] = 3
  <2>1. /\ yy_base[1] # 14 /\ yy_base[6] # 14 /\ yy_base[9] # 14
        /\ yy_base[10] # 14 /\ yy_base[11] # 14
    BY TableEntries
  <2>2. yy_base[12] = 14 /\ yy_accept[12] = 3
    BY TableEntries
  <2> QED
    BY <2>1, <2>2
<1>10. PICK p : p = l + 4
  OBVIOUS
<1>11. /\ p \in 1 .. Len(chars) + 1 /\ p \in 1 .. p /\ p - 1 = l + 3
       /\ \A i \in p + 1 .. p : FALSE
  BY <1>1, <1>10
<1>12. /\ yy_base[state[p]] = 14 /\ yy_accept[state[p]] = 3
       /\ \A i \in 1 .. p - 1 : yy_base[state[i]] # 14
  BY <1>7, <1>8, <1>9, <1>10
<1>13. yy_match(chars, eof) = [rule |-> yy_accept[state[p]], length |-> p - 1]
  <2>1. chars \in Seq(0 .. 255)
    BY DEF Chars
  <2>2. PICK q \in 1 .. p : q = p
    BY <1>11
  <2>3. yy_accept[state[q]] # 0 /\ \A i \in q + 1 .. p : yy_accept[state[i]] = 0
    BY <1>11, <1>12, <2>2
  <2>4. yy_match(chars, eof) = [rule |-> yy_accept[state[q]], length |-> q - 1]
    BY <1>11, <1>12, <2>1, <2>3, MatchStops DEF state
  <2> QED
    BY <2>2, <2>4
<1> QED
  BY <1>11, <1>12, <1>13

(* A packet that is broken off by another "$" or by a "#" without digits:  *)
(* only its "$" is matched.                                                *)
LEMMA MatchBroken ==
  ASSUME NEW chars \in Chars, NEW eof \in BOOLEAN,
         NEW l \in Nat, l >= 1, chars[1] = 36,
         \A j \in 2 .. l : yy_ec[chars[j]] \in Plain,
         \/ l + 1 <= Len(chars) /\ chars[l + 1] = 36
         \/ l + 2 <= Len(chars) /\ chars[l + 1] = 35 /\ chars[l + 2] = 120
  PROVE  yy_match(chars, eof) = [rule |-> 4, length |-> 1]
<1> DEFINE state == StatesOf(chars)
<1>1. /\ Len(chars) \in Nat /\ l \in 1 .. Len(chars)
      /\ \A i \in 1 .. Len(chars) : state[i + 1] = Automaton(state[i], yy_ec[chars[i]])
  BY StatesFound, LenProperties DEF Chars
<1>2. state[1] = 1 /\ state[2] = 6 /\ \A j \in 3 .. l + 1 : state[j] = 9
  BY <1>1, FrameStates
<1>3. /\ \A s \in {6, 9} : Automaton(s, 3) = 10 /\ Automaton(s, 4) = 13
      /\ Automaton(10, 1) = 13
  BY DEF Automaton
<1> HIDE DEF state
<1>4. state[l + 1] \in {6, 9}
  BY <1>2
<1>5. \E p \in l + 2 .. l + 3 : /\ p <= Len(chars) + 1 /\ state[p] = 13
                                /\ \A i \in l + 2 .. p - 1 : state[i] = 10
  <2>1. CASE l + 1 <= Len(chars) /\ chars[l + 1] = 36
    <3>0. yy_ec[chars[l + 1]] = 4 /\ l + 1 \in 1 .. Len(chars) /\ l + 2 = (l + 1) + 1
      BY <1>1, <2>1, Classes
    <3>1. state[l + 2] = Automaton(state[l + 1], 4)
      BY <3>0, StateBehind DEF state
    <3>2. state[l + 2] = 13 /\ l + 2 \in l + 2 .. l + 3 /\ l + 2 <= Len(chars) + 1
          /\ \A i \in l + 2 .. (l + 2) - 1 : FALSE
      BY <1>1, <1>3, <1>4, <2>1, <3>1
    <3> QED
      BY <3>2
  <2>2. CASE l + 2 <= Len(chars) /\ chars[l + 1] = 35 /\ chars[l + 2] = 120
    <3>0. yy_ec[chars[l + 1]] = 3 /\ l + 1 \in 1 .. Len(chars) /\ l + 2 = (l + 1) + 1
      BY <1>1, <2>2, Classes
    <3>1. state[l + 2] = Automaton(state[l + 1], 3)
      BY <3>0, StateBehind DEF state
    <3>2. state[l + 2] = 10
      BY <1>3, <1>4, <3>1
    <3>3. state[l + 3] = Automaton(10, 1)
      <4>1. yy_ec[chars[l + 2]] = 1 /\ l + 2 \in 1 .. Len(chars) /\ l + 3 = (l + 2) + 1
        BY <1>1, <2>2, Classes
      <4>2. state[l + 3] = Automaton(state[l + 2], 1)
        BY <4>1, StateBehind DEF state
      <4> QED
        BY <3>2, <4>2
    <3>4. state[l + 3] = 13 /\ l + 3 \in l + 2 .. l + 3 /\ l + 3 <= Len(chars) + 1
          /\ \A i \in l + 2 .. (l + 3) - 1 : i = l + 2
      BY <1>1, <1>3, <2>2, <3>3
    <3> QED
      BY <3>2, <3>4
  <2> QED
    BY <2>1, <2>2
<1>6. PICK p \in l + 2 .. l + 3 : /\ p <= Len(chars) + 1 /\ state[p] = 13
                                  /\ \A i \in l + 2 .. p - 1 : state[i] = 10
  BY <1>5
<1>7. \A i \in 1 .. p - 1 : /\ state[i] \in {1, 6, 9, 10}
                            /\ i >= 3 => state[i] \in {9, 10}
  <2>1. \A i \in 1 .. p - 1 : i = 1 \/ i = 2 \/ i \in 3 .. l + 1 \/ i \in l + 2 .. p - 1
    BY <1>1
  <2> QED
    BY <1>2, <1>6, <2>1
<1>8. /\ \A s \in {1, 6, 9, 10} : yy_base[s] # 14
      /\ yy_base[13] = 14 /\ yy_accept[6] = 4
      /\ \A s \in {9, 10, 13} : yy_accept[s] = 0
  <2>1. /\ yy_base[1] # 14 /\ yy_base[6] # 14 /\ yy_base[9] # 14 /\ yy_base[10] # 14
    BY TableEntries
  <2>2. yy_base[13] = 14 /\ yy_accept[6] = 4
    BY TableEntries
  <2>3. yy_accept[9] = 0 /\ yy_accept[10] = 0 /\ yy_accept[13] = 0
    BY TableEntries
  <2> QED
    BY <2>1, <2>2, <2>3
<1>9. /\ p \in 1 .. Len(chars) + 1 /\ 2 \in 1 .. p
      /\ \A i \in 2 + 1 .. p : i = p \/ (i \in 1 .. p - 1 /\ i >= 3)
  BY <1>1, <1>6
<1>10. \A i \in 2 + 1 .. p : yy_accept[state[i]] = 0
  BY <1>6, <1>7, <1>8, <1>9, SMTT(60)
<1>11. \A i \in 1 .. p - 1 : yy_base[state[i]] # 14
  BY <1>7, <1>8
<1>12. yy_base[state[p]] = 14 /\ yy_accept[state[2]] = 4
  BY <1>2, <1>6, <1>8
<1>13. yy_match(chars, eof) = [rule |-> yy_accept[state[2]], length |-> 2 - 1]
  <2>1. chars \in Seq(0 .. 255) /\ yy_accept[state[2]] # 0
    BY <1>12 DEF Chars
  <2> QED
    BY <1>9, <1>10, <1>11, <1>12, <2>1, MatchStops DEF state
<1> QED
  BY <1>12, <1>13

(* A packet that goes on to the end of what is there: the scanner waits,   *)
(* or at the end of the stream matches its "$".                            *)
LEMMA MatchUnfinished ==
  ASSUME NEW chars \in Chars, NEW eof \in BOOLEAN, Len(chars) >= 1, chars[1] = 36,
         \A j \in 2 .. Len(chars) : yy_ec[chars[j]] \in Plain
  PROVE  yy_match(chars, eof) = IF eof THEN [rule |-> 4, length |-> 1] ELSE Waiting
<1> DEFINE state == StatesOf(chars)
<1>1. Len(chars) \in Nat /\ Len(chars) \in 1 .. Len(chars)
  BY LenProperties DEF Chars
<1>2. state[1] = 1 /\ state[2] = 6 /\ \A j \in 3 .. Len(chars) + 1 : state[j] = 9
  BY <1>1, FrameStates
<1> HIDE DEF state
<1>3. yy_base[1] # 14 /\ yy_base[6] # 14 /\ yy_base[9] # 14 /\ yy_accept[6] = 4
      /\ yy_accept[9] = 0
  BY TableEntries
<1>4. \A i \in 1 .. Len(chars) + 1 : i = 1 \/ i = 2 \/ i \in 3 .. Len(chars) + 1
  BY <1>1
<1>5. \A i \in 1 .. Len(chars) + 1 : yy_base[state[i]] # 14
  BY <1>2, <1>3, <1>4
<1>6. 2 \in 1 .. Len(chars) + 1 /\ yy_accept[state[2]] = 4
      /\ \A i \in 2 + 1 .. Len(chars) + 1 : yy_accept[state[i]] = 0
  BY <1>1, <1>2, <1>3
<1>7. ~eof => yy_match(chars, eof) = Waiting
  <2>1. chars \in Seq(0 .. 255)
    BY DEF Chars
  <2> QED
    BY <1>5, <2>1, MatchRunsOut DEF state
<1>8. eof => yy_match(chars, eof) = [rule |-> yy_accept[state[2]], length |-> 2 - 1]
  <2>1. chars \in Seq(0 .. 255) /\ yy_accept[state[2]] # 0
    BY <1>6 DEF Chars
  <2> QED
    BY <1>5, <1>6, <2>1, MatchRunsOut DEF state
<1> QED
  BY <1>6, <1>7, <1>8

-----------------------------------------------------------------------------
(* A line begins with what its first unit is written with.                 *)
LEMMA FirstCharacter ==
  ASSUME NEW s \in Seq(Unit), s # <<>>, NEW b, Spelled(s[1]) = b, Len(b) >= 1
  PROVE  Characters(s) \in Chars /\ Len(Characters(s)) >= 1 /\ Characters(s)[1] = b[1]
<1>1. PICK f : Written(f, s)
  BY CharactersWritten
<1>2. Len(s) \in Nat /\ Len(s) >= 1 /\ 1 \in 1 .. Len(s)
  BY LenProperties, EmptySeq
<1>3. PICK i \in 1 .. Len(s) : i = 1
  BY <1>2
<1>4. PICK a : a = f[i - 1]
  OBVIOUS
<1>5. f[0] = <<>> /\ i - 1 = 0
  BY <1>1, <1>3 DEF Written
<1>6. a = <<>>
  BY <1>4, <1>5
<1>7. Len(a) = 0
  BY <1>6
<1>8. Adds(f, s, i, a, b)
  BY <1>3, <1>4 DEF Adds
<1>9. /\ Len(b) \in Nat /\ Len(f[i]) = Len(a) + Len(b)
      /\ \A j \in 1 .. Len(b) : f[i][Len(a) + j] = b[j]
  BY <1>1, <1>8, WrittenNext, SMTT(60)
<1>10. Len(f[i]) >= 1 /\ Len(f[i]) \in Nat /\ f[i][1] = b[1]
  BY <1>7, <1>9
<1>11. i \in 0 .. Len(s) /\ Len(s) \in i .. Len(s) /\ 1 \in 1 .. Len(f[i])
  BY <1>2, <1>3, <1>10
<1>12. \A k \in i .. Len(s) : /\ Len(f[i]) <= Len(f[k])
                              /\ \A j \in 1 .. Len(f[i]) : f[k][j] = f[i][j]
  BY <1>1, <1>11, WrittenKept
<1>13. Len(f[i]) <= Len(f[Len(s)]) /\ f[Len(s)][1] = f[i][1]
  BY <1>11, <1>12
<1>14. f[Len(s)] \in Chars /\ Characters(s) = f[Len(s)]
  BY <1>1, <1>2 DEF Written
<1>15. Len(f[Len(s)]) \in Nat
  BY <1>14, LenProperties DEF Chars
<1> QED
  BY <1>10, <1>13, <1>14, <1>15

(* The rule that a unit which begins no packet matches.                    *)
LEMMA MatchFirst ==
  ASSUME NEW s \in Seq(Unit), s # <<>>, NEW eof \in BOOLEAN,
         NEW b, Spelled(s[1]) = b, Len(b) >= 1,
         NEW q \in {4, 5, 7, 8}, Automaton(1, yy_ec[b[1]]) = q
  PROVE  yy_match(Characters(s), eof) = [rule |-> yy_accept[q], length |-> 1]
BY FirstCharacter, MatchSingle

(* The rules of the units that begin no packet.                            *)
LEMMA UnitsMatched ==
  ASSUME NEW s \in Seq(Unit), s # <<>>, NEW eof \in BOOLEAN
  PROVE  /\ s[1] = Plus    => yy_match(Characters(s), eof) = [rule |-> 1, length |-> 1]
         /\ s[1] = Minus   => yy_match(Characters(s), eof) = [rule |-> 2, length |-> 1]
         /\ s[1] = Newline => yy_match(Characters(s), eof) = [rule |-> 5, length |-> 1]
         /\ IsHash(s[1]) \/ s[1] = BadHash \/ Character(s[1]) =>
              yy_match(Characters(s), eof) = [rule |-> 4, length |-> 1]
<1>1. Automaton(1, 5) = 7
  BY TableEntries DEF Automaton
<1>2. Automaton(1, 6) = 8
  BY TableEntries DEF Automaton
<1>3. Automaton(1, 2) = 5
  BY TableEntries DEF Automaton
<1>4. Automaton(1, 3) = 4
  BY TableEntries DEF Automaton
<1>5. Automaton(1, 1) = 4 /\ Automaton(1, 7) = 4
  BY TableEntries DEF Automaton
<1>6. yy_accept[7] = 1 /\ yy_accept[8] = 2 /\ yy_accept[5] = 5 /\ yy_accept[4] = 4
  BY TableEntries
<1>7. ASSUME NEW ch, NEW c, yy_ec[ch] = c, NEW q \in {4, 5, 7, 8}, Automaton(1, c) = q,
             NEW b, Spelled(s[1]) = b, Len(b) >= 1, b[1] = ch
      PROVE  yy_match(Characters(s), eof) = [rule |-> yy_accept[q], length |-> 1]
  BY <1>7, MatchFirst
<1>8. s[1] = Plus => yy_match(Characters(s), eof) = [rule |-> 1, length |-> 1]
  <2>1. PICK b : b = <<43>>
    OBVIOUS
  <2>2. s[1] = Plus => Spelled(s[1]) = b /\ Len(b) >= 1 /\ b[1] = 43 /\ yy_ec[43] = 5
    BY <2>1, SpelledUnits, Classes
  <2> QED
    BY <1>1, <1>6, <1>7, <2>2
<1>9. s[1] = Minus => yy_match(Characters(s), eof) = [rule |-> 2, length |-> 1]
  <2>1. PICK b : b = <<45>>
    OBVIOUS
  <2>2. s[1] = Minus => Spelled(s[1]) = b /\ Len(b) >= 1 /\ b[1] = 45 /\ yy_ec[45] = 6
    BY <2>1, SpelledUnits, Classes
  <2> QED
    BY <1>2, <1>6, <1>7, <2>2
<1>10. s[1] = Newline => yy_match(Characters(s), eof) = [rule |-> 5, length |-> 1]
  <2>1. PICK b : b = <<10>>
    OBVIOUS
  <2>2. s[1] = Newline => Spelled(s[1]) = b /\ Len(b) >= 1 /\ b[1] = 10 /\ yy_ec[10] = 2
    BY <2>1, SpelledUnits, Classes
  <2> QED
    BY <1>3, <1>6, <1>7, <2>2
<1>11. IsHash(s[1]) => yy_match(Characters(s), eof) = [rule |-> 4, length |-> 1]
  <2>1. PICK b : b = <<35, 48, 97>>
    OBVIOUS
  <2>2. IsHash(s[1]) => Spelled(s[1]) = b /\ Len(b) >= 1 /\ b[1] = 35 /\ yy_ec[35] = 3
    BY <2>1, SpelledUnits, Classes
  <2> QED
    BY <1>4, <1>6, <1>7, <2>2
<1>12. s[1] = BadHash => yy_match(Characters(s), eof) = [rule |-> 4, length |-> 1]
  <2>1. PICK b : b = <<35, 120>>
    OBVIOUS
  <2>2. s[1] = BadHash => Spelled(s[1]) = b /\ Len(b) >= 1 /\ b[1] = 35 /\ yy_ec[35] = 3
    BY <2>1, SpelledUnits, Classes
  <2> QED
    BY <1>4, <1>6, <1>7, <2>2
<1>13. ASSUME Character(s[1])
       PROVE  yy_match(Characters(s), eof) = [rule |-> 4, length |-> 1]
  <2>1. PICK ch \in {0, 99, 120} : Spelled(s[1]) = <<ch>>
    BY <1>13, SpelledUnits
  <2>2. PICK b : b = <<ch>>
    OBVIOUS
  <2>3. Spelled(s[1]) = b /\ Len(b) >= 1 /\ b[1] = ch
    BY <2>1, <2>2
  <2>4. PICK c \in {1, 7} : yy_ec[ch] = c
    BY Classes
  <2> QED
    BY <1>5, <1>6, <1>7, <2>3, <2>4
<1> QED
  BY <1>8, <1>9, <1>10, <1>11, <1>12, <1>13

-----------------------------------------------------------------------------
(* A frame at the head of a line, up to a unit. *)
Framed(s, m, b) ==
  /\ m \in 2 .. Len(s) /\ s[1] = Dollar /\ b = Spelled(s[m])
  /\ \A i \in 2 .. m - 1 : ~Ends(s[i])

(* What is written of it: l characters before the unit, then the unit. *)
Frame(s, m, b, l) ==
  /\ l >= 1 /\ Characters(s)[1] = 36
  /\ \A j \in 2 .. l : yy_ec[Characters(s)[j]] \in Plain
  /\ Characters(s) \in Chars /\ Len(Characters(s)) \in Nat /\ Len(b) \in Nat
  /\ Len(Characters(SubSeq(s, 1, m))) = l + Len(b)
  /\ l + Len(b) <= Len(Characters(s))
  /\ m = Len(s) => l + Len(b) = Len(Characters(s))
  /\ \A k \in 1 .. Len(b) : Characters(s)[l + k] = b[k]

(* What is written of a frame up to a unit.                                *)
LEMMA FrameEnd ==
  ASSUME NEW s \in Seq(Unit), NEW m, NEW b, Framed(s, m, b)
  PROVE  \E l \in Nat : Frame(s, m, b, l)
<1>0. /\ m \in 2 .. Len(s) /\ s[1] = Dollar /\ b = Spelled(s[m])
      /\ \A i \in 2 .. m - 1 : ~Ends(s[i])
  BY DEF Framed
<1>1. Len(s) \in Nat /\ s # <<>> /\ m - 1 \in 1 .. Len(s) /\ m \in 1 .. Len(s)
  BY <1>0, LenProperties, EmptySeq
<1>2. PICK f : Written(f, s)
  BY <1>1, CharactersWritten
<1>3. PICK e \in 1 .. Len(s) : e = m - 1
  BY <1>1
<1>4. PICK a : a = f[e]
  OBVIOUS
<1>5. PICK l : l = Len(a)
  OBVIOUS
<1>6. \A i \in 2 .. e : ~Ends(s[i])
  BY <1>0, <1>3
<1>7. /\ l \in Nat /\ l >= 1 /\ a[1] = 36
      /\ \A j \in 2 .. l : yy_ec[a[j]] \in Plain
  BY <1>0, <1>1, <1>2, <1>4, <1>5, <1>6, FrameWritten
<1>8. Adds(f, s, m, a, b)
  BY <1>0, <1>1, <1>3, <1>4 DEF Adds
<1>9. /\ Len(b) \in Nat /\ Len(f[m]) = l + Len(b)
      /\ \A j \in 1 .. l : f[m][j] = a[j]
      /\ \A j \in 1 .. Len(b) : f[m][l + j] = b[j]
  BY <1>2, <1>5, <1>8, WrittenNext
<1>10. m \in 0 .. Len(s) /\ Len(s) \in m .. Len(s)
  BY <1>1
<1>11. \A k \in m .. Len(s) : /\ Len(f[m]) <= Len(f[k])
                              /\ \A j \in 1 .. Len(f[m]) : f[k][j] = f[m][j]
  BY <1>2, <1>10, WrittenKept
<1>12. PICK chars : chars = Characters(s)
  OBVIOUS
<1>13. /\ chars = f[Len(s)] /\ chars \in Chars
       /\ Characters(SubSeq(s, 1, m)) = f[m]
  BY <1>1, <1>2, <1>12 DEF Written
<1>14. Len(chars) \in Nat
  BY <1>13, LenProperties DEF Chars
<1>15. l + Len(b) <= Len(chars) /\ \A j \in 1 .. l + Len(b) : chars[j] = f[m][j]
  BY <1>9, <1>10, <1>11, <1>13
<1>16. m = Len(s) => l + Len(b) = Len(chars)
  BY <1>9, <1>13
<1>17. \A j \in 1 .. l : chars[j] = a[j]
  <2>1. \A j \in 1 .. l : j \in 1 .. l + Len(b)
    BY <1>7, <1>9
  <2> QED
    BY <1>9, <1>15, <2>1
<1>18. \A k \in 1 .. Len(b) : chars[l + k] = b[k]
  <2>1. \A k \in 1 .. Len(b) : l + k \in 1 .. l + Len(b)
    BY <1>7, <1>9
  <2> QED
    BY <1>9, <1>15, <2>1
<1>19. chars[1] = 36 /\ \A j \in 2 .. l : yy_ec[chars[j]] \in Plain
  <2>1. 1 \in 1 .. l /\ \A j \in 2 .. l : j \in 1 .. l
    BY <1>7
  <2> QED
    BY <1>7, <1>17, <2>1
<1>20. Len(Characters(SubSeq(s, 1, m))) = l + Len(b)
  BY <1>9, <1>13
<1>21. Frame(s, m, b, l)
  BY <1>7, <1>9, <1>12, <1>13, <1>14, <1>15, <1>16, <1>18, <1>19, <1>20 DEF Frame
<1> QED
  BY <1>7, <1>21

(* A frame that is not ended.                                              *)
LEMMA FrameOpen ==
  ASSUME NEW s \in Seq(Unit), s # <<>>, s[1] = Dollar, NEW eof \in BOOLEAN,
         \A i \in 2 .. Len(s) : ~Ends(s[i])
  PROVE  yy_match(Characters(s), eof) = IF eof THEN [rule |-> 4, length |-> 1] ELSE Waiting
<1>1. Len(s) \in Nat /\ Len(s) \in 1 .. Len(s)
  BY LenProperties, EmptySeq
<1>2. PICK f : Written(f, s)
  BY CharactersWritten
<1>3. PICK e \in 1 .. Len(s) : e = Len(s)
  BY <1>1
<1>4. PICK chars : chars = f[e]
  OBVIOUS
<1>5. \A i \in 2 .. e : ~Ends(s[i])
  BY <1>3
<1>6. /\ chars \in Chars /\ Len(chars) >= 1 /\ chars[1] = 36
      /\ \A j \in 2 .. Len(chars) : yy_ec[chars[j]] \in Plain
  BY <1>2, <1>4, <1>5, FrameWritten
<1>7. Characters(s) = chars
  BY <1>2, <1>3, <1>4 DEF Written
<1> QED
  BY <1>6, <1>7, MatchUnfinished

(* A frame that is ended: by the digits of its checksum, by another "$" or *)
(* a "#" without digits, or by the end of the stream.                      *)
LEMMA FrameClosed ==
  ASSUME NEW s \in Seq(Unit), NEW m \in 2 .. Len(s), s[1] = Dollar, NEW eof \in BOOLEAN,
         \A i \in 2 .. m - 1 : ~Ends(s[i])
  PROVE  /\ IsHash(s[m]) =>
              yy_match(Characters(s), eof) =
                [rule |-> 3, length |-> Len(Characters(SubSeq(s, 1, m)))]
         /\ s[m] \in {Dollar, BadHash} =>
              yy_match(Characters(s), eof) = [rule |-> 4, length |-> 1]
         /\ s[m] = EOF /\ m = Len(s) /\ eof =>
              yy_match(Characters(s), eof) = [rule |-> 4, length |-> 1]
<1>1. PICK b : b = Spelled(s[m])
  OBVIOUS
<1>2. PICK l \in Nat : Frame(s, m, b, l)
  <2>1. Framed(s, m, b)
    BY <1>1 DEF Framed
  <2> QED
    BY <2>1, FrameEnd
<1>3. PICK chars : chars = Characters(s)
  OBVIOUS
<1>4. /\ l >= 1 /\ chars[1] = 36 /\ \A j \in 2 .. l : yy_ec[chars[j]] \in Plain
      /\ chars \in Chars /\ Len(chars) \in Nat
  BY <1>2, <1>3 DEF Frame
<1>5. ASSUME IsHash(s[m])
      PROVE  yy_match(chars, eof) = [rule |-> 3, length |-> Len(Characters(SubSeq(s, 1, m)))]
  <2>1. b = <<35, 48, 97>>
    BY <1>1, <1>5, SpelledUnits
  <2>2. Len(b) = 3 /\ b[1] = 35 /\ b[2] = 48 /\ b[3] = 97
    BY <2>1
  <2>3. /\ l + 3 <= Len(chars) /\ Len(Characters(SubSeq(s, 1, m))) = l + 3
        /\ chars[l + 1] = 35 /\ chars[l + 2] = 48 /\ chars[l + 3] = 97
    BY <1>2, <1>3, <2>2 DEF Frame
  <2>4. yy_match(chars, eof) = [rule |-> 3, length |-> l + 3]
    BY <1>4, <2>3, MatchWhole
  <2> QED
    BY <2>3, <2>4
<1>6. ASSUME s[m] = Dollar
      PROVE  yy_match(chars, eof) = [rule |-> 4, length |-> 1]
  <2>1. b = <<36>>
    BY <1>1, <1>6, SpelledUnits
  <2>2. Len(b) = 1 /\ b[1] = 36
    BY <2>1
  <2>3. l + 1 <= Len(chars) /\ chars[l + 1] = 36
    BY <1>2, <1>3, <2>2 DEF Frame
  <2> QED
    BY <1>4, <2>3, MatchBroken
<1>7. ASSUME s[m] = BadHash
      PROVE  yy_match(chars, eof) = [rule |-> 4, length |-> 1]
  <2>1. b = <<35, 120>>
    BY <1>1, <1>7, SpelledUnits
  <2>2. Len(b) = 2 /\ b[1] = 35 /\ b[2] = 120
    BY <2>1
  <2>3. l + 2 <= Len(chars) /\ chars[l + 1] = 35 /\ chars[l + 2] = 120
    BY <1>2, <1>3, <2>2 DEF Frame
  <2> QED
    BY <1>4, <2>3, MatchBroken
<1>8. ASSUME s[m] = EOF, m = Len(s), eof
      PROVE  yy_match(chars, eof) = [rule |-> 4, length |-> 1]
  <2>1. b = <<>>
    BY <1>1, <1>8, SpelledUnits
  <2>2. Len(b) = 0
    BY <2>1
  <2>3. Len(chars) = l
    BY <1>2, <1>3, <1>8, <2>2 DEF Frame
  <2>4. Len(chars) >= 1 /\ \A j \in 2 .. Len(chars) : yy_ec[chars[j]] \in Plain
    BY <1>4, <2>3
  <2> QED
    BY <1>4, <1>8, <2>4, MatchUnfinished
<1> QED
  BY <1>3, <1>5, <1>6, <1>7, <1>8

-----------------------------------------------------------------------------
(* The end of the stream is the last on the line. *)
EOFLast == \A i \in 1 .. Len(input) - 1 : input[i] # EOF

(* The automaton matches what the rules say.                               *)
LEMMA Matched ==
  ASSUME LinkTyped, EOFLast
  PROVE  TablesMatchRules
<1> SUFFICES ASSUME Scanning, Head(input) # EOF
             PROVE  yy_match(Characters(input), EOF \in ToSet(input)) =
               CASE Head(input) = Plus    -> [rule |-> 1, length |-> 1]
                 [] Head(input) = Minus   -> [rule |-> 2, length |-> 1]
                 [] Head(input) = Newline -> [rule |-> 5, length |-> 1]
                 [] Head(input) = Dollar /\ MatchEnd = 0 -> Waiting
                 [] Head(input) = Dollar /\ MatchEnd # 0 /\ IsHash(input[MatchEnd]) ->
                      [rule |-> 3, length |-> Len(Characters(SubSeq(input, 1, MatchEnd)))]
                 [] OTHER -> [rule |-> 4, length |-> 1]
  BY DEF TablesMatchRules
<1> DEFINE u == input[1]
<1>1. /\ input \in Seq(Unit) /\ Len(input) \in Nat /\ DOMAIN input = 1 .. Len(input)
      /\ input # <<>> /\ 1 \in 1 .. Len(input) /\ Head(input) = u /\ u \in Unit
  BY AccountNumbers, ScanHead, ElementOfSeq DEF Scanning
<1>2. PICK eof \in BOOLEAN : eof = (EOF \in ToSet(input))
  <2>1. CASE EOF \in ToSet(input)
    <3>1. TRUE = (EOF \in ToSet(input))
      BY <2>1
    <3> QED
      BY <3>1, Zenon
  <2>2. CASE EOF \notin ToSet(input)
    <3>1. FALSE = (EOF \in ToSet(input))
      BY <2>2
    <3> QED
      BY <3>1, Zenon
  <2> QED
    BY <2>1, <2>2
<1>3. eof <=> Ended(input)
  BY <1>1, <1>2 DEF ToSet, Ended
<1>4. u # EOF
  BY <1>1
<1> HIDE DEF u
<1> DEFINE match == yy_match(Characters(input), eof)
<1>5. /\ u = Plus    => match = [rule |-> 1, length |-> 1]
      /\ u = Minus   => match = [rule |-> 2, length |-> 1]
      /\ u = Newline => match = [rule |-> 5, length |-> 1]
      /\ IsHash(u) \/ u = BadHash \/ Character(u) => match = [rule |-> 4, length |-> 1]
  BY <1>1, UnitsMatched DEF u
<1>6. u = Dollar /\ MatchEnd = 0 => match = Waiting
  <2>1. SUFFICES ASSUME u = Dollar, MatchEnd = 0 PROVE match = Waiting
    OBVIOUS
  <2>2. \A i \in 2 .. Len(input) : ~Ends(input[i])
    BY <1>1, <2>1, MatchEnds
  <2>3. ~eof
    <3>1. \A i \in 1 .. Len(input) : i = 1 \/ i \in 2 .. Len(input)
      BY <1>1
    <3>2. \A i \in 1 .. Len(input) : input[i] # EOF
      BY <1>4, <2>2, <3>1 DEF Ends, u
    <3> QED
      BY <1>3, <3>2 DEF Ended
  <2> QED
    BY <1>1, <2>1, <2>2, <2>3, FrameOpen DEF u
<1>7. ASSUME u = Dollar, MatchEnd # 0
      PROVE  IF IsHash(input[MatchEnd])
             THEN match = [rule |-> 3, length |-> Len(Characters(SubSeq(input, 1, MatchEnd)))]
             ELSE match = [rule |-> 4, length |-> 1]
  <2>1. PICK m \in 2 .. Len(input) : m = MatchEnd
    BY <1>1, <1>7, MatchEnds
  <2>2. Ends(input[m]) /\ \A i \in 2 .. m - 1 : ~Ends(input[i])
    BY <1>1, <1>7, <2>1, MatchEnds
  <2>3. /\ IsHash(input[m]) =>
             match = [rule |-> 3, length |-> Len(Characters(SubSeq(input, 1, m)))]
        /\ input[m] \in {Dollar, BadHash} => match = [rule |-> 4, length |-> 1]
        /\ input[m] = EOF /\ m = Len(input) /\ eof => match = [rule |-> 4, length |-> 1]
    BY <1>1, <1>7, <2>2, FrameClosed DEF u
  <2>4. input[m] = EOF => m = Len(input) /\ eof
    <3>0. m \in 2 .. Len(input) /\ Len(input) \in Nat
      BY <1>1, <2>1
    <3>1. m \in 1 .. Len(input) /\ (m # Len(input) => m \in 1 .. Len(input) - 1)
      BY <3>0
    <3>2. input[m] = EOF => Ended(input)
      BY <3>1 DEF Ended
    <3> QED
      BY <1>3, <3>1, <3>2 DEF EOFLast
  <2>5. IF IsHash(input[m])
        THEN match = [rule |-> 3, length |-> Len(Characters(SubSeq(input, 1, m)))]
        ELSE match = [rule |-> 4, length |-> 1]
    BY <2>2, <2>3, <2>4 DEF Ends
  <2> QED
    BY <2>1, <2>5
<1> HIDE DEF match
<1>8. /\ Dollar \notin {Plus, Minus, Newline} /\ Plus \notin {Minus, Newline}
      /\ Minus # Newline
  BY Kinds
<1>9. \A x : IsHash(x) \/ x = BadHash \/ Character(x) => x \notin {Dollar, Plus, Minus, Newline}
  <2>1. \A x : IsHash(x) => x \notin {Dollar, Plus, Minus, Newline}
    BY Units
  <2>2. BadHash \notin {Dollar, Plus, Minus, Newline}
    BY Kinds DEF BadHash, Newline
  <2>3. \A x : Character(x) => x \notin {Dollar, Plus, Minus, Newline}
    BY Kinds DEF Character, Other, Newline
  <2> QED
    BY <2>1, <2>2, <2>3
<1>10. match = CASE u = Plus    -> [rule |-> 1, length |-> 1]
                 [] u = Minus   -> [rule |-> 2, length |-> 1]
                 [] u = Newline -> [rule |-> 5, length |-> 1]
                 [] u = Dollar /\ MatchEnd = 0 -> Waiting
                 [] u = Dollar /\ MatchEnd # 0 /\ IsHash(input[MatchEnd]) ->
                      [rule |-> 3, length |-> Len(Characters(SubSeq(input, 1, MatchEnd)))]
                 [] OTHER -> [rule |-> 4, length |-> 1]
  <2>1. CASE u = Plus
    BY <1>5, <1>8, <2>1
  <2>2. CASE u = Minus
    BY <1>5, <1>8, <2>2
  <2>3. CASE u = Newline
    BY <1>5, <1>8, <2>3
  <2>4. CASE u = Dollar
    BY <1>6, <1>7, <1>8, <2>4
  <2>5. CASE IsHash(u) \/ u = BadHash \/ Character(u)
    BY <1>5, <1>9, <2>5
  <2> QED
    BY <1>1, <1>4, <2>1, <2>2, <2>3, <2>4, <2>5, UnitKinds
<1> QED
  BY <1>1, <1>2, <1>10 DEF match

-----------------------------------------------------------------------------
(* Only the debugger that leaves ends the stream, once, and nothing is     *)
(* sent behind the end: it stays the last on the line.                     *)
LEMMA EOFLastKept ==
  ASSUME LinkTyped, Closed, EOFLast, Scanner \/ Debugger \/ Leave \/ Faults
  PROVE  EOFLast'
<1>1. /\ input \in Seq(Unit) /\ Len(input) \in Nat /\ DOMAIN input = 1 .. Len(input)
      /\ \A i \in 1 .. Len(input) - 1 : input[i] # EOF
  BY AccountNumbers DEF EOFLast
<1>2. input' = input => EOFLast'
  BY DEF EOFLast
<1>3. ~Ended(input') /\ Len(input') \in Nat => EOFLast'
  BY DEF Ended, EOFLast
<1>4. ASSUME NEW i \in 1 .. Len(input), input' = RemoveAt(input, i)
      PROVE  EOFLast'
  <2>1. /\ Len(input') = Len(input) - 1
        /\ \A j \in 1 .. Len(input) - 1 :
             input'[j] = IF j < i THEN input[j] ELSE input[j + 1]
    BY <1>1, <1>4, RemoveAtType
  <2>2. ASSUME NEW j \in 1 .. Len(input') - 1 PROVE input'[j] # EOF
    <3>1. /\ j \in 1 .. Len(input) - 1 /\ j + 1 \in 1 .. Len(input) - 1
          /\ input'[j] = input[j] \/ input'[j] = input[j + 1]
      BY <1>1, <2>1, <2>2
    <3> QED
      BY <1>1, <3>1
  <2> QED
    BY <2>2 DEF EOFLast
<1>5. ASSUME NEW i \in 1 .. Len(input), NEW u \in Unit, u # EOF,
             input' = [input EXCEPT ![i] = u]
      PROVE  EOFLast'
  <2>1. /\ Len(input') = Len(input)
        /\ \A j \in 1 .. Len(input) : input'[j] = IF j = i THEN u ELSE input[j]
    BY <1>1, <1>5, ExceptSeq
  <2>2. ASSUME NEW j \in 1 .. Len(input') - 1 PROVE input'[j] # EOF
    <3>1. j \in 1 .. Len(input) - 1 /\ j \in 1 .. Len(input)
      BY <1>1, <2>1, <2>2
    <3> QED
      BY <1>1, <1>5, <2>1, <3>1
  <2> QED
    BY <2>2 DEF EOFLast
<1>6. CASE Scanner
  <2>1. \/ input' = input
        \/ input' = Tail(input) /\ input # <<>>
        \/ /\ input' = SubSeq(input, MatchEnd + 1, Len(input))
           /\ MatchEnd # 0
    BY <1>6 DEF Scanner, ScanPlus, ScanMinus, ScanPacket, ScanError, ScanNewline,
                ScanEOF, Serve, Scanning
  <2>2. CASE input' = Tail(input) /\ input # <<>>
    <3>1. /\ Len(input') = Len(input) - 1
          /\ \A k \in 1 .. Len(input) - 1 : input'[k] = input[k + 1]
      BY <1>1, <2>2, HeadTailProperties
    <3>2. ASSUME NEW j \in 1 .. Len(input') - 1 PROVE input'[j] # EOF
      <4>1. j \in 1 .. Len(input) - 1 /\ j + 1 \in 1 .. Len(input) - 1
        BY <1>1, <3>1, <3>2
      <4> QED
        BY <1>1, <3>1, <4>1
    <3> QED
      BY <3>2 DEF EOFLast
  <2>3. CASE input' = SubSeq(input, MatchEnd + 1, Len(input)) /\ MatchEnd # 0
    <3>1. PICK m \in 2 .. Len(input) : m = MatchEnd
      BY <1>1, <2>3, MatchEnds
    <3>2. /\ Len(input') = Len(input) - m
          /\ \A k \in 1 .. Len(input) - m : input'[k] = input[m + k]
      <4>0. m \in 2 .. Len(input) /\ Len(input) \in Nat
        BY <1>1, <3>1
      <4>1. PICK a \in Int, n \in Int : a = m + 1 /\ n = Len(input)
        BY <4>0
      <4>2. input' = SubSeq(input, a, n)
        BY <2>3, <3>1, <4>1
      <4>3. \A i \in a .. n : input[i] \in Unit
        <5>1. \A i \in a .. n : i \in 1 .. Len(input)
          BY <1>1, <3>1, <4>1
        <5> QED
          BY <1>1, <5>1, ElementOfSeq
      <4>4. /\ Len(input') = IF a <= n THEN n - a + 1 ELSE 0
            /\ \A k \in 1 .. n - a + 1 : input'[k] = input[a + k - 1]
        BY <4>2, <4>3, SubSeqProperties
      <4>5. /\ (IF a <= n THEN n - a + 1 ELSE 0) = Len(input) - m
            /\ n - a + 1 = Len(input) - m
            /\ \A k \in 1 .. Len(input) - m : a + k - 1 = m + k
        BY <4>0, <4>1
      <4> QED
        BY <4>4, <4>5
    <3>3. ASSUME NEW j \in 1 .. Len(input') - 1 PROVE input'[j] # EOF
      <4>1. j \in 1 .. Len(input) - m /\ m + j \in 1 .. Len(input) - 1
        BY <1>1, <3>1, <3>2, <3>3
      <4> QED
        BY <1>1, <3>2, <4>1
    <3> QED
      BY <3>3 DEF EOFLast
  <2> QED
    BY <1>2, <2>1, <2>2, <2>3
<1>7. CASE Debugger \/ Stray \/ Impatience
  <2>1. waiting' # "gone"
    BY <1>7 DEF Debugger, Ask, ReadAck, ReadAnswer, Timeout, Stray, Impatience, Resend,
                debuggerVars, LinkTyped, LinkTypeOK
  <2>2. ~Ended(input')
    BY <2>1, ClosedKept DEF Closed
  <2>3. Len(input') \in Nat
    BY LinkTypedKept, LenProperties DEF LinkNext, LinkTyped, LinkTypeOK
  <2> QED
    BY <1>3, <2>2, <2>3
<1>8. CASE Leave
  <2>1. input' = input \o <<EOF>> /\ ~Ended(input)
    BY <1>8 DEF Leave, Transmit, Closed
  <2>2. Len(input') = Len(input) + 1 /\ \A j \in 1 .. Len(input) : input'[j] = input[j]
    BY <1>1, <2>1
  <2>3. ASSUME NEW j \in 1 .. Len(input') - 1 PROVE input'[j] # EOF
    <3>1. j \in 1 .. Len(input) /\ input'[j] = input[j]
      BY <1>1, <2>2
    <3> QED
      BY <2>1, <3>1 DEF Ended
  <2> QED
    BY <2>3 DEF EOFLast
<1>9. CASE DamageBody
  <2>1. Body(0) \in Unit /\ Body(0) # EOF
    BY LinkAssumption, Units, Kinds
  <2>2. input' = input \/ \E i \in 1 .. Len(input) : input' = [input EXCEPT ![i] = Body(0)]
    BY <1>1, <1>9 DEF DamageBody
  <2> QED
    BY <1>2, <1>5, <2>1, <2>2
<1>10. CASE Lose
  <2>1. input' = input \/ \E i \in 1 .. Len(input) : input' = RemoveAt(input, i)
    BY <1>1, <1>10 DEF Lose
  <2> QED
    BY <1>2, <1>4, <2>1
<1>11. CASE Break
  <2>1. PICK i \in 1 .. Len(input), byte \in {Other, Minus, BadHash} :
          input' = [input EXCEPT ![i] = byte]
    BY <1>1, <1>11 DEF Break
  <2>2. byte \in Unit /\ byte # EOF
    BY Units, Kinds DEF EOF, Other, BadHash
  <2> QED
    BY <1>5, <2>1, <2>2
<1> QED
  BY <1>6, <1>7, <1>8, <1>9, <1>10, <1>11 DEF Faults

(* The tables that flex has made match what the rules of scanner.l say, on *)
(* every line that the link brings about, however long it is and whatever  *)
(* it has lost, broken or added: the rule, how much of the line it takes,  *)
(* and whether it has to wait for more (yy_match in scanner.c).            *)
THEOREM TablesMatchRulesHold == LinkSpec => []TablesMatchRules
<1> DEFINE Inv == LinkTyped /\ Closed /\ EOFLast
<1>1. LinkInit => Inv
  <2>1. LinkInit => Closed /\ EOFLast
    <3>1. Len(<<>>) = 0
      OBVIOUS
    <3> QED
      BY <3>1 DEF LinkInit, Closed, Ended, EOFLast
  <2> QED
    BY <2>1, InitTyped
<1>2. Inv /\ [LinkNext]_vars => Inv'
  <2> SUFFICES ASSUME Inv, [LinkNext]_vars PROVE Inv'
    OBVIOUS
  <2>1. LinkTyped'
    BY LinkTypedKept
  <2>2. CASE UNCHANGED vars
    BY <2>1, <2>2 DEF vars, scannerVars, debuggerVars, Closed, Ended, EOFLast
  <2>3. CASE LinkNext
    BY <2>1, <2>3, ClosedKept, EOFLastKept DEF LinkNext
  <2> QED
    BY <2>2, <2>3
<1>3. Inv => TablesMatchRules
  BY Matched
<1> QED
  BY <1>1, <1>2, <1>3, PTL DEF LinkSpec
=============================================================================
