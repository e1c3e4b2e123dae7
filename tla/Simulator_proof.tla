--------------------------- MODULE Simulator_proof ---------------------------
(***************************************************************************)
(* The threads around the processor, whatever the program, the requests,   *)
(* and the order in which the lock is granted: what they exchange has the  *)
(* right type and every answer a request, one thread at a time uses the    *)
(* processor, and the debugger can rely on what it writes.                 *)
(***************************************************************************)
EXTENDS Simulator, ArmMachine_proof, SequenceTheorems

-----------------------------------------------------------------------------
(* Packets *)

(* What the debugger sends for a byte. *)
Coded(b) == IF b \in {Escape, Hash, Dollar} THEN <<Escape, Flip(b)>> ELSE <<b>>

(* To flip the bit of an escaped byte twice gives the byte back. *)
LEMMA FlipFlips ==
  ASSUME NEW b \in Byte
  PROVE  Flip(b) \in Int /\ Flip(Flip(b)) = b
<1> DEFINE bit == ByteSize \div 8
           q   == b \div bit
           r   == b % bit
<1>1. bit \in Nat \ {0} /\ b \in Nat
  BY Sizes DEF Byte
<1>2. q \in Nat /\ r \in 0 .. bit - 1 /\ b = bit * q + r
  <2> HIDE DEF bit
  <2> QED
    BY <1>1, Division
<1>3. Flip(b) = IF q % 2 = 1 THEN b - bit ELSE b + bit
  BY DEF Flip
<1> HIDE DEF q, r
<1>4. CASE q % 2 = 1
  <2>1. q - 1 \in Nat /\ (q - 1) % 2 = 0
    BY <1>2, <1>4
  <2>2. b - bit = bit * (q - 1) + r
    <3> HIDE DEF bit
    <3> QED
      BY <1>1, <1>2
  <2>3. (b - bit) \div bit = q - 1
    <3> HIDE DEF bit
    <3> QED
      BY <1>1, <1>2, <2>1, <2>2, DivisionUnique
  <2>4. Flip(b - bit) = (b - bit) + bit
    BY <2>1, <2>3 DEF Flip
  <2> QED
    BY <1>1, <1>3, <1>4, <2>4
<1>5. CASE q % 2 # 1
  <2>1. q + 1 \in Nat /\ (q + 1) % 2 = 1
    BY <1>2, <1>5
  <2>2. b + bit = bit * (q + 1) + r
    <3> HIDE DEF bit
    <3> QED
      BY <1>1, <1>2
  <2>3. (b + bit) \div bit = q + 1
    <3> HIDE DEF bit
    <3> QED
      BY <1>1, <1>2, <2>1, <2>2, DivisionUnique
  <2>4. Flip(b + bit) = (b + bit) - bit
    BY <2>1, <2>3 DEF Flip
  <2> QED
    BY <1>1, <1>3, <1>5, <2>4
<1> QED
  BY <1>4, <1>5

(* What is sent is one byte, or two of which the first is the escape. *)
LEMMA CodedType ==
  ASSUME NEW b \in Byte
  PROVE  /\ b \in Int /\ Escape \in Int
         /\ Coded(b) \in Seq(Int) /\ Len(Coded(b)) \in 1 .. 2
         /\ Len(Coded(b)) = 1 => Coded(b)[1] = b /\ b # Escape
         /\ Len(Coded(b)) = 2 => Coded(b)[1] = Escape /\ Flip(Coded(b)[2]) = b
<1>1. b \in Int /\ Escape \in Int
  BY Sizes DEF Byte, Escape
<1>2. Flip(b) \in Int /\ Flip(Flip(b)) = b
  BY FlipFlips
<1> QED
  BY <1>1, <1>2 DEF Coded

(* The recursion of Escaped, unrolled. *)
LEMMA EscapedSteps ==
  ASSUME NEW data \in Seq(Byte)
  PROVE  \E u \in [0 .. Len(data) -> Seq(Int)] :
           /\ u[0] = <<>>
           /\ \A i \in 1 .. Len(data) : u[i] = u[i - 1] \o Coded(data[i])
           /\ Escaped(data) = u[Len(data)]
<1> DEFINE n == Len(data)
           S == Seq(Int)
           e == <<>>
           step == [i \in 1 .. n |-> [s \in S |-> s \o Coded(data[i])]]
<1>1. n \in Nat
  BY LenProperties
<1>2. \A i \in 1 .. n : Coded(data[i]) \in S
  BY ElementOfSeq, CodedType
<1>3. step \in [1 .. n -> [S -> S]]
  <2>1. \A s, t \in S : s \o t \in S
    BY ConcatProperties
  <2> HIDE DEF n, S
  <2> QED
    BY <1>2, <2>1
<1>4. e \in S
  BY EmptySeq
<1> HIDE DEF n, S, e, step
<1>5. PICK f : Computed(f, S, e, n, step)
  BY <1>1, <1>3, <1>4, Recursion
<1>0. f \in [0 .. n -> S] /\ f[0] = e
  BY <1>5 DEF Computed
<1>6. \A i \in 1 .. n : f[i] = f[i - 1] \o Coded(data[i])
  <2>1. \A i \in 1 .. n : f[i - 1] \in S
    BY <1>0, <1>1
  <2> QED
    BY <1>5, <2>1 DEF step, Computed
<1> DEFINE Body(g) == [i \in 0 .. Len(data) |->
                         IF i = 0 THEN <<>>
                         ELSE g[i - 1] \o
                           (IF data[i] \in {Escape, Hash, Dollar}
                            THEN <<Escape, Flip(data[i])>> ELSE <<data[i]>>)]
           upto == CHOOSE g : g = Body(g)
<1>7. \A g : Body(g) = [i \in 0 .. n |-> IF i = 0 THEN e ELSE g[i - 1] \o Coded(data[i])]
  BY DEF Coded, n, e
<1>10. Escaped(data) = upto[n]
  BY DEF Escaped, n
<1> HIDE DEF Body
<1>8. \E g : g = Body(g)
  <2>1. \A i \in 0 .. n : i # 0 => i \in 1 .. n
    BY <1>1
  <2>2. f = [i \in 0 .. n |-> IF i = 0 THEN e ELSE f[i - 1] \o Coded(data[i])]
    BY <1>0, <1>6, <2>1
  <2> QED
    BY <1>7, <2>2
<1>9. upto = Body(upto)
  BY <1>8, Zenon
<1> HIDE DEF upto
<1>11. \A i \in 0 .. n : upto[i] = f[i]
  <2>1. upto = [i \in 0 .. n |-> IF i = 0 THEN e ELSE upto[i - 1] \o Coded(data[i])]
    BY <1>7, <1>9
  <2>2. upto[0] = e
    <3>1. 0 \in 0 .. n
      BY <1>1
    <3> QED
      BY <2>1, <3>1
  <2>3. \A i \in 1 .. n : upto[i] = upto[i - 1] \o Coded(data[i])
    <3>1. \A i \in 1 .. n : i \in 0 .. n /\ i # 0
      BY <1>1
    <3> QED
      BY <2>1, <3>1
  <2>4. \A i \in 1 .. n : upto[i - 1] \in S => upto[i] = step[i][upto[i - 1]]
    BY <2>3 DEF step
  <2> QED
    BY <1>5, <2>2, <2>4 DEF Computed
<1>12. Escaped(data) = f[n]
  BY <1>1, <1>10, <1>11
<1> QED
  BY <1>0, <1>6, <1>12 DEF n, S, e

(* The recursion of Content, unrolled from the end of the packet.          *)
LEMMA ContentSteps ==
  ASSUME NEW packet \in Seq(Int)
  PROVE  \E from :
           /\ Content(packet) = from[1]
           /\ from[Len(packet) + 1] = <<>>
           /\ \A i \in 1 .. Len(packet) :
                from[i] = IF packet[i] = Escape /\ i < Len(packet)
                          THEN <<Flip(packet[i + 1])>> \o from[i + 2]
                          ELSE <<packet[i]>> \o from[i + 1]
<1> DEFINE n == Len(packet)
           S == Seq(Int)
           Both == S \X S
           e == <<<<>>, <<>>>>
           First(i, a, b) == IF packet[i] = Escape /\ i < n
                             THEN <<Flip(packet[i + 1])>> \o b ELSE <<packet[i]>> \o a
           step == [k \in 1 .. n |-> [t \in Both |-> <<First(n + 1 - k, t[1], t[2]), t[1]>>]]
<1>1. n \in Nat /\ (\A i \in 1 .. n : packet[i] \in Int)
  BY LenProperties, ElementOfSeq
<1>2. \A b \in Int : Flip(b) \in Int /\ <<b>> \in S
  <2>1. ByteSize \div 8 \in Int
    BY Sizes
  <2> QED
    BY <2>1 DEF Flip
<1>3. \A i \in 1 .. n : \A a, b \in S : First(i, a, b) \in S
  <2>1. \A s, t \in S : s \o t \in S
    BY ConcatProperties
  <2>2. \A i \in 1 .. n : i < n => i + 1 \in 1 .. n
    BY <1>1
  <2> HIDE DEF n, S
  <2> QED
    BY <1>1, <1>2, <2>1, <2>2
<1>4. step \in [1 .. n -> [Both -> Both]]
  <2>1. \A k \in 1 .. n : n + 1 - k \in 1 .. n
    BY <1>1
  <2> HIDE DEF n, S, First
  <2> QED
    BY <1>3, <2>1
<1>5. e \in Both
  BY EmptySeq
<1> HIDE DEF n, S, Both, e, step, First
<1>6. PICK w : Computed(w, Both, e, n, step)
  BY <1>1, <1>4, <1>5, Recursion
<1>7. /\ w \in [0 .. n -> Both] /\ w[0] = e
      /\ \A k \in 1 .. n : w[k] = step[k][w[k - 1]]
  BY <1>6 DEF Computed
<1>8. \A k \in 1 .. n : w[k] = <<First(n + 1 - k, w[k - 1][1], w[k - 1][2]), w[k - 1][1]>>
  <2>1. \A k \in 1 .. n : w[k - 1] \in Both
    BY <1>1, <1>7
  <2> QED
    BY <1>7, <2>1 DEF step
<1> DEFINE Body(g) == [i \in 1 .. Len(packet) + 2 |->
                         IF i > Len(packet) THEN <<>>
                         ELSE IF packet[i] = Escape /\ i < Len(packet)
                              THEN <<Flip(packet[i + 1])>> \o g[i + 2]
                              ELSE <<packet[i]>> \o g[i + 1]]
           from == CHOOSE g : g = Body(g)
<1>9. \A g : Body(g) = [i \in 1 .. n + 2 |-> IF i > n THEN <<>>
                                            ELSE First(i, g[i + 1], g[i + 2])]
  BY DEF First, n
<1>10. Content(packet) = from[1]
  BY DEF Content
<1> HIDE DEF Body
<1>11. \E g : g = Body(g)
  <2> DEFINE g == [i \in 1 .. n + 2 |-> IF i = n + 2 THEN <<>> ELSE w[n + 1 - i][1]]
  <2>1. ASSUME NEW i \in 1 .. n
        PROVE  g[i] = First(i, g[i + 1], g[i + 2])
    <3>1. /\ n + 1 - i \in 1 .. n /\ n - i \in 0 .. n /\ n + 1 - (n + 1 - i) = i
          /\ (n + 1 - i) - 1 = n - i /\ n + 1 - (i + 1) = n - i
          /\ i \in 1 .. n + 2 /\ i + 1 \in 1 .. n + 2 /\ i + 2 \in 1 .. n + 2
          /\ i # n + 2 /\ i + 1 # n + 2
      BY <1>1
    <3>2. g[i] = w[n + 1 - i][1] /\ g[i + 1] = w[n - i][1]
      BY <3>1
    <3>3. g[i] = First(i, w[n - i][1], w[n - i][2])
      BY <1>8, <3>1, <3>2
    <3>4. CASE i = n
      BY <1>7, <3>1, <3>2, <3>3, <3>4 DEF e
    <3>5. CASE i # n
      <4>1. n - i \in 1 .. n /\ (n - i) - 1 = n + 1 - (i + 2) /\ i + 2 # n + 2
        BY <1>1, <3>5
      <4>2. w[n - i][2] = w[(n - i) - 1][1]
        BY <1>8, <4>1
      <4>3. g[i + 2] = w[n + 1 - (i + 2)][1]
        BY <3>1, <4>1
      <4> QED
        BY <3>2, <3>3, <4>1, <4>2, <4>3
    <3> QED
      BY <3>4, <3>5
  <2>2. w[0][1] = <<>>
    BY <1>7 DEF e
  <2>3. \A i \in 1 .. n + 2 : i \in 1 .. n \/ i = n + 1 \/ i = n + 2
    BY <1>1
  <2>4. g[n + 1] = <<>> /\ g[n + 2] = <<>>
    <3>1. n + 1 \in 1 .. n + 2 /\ n + 2 \in 1 .. n + 2 /\ n + 1 # n + 2 /\ n + 1 - (n + 1) = 0
      BY <1>1
    <3> QED
      BY <2>2, <3>1
  <2>5. g = [i \in 1 .. n + 2 |-> g[i]]
    OBVIOUS
  <2> HIDE DEF g
  <2>6. \A i \in 1 .. n + 2 : g[i] = IF i > n THEN <<>> ELSE First(i, g[i + 1], g[i + 2])
    <3>1. \A i \in 1 .. n : ~(i > n)
      BY <1>1
    <3>2. n + 1 > n /\ n + 2 > n
      BY <1>1
    <3> QED
      BY <2>1, <2>3, <2>4, <3>1, <3>2
  <2>7. g = Body(g)
    BY <1>9, <2>5, <2>6
  <2> QED
    BY <2>7
<1>12. from = Body(from)
  BY <1>11, Zenon
<1> HIDE DEF from
<1>13. from = [i \in 1 .. n + 2 |-> IF i > n THEN <<>> ELSE First(i, from[i + 1], from[i + 2])]
  BY <1>9, <1>12
<1>14. from[n + 1] = <<>>
  <2>1. n + 1 \in 1 .. n + 2 /\ n + 1 > n
    BY <1>1
  <2> QED
    BY <1>13, <2>1
<1>15. \A i \in 1 .. n : from[i] = First(i, from[i + 1], from[i + 2])
  <2>1. \A i \in 1 .. n : i \in 1 .. n + 2 /\ ~(i > n)
    BY <1>1
  <2> QED
    BY <1>13, <2>1
<1> QED
  BY <1>10, <1>14, <1>15 DEF First, n

(* What is read back out of a packet is what was put into it, whichever of *)
(* the bytes had to be escaped (write_mem_binary).                         *)
THEOREM ContentOfEscaped ==
  ASSUME NEW data \in Seq(Byte)
  PROVE  Content(Escaped(data)) = data
<1> DEFINE n == Len(data)
<1>1. PICK u \in [0 .. n -> Seq(Int)] :
        /\ u[0] = <<>>
        /\ \A i \in 1 .. n : u[i] = u[i - 1] \o Coded(data[i])
        /\ Escaped(data) = u[n]
  BY EscapedSteps
<1> DEFINE packet == u[n]
           At(j) == Len(u[j]) + 1
<1>2. /\ n \in Nat /\ packet \in Seq(Int)
      /\ \A j \in 0 .. n : u[j] \in Seq(Int) /\ Len(u[j]) \in Nat
  <2>1. n \in Nat
    BY LenProperties
  <2> HIDE DEF n
  <2>2. \A j \in 0 .. n : u[j] \in Seq(Int)
    BY <1>1
  <2> QED
    BY <2>1, <2>2, LenProperties
<1>3. PICK from :
        /\ Content(packet) = from[1]
        /\ from[Len(packet) + 1] = <<>>
        /\ \A i \in 1 .. Len(packet) :
             from[i] = IF packet[i] = Escape /\ i < Len(packet)
                       THEN <<Flip(packet[i + 1])>> \o from[i + 2]
                       ELSE <<packet[i]>> \o from[i + 1]
  BY <1>2, ContentSteps
<1> HIDE DEF packet
<1> DEFINE Prefix(j) == /\ Len(u[j]) <= Len(packet)
                        /\ \A i \in 1 .. Len(u[j]) : packet[i] = u[j][i]
           Read(j)   == from[Len(u[j]) + 1] = SubSeq(data, j + 1, n)
<1>4. Prefix(n) /\ Read(n)
  <2>1. Prefix(n)
    BY <1>2 DEF packet
  <2>2. SubSeq(data, n + 1, n) = <<>>
    <3> HIDE DEF n
    <3> QED
      BY <1>2, SubSeqEmpty
  <2> QED
    BY <1>3, <2>1, <2>2 DEF packet
<1>5. ASSUME NEW j \in 1 .. n, Prefix(j), Read(j)
      PROVE  Prefix(j - 1) /\ Read(j - 1)
  <2> DEFINE b == data[j]
             c == Coded(b)
             a == Len(u[j - 1])
  <2>1. b \in Byte /\ u[j - 1] \in Seq(Int) /\ u[j] = u[j - 1] \o c /\ a \in Nat
    <3>1. j - 1 \in 0 .. n
      BY <1>2
    <3>2. b \in Byte
      BY ElementOfSeq
    <3> QED
      BY <1>1, <1>2, <3>1, <3>2
  <2>2. /\ c \in Seq(Int) /\ Len(c) \in 1 .. 2
        /\ Len(c) = 1 => c[1] = b /\ b # Escape
        /\ Len(c) = 2 => c[1] = Escape /\ Flip(c[2]) = b
    BY <2>1, CodedType
  <2>3. /\ Len(u[j]) = a + Len(c)
        /\ \A i \in 1 .. a + Len(c) : u[j][i] = IF i <= a THEN u[j - 1][i] ELSE c[i - a]
    BY <2>1, <2>2, ConcatProperties
  <2> HIDE DEF a, c, b
  <2>4. Len(packet) \in Nat
    BY <1>2, LenProperties
  <2>5. Prefix(j - 1)
    <3>1. a <= Len(packet)
      BY <1>5, <2>1, <2>2, <2>3, <2>4
    <3>2. \A i \in 1 .. a : packet[i] = u[j - 1][i]
      <4>1. \A i \in 1 .. a : i \in 1 .. a + Len(c) /\ i <= a
        BY <2>1, <2>2
      <4> QED
        BY <1>5, <2>3, <4>1
    <3> QED
      BY <3>1, <3>2 DEF a
  <2>6. \A i \in 1 .. Len(c) : packet[a + i] = c[i]
    <3>1. \A i \in 1 .. Len(c) : a + i \in 1 .. a + Len(c) /\ ~(a + i <= a) /\ (a + i) - a = i
      BY <2>1, <2>2
    <3> QED
      BY <1>5, <2>3, <3>1
  <2>7. SubSeq(data, j, n) = <<b>> \o SubSeq(data, j + 1, n)
    <3>1. n \in j .. n
      BY <1>2
    <3> QED
      BY <3>1, SubSeqRecursiveFirst DEF b
  <2>8. from[a + Len(c) + 1] = SubSeq(data, j + 1, n)
    BY <1>5, <2>3
  <2>9. a + Len(c) <= Len(packet)
    BY <1>5, <2>3
  <2>10. from[a + 1] = SubSeq(data, j, n)
    <3>1. CASE Len(c) = 1
      <4>1. packet[a + 1] = b /\ b # Escape
        BY <2>2, <2>6, <3>1
      <4>2. a + 1 \in 1 .. Len(packet) /\ (a + 1) + 1 = a + Len(c) + 1
        BY <2>1, <2>4, <2>9, <3>1
      <4>3. from[a + 1] = <<b>> \o from[(a + 1) + 1]
        BY <1>3, <4>1, <4>2
      <4> QED
        BY <2>7, <2>8, <4>2, <4>3
    <3>2. CASE Len(c) = 2
      <4>1. packet[a + 1] = Escape /\ packet[a + 2] = c[2]
        BY <2>2, <2>6, <3>2
      <4>2. /\ a + 1 \in 1 .. Len(packet) /\ a + 1 < Len(packet)
            /\ (a + 1) + 1 = a + 2 /\ (a + 1) + 2 = a + Len(c) + 1
        BY <2>1, <2>4, <2>9, <3>2
      <4>3. from[a + 1] = <<Flip(packet[(a + 1) + 1])>> \o from[(a + 1) + 2]
        BY <1>3, <4>1, <4>2
      <4> QED
        BY <2>2, <2>7, <2>8, <3>2, <4>1, <4>2, <4>3
    <3> QED
      BY <2>2, <3>1, <3>2
  <2>11. (j - 1) + 1 = j
    OBVIOUS
  <2> QED
    BY <2>5, <2>10, <2>11 DEF a
<1> DEFINE T == {k \in 0 .. n : ~(Prefix(n - k) /\ Read(n - k))}
<1>6. T = {}
  <2>1. SUFFICES ASSUME T # {} PROVE FALSE
    OBVIOUS
  <2>2. PICK k \in T : \A l \in T : k <= l
    <3>1. T \subseteq Nat
      OBVIOUS
    <3> HIDE DEF T
    <3> QED
      BY <2>1, <3>1, LeastNumber
  <2> HIDE DEF Prefix, Read, n
  <2>3. k # 0
    BY <1>2, <1>4
  <2>4. k - 1 \in 0 .. n /\ n - (k - 1) \in 1 .. n /\ (n - (k - 1)) - 1 = n - k /\ ~(k <= k - 1)
    BY <1>2, <2>3
  <2>5. Prefix(n - (k - 1)) /\ Read(n - (k - 1))
    BY <2>2, <2>4
  <2>6. Prefix(n - k) /\ Read(n - k)
    BY <1>5, <2>4, <2>5
  <2> QED
    BY <2>6
<1>7. Read(0)
  <2> HIDE DEF Prefix, Read
  <2>1. n \in 0 .. n /\ n - n = 0
    BY <1>2
  <2> QED
    BY <1>6, <2>1
<1>8. from[1] = SubSeq(data, 1, n)
  BY <1>1, <1>7
<1> QED
  BY <1>1, <1>3, <1>8, SubSeqFull DEF packet

-----------------------------------------------------------------------------
(* Registers *)

(* A value that travels as four bytes arrives.                             *)
LEMMA ValueArrives ==
  ASSUME NEW v \in Word
  PROVE  read_uint32(write_uint32(v)) = v
BY WordOfBytes DEF read_uint32, write_uint32

(* What a g packet shows of a core, as words.                              *)
Shown(p, r) == IF r = PC THEN FetchAddress(p) ELSE arm_read_register(p, r)

(* A g packet shows words, those of the bank of the current mode. *)
LEMMA ShownType ==
  ASSUME NEW p \in Core
  PROVE  /\ \A r \in RegNumber : Shown(p, r) \in Word
         /\ Shown(p, PC) = FetchedFrom(p.storage[PC])
         /\ \A r \in RegNumber : r # PC => Shown(p, r) = p.storage[registers(p.cpsr.mode, r)]
         /\ read_general_registers(p) =
              [regs |-> [r \in RegNumber |-> write_uint32(Shown(p, r))], cpsr |-> p.cpsr]
<1>1. \A r \in RegNumber : Shown(p, r) \in Word
  BY ReadRegisterType, Links DEF Shown
<1>2. Shown(p, PC) = FetchedFrom(p.storage[PC])
  BY FetchedFromStorage DEF Shown
<1>3. \A r \in RegNumber : r # PC => Shown(p, r) = p.storage[registers(p.cpsr.mode, r)]
  BY DEF Shown, arm_read_register
<1>4. read_general_registers(p) =
        [regs |-> [r \in RegNumber |-> write_uint32(Shown(p, r))], cpsr |-> p.cpsr]
  BY DEF read_general_registers, Shown
<1> QED
  BY <1>1, <1>2, <1>3, <1>4

(* A core that takes the registers another has shown in the same mode      *)
(* shows the same (write_general_registers).                               *)
LEMMA WrittenRegisters ==
  ASSUME NEW p \in Core, NEW c \in Core
  PROVE  LET q == write_general_registers(p, read_general_registers(c))
         IN  /\ q \in Core
             /\ p.cpsr.mode = c.cpsr.mode =>
                  read_general_registers(q) = read_general_registers(c)
<1> DEFINE packet == read_general_registers(c)
           q == write_general_registers(p, packet)
           mode == p.cpsr.mode
           value(x) == IF \E r \in RegNumber : registers(mode, r) = x
                       THEN read_uint32(packet.regs[CHOOSE r \in RegNumber :
                                                      registers(mode, r) = x])
                       ELSE p.storage[x]
<1>1. mode \in ModeNumber /\ c.cpsr \in PSR /\ p.storage \in [0 .. 30 -> Word]
  BY CoreFields
<1>2. /\ packet.cpsr = c.cpsr
      /\ \A r \in RegNumber : read_uint32(packet.regs[r]) = Shown(c, r)
  BY ShownType, ValueArrives
<1>3. q = [p EXCEPT !.storage = [x \in 0 .. 30 |-> value(x)], !.cpsr = packet.cpsr]
  BY DEF write_general_registers, Mode
<1> HIDE DEF packet, q
<1>4. \A x \in 0 .. 30 : value(x) \in Word
  BY <1>1, <1>2, ShownType
<1>5. \A r \in RegNumber : value(registers(mode, r)) = Shown(c, r)
  BY <1>1, <1>2, RegistersDistinct
<1> HIDE DEF value
<1>6. /\ q \in Core /\ q.cpsr = c.cpsr
      /\ \A x \in 0 .. 30 : q.storage[x] = value(x)
  BY <1>1, <1>2, <1>3, <1>4 DEF Core
<1>7. ASSUME p.cpsr.mode = c.cpsr.mode
      PROVE  read_general_registers(q) = read_general_registers(c)
  <2>1. \A r \in RegNumber : q.storage[registers(mode, r)] = Shown(c, r)
    BY <1>1, <1>5, <1>6, RegistersType
  <2>2. PC \in RegNumber /\ registers(mode, PC) = PC
    BY <1>1, RegistersType DEF RegNumber, PC
  <2>3. Shown(q, PC) = Shown(c, PC)
    BY <1>6, <2>1, <2>2, ShownType, FetchedFromStorage, FetchedFromFetched
  <2>4. \A r \in RegNumber : Shown(q, r) = Shown(c, r)
    BY <1>6, <1>7, <2>1, <2>3, ShownType
  <2> QED
    BY <1>6, <2>4, ShownType
<1> QED
  BY <1>6, <1>7 DEF q, packet

(* A P packet changes one of the registers that a g packet shows           *)
(* (write_register).                                                       *)
LEMMA WrittenRegister ==
  ASSUME NEW p \in Core, NEW reg \in RegNumber, NEW value \in Word
  PROVE  LET q == write_register(p, reg, value)
         IN  /\ q \in Core
             /\ (reg = PC => value % 4 = 0) =>
                  read_general_registers(q) =
                    [read_general_registers(p) EXCEPT !.regs[reg] = write_uint32(value)]
<1> DEFINE q == write_register(p, reg, value)
           mode == p.cpsr.mode
<1>1. RegisterWritten(p, q, reg, value)
  BY ValueArrives, WriteRegister DEF write_register
<1> HIDE DEF q
<1>2. /\ q \in Core /\ q.cpsr = p.cpsr /\ mode \in ModeNumber
      /\ q.storage[registers(mode, reg)] = value
      /\ \A r \in 0 .. 30 : r # registers(mode, reg) => q.storage[r] = p.storage[r]
  BY <1>1, CoreFields DEF RegisterWritten
<1>3. ASSUME reg = PC => value % 4 = 0, NEW r \in RegNumber
      PROVE  Shown(q, r) = IF r = reg THEN value ELSE Shown(p, r)
  <2>1. /\ registers(mode, r) \in 0 .. 30 /\ registers(mode, PC) = PC
        /\ r # reg => registers(mode, r) # registers(mode, reg)
    BY <1>2, RegistersType, RegistersDistinct
  <2>2. r # reg => q.storage[registers(mode, r)] = p.storage[registers(mode, r)]
    BY <1>2, <2>1
  <2>3. CASE r = PC
    <3>1. r = reg => FetchedFrom(q.storage[PC]) = value
      BY <1>2, <1>3, <2>1, <2>3, FetchedFromAligned
    <3> QED
      BY <1>2, <2>1, <2>2, <2>3, <3>1, ShownType
  <2>4. CASE r # PC
    BY <1>2, <2>2, <2>4, ShownType
  <2> QED
    BY <2>3, <2>4
<1>4. ASSUME reg = PC => value % 4 = 0
      PROVE  read_general_registers(q) =
               [read_general_registers(p) EXCEPT !.regs[reg] = write_uint32(value)]
  <2>1. \A r \in RegNumber : Shown(q, r) = IF r = reg THEN value ELSE Shown(p, r)
    BY <1>3, <1>4
  <2>2. [r \in RegNumber |-> write_uint32(Shown(q, r))] =
          [[r \in RegNumber |-> write_uint32(Shown(p, r))] EXCEPT ![reg] = write_uint32(value)]
    BY <2>1
  <2> QED
    BY <1>2, <2>2, ShownType
<1> QED
  BY <1>2, <1>4 DEF q

-----------------------------------------------------------------------------
(* The lock *)

(* Who is in a critical section holds the lock: the inductive invariant.   *)
LockInv ==
  /\ gdb = "serving" => lock = "gdb"
  /\ irq = "raising" => lock = "irq"

(* The processor changes only in a critical section. *)
CriticalUse ==
  <<core, mem, target_exception>>' # <<core, mem, target_exception>> =>
    \/ gdb = "serving"
    \/ irq = "raising"

(* At the start nobody holds the mutex. *)
LEMMA InitLock == ASSUME SimInit PROVE LockInv
BY DEF SimInit, LockInv

(* The clients touch neither the threads nor the processor.                *)
LEMMA ClientsLock ==
  ASSUME LockInv, Clients
  PROVE  LockInv' /\ CriticalUse
BY DEF Clients, Send, Leave, Raise, vars, gdbVars, irqVars, LockInv, CriticalUse

(* The gdb thread enters its critical section with the free lock, and      *)
(* leaves it in every handler, also on the early return of a kill.         *)
LEMMA GdbLock ==
  ASSUME LockInv, GdbThread
  PROVE  LockInv' /\ CriticalUse
<1>1. CASE ReadRequest
  BY <1>1 DEF ReadRequest, cpuVars, irqVars, LockInv, CriticalUse
<1>2. CASE LockForRequest
  BY <1>2 DEF LockForRequest, vars, irqVars, LockInv, CriticalUse
<1>3. CASE ServeStep
  <2>1. gdb = "serving" /\ lock = "gdb" /\ irq # "raising" /\ irq' = irq
    BY <1>3 DEF ServeStep, Serving, irqVars, LockInv
  <2>2. CASE process' = "running"
    BY <1>3, <2>1, <2>2 DEF ServeStep, Finish, LockInv, CriticalUse
  <2>3. CASE process' # "running"
    BY <1>3, <2>1, <2>3 DEF ServeStep, LockInv, CriticalUse
  <2> QED
    BY <2>2, <2>3
<1>4. CASE ContinueRuns
  BY <1>4 DEF ContinueRuns, Serving, irqVars, LockInv, CriticalUse
<1>5. CASE ContinueStops
  BY <1>5 DEF ContinueStops, Serving, Finish, irqVars, LockInv, CriticalUse
<1>6. CASE ServeReadRegisters
  BY <1>6 DEF ServeReadRegisters, Serving, Finish, irqVars, LockInv, CriticalUse
<1>7. CASE ServeWriteRegisters
  BY <1>7 DEF ServeWriteRegisters, Serving, Finish, irqVars, LockInv, CriticalUse
<1>8. CASE ServeReason
  BY <1>8 DEF ServeReason, Serving, Finish, irqVars, LockInv, CriticalUse
<1>9. CASE ServeReadRegister
  <2>1. gdb = "serving" /\ lock = "gdb" /\ irq # "raising" /\ irq' = irq
    BY <1>9 DEF ServeReadRegister, Serving, irqVars, LockInv
  <2>2. CASE Numbered(atoi(request[2]))
    BY <1>9, <2>1, <2>2 DEF ServeReadRegister, Finish, vars, LockInv, CriticalUse
  <2>3. CASE ~Numbered(atoi(request[2]))
    BY <1>9, <2>1, <2>3 DEF ServeReadRegister, cpuVars, LockInv, CriticalUse
  <2> QED
    BY <2>2, <2>3
<1>10. CASE ServeWriteRegister
  <2>1. gdb = "serving" /\ lock = "gdb" /\ irq # "raising" /\ irq' = irq
    BY <1>10 DEF ServeWriteRegister, Serving, irqVars, LockInv
  <2>2. CASE Numbered(request[2])
    BY <1>10, <2>1, <2>2 DEF ServeWriteRegister, Finish, LockInv, CriticalUse
  <2>3. CASE ~Numbered(request[2])
    BY <1>10, <2>1, <2>3 DEF ServeWriteRegister, LockInv, CriticalUse
  <2> QED
    BY <2>2, <2>3
<1>11. CASE ServeReadMemory
  BY <1>11 DEF ServeReadMemory, Serving, Finish, irqVars, vars, LockInv, CriticalUse
<1>12. CASE ServeWriteMemory
  BY <1>12 DEF ServeWriteMemory, Serving, Finish, irqVars, LockInv, CriticalUse
<1>13. CASE ServeQuery
  BY <1>13 DEF ServeQuery, Serving, Finish, irqVars, vars, LockInv, CriticalUse
<1>14. CASE ServeBreakpoint
  BY <1>14 DEF ServeBreakpoint, Serving, Finish, irqVars, LockInv, CriticalUse
<1>15. CASE ServeKill
  BY <1>15 DEF ServeKill, Serving, irqVars, LockInv, CriticalUse
<1> QED
  BY <1>1, <1>2, <1>3, <1>4, <1>5, <1>6, <1>7, <1>8, <1>9, <1>10, <1>11,
     <1>12, <1>13, <1>14, <1>15 DEF GdbThread

(* The irq thread raises its exception with the lock in its hands.         *)
LEMMA IrqLock ==
  ASSUME LockInv, IrqThread
  PROVE  LockInv' /\ CriticalUse
<1>1. CASE ReadByte
  BY <1>1 DEF ReadByte, vars, gdbVars, LockInv, CriticalUse
<1>2. CASE LockForIrq
  BY <1>2 DEF LockForIrq, vars, gdbVars, LockInv, CriticalUse
<1>3. CASE RaiseException
  BY <1>3 DEF RaiseException, gdbVars, LockInv, CriticalUse
<1> QED
  BY <1>1, <1>2, <1>3 DEF IrqThread

(* The main thread frees the processor without changing it.                *)
LEMMA MainLock ==
  ASSUME LockInv, MainThread
  PROVE  LockInv' /\ CriticalUse
BY DEF MainThread, Destroy, Return, vars, cpuVars, gdbVars, irqVars, LockInv,
       CriticalUse

(* The processor has one user at a time: it changes only while the gdb     *)
(* thread serves a request or the irq thread raises an exception, the lock *)
(* is held by that thread, and the other is outside its critical section   *)
(* (gdb_listener, packet_analysis, irq_listener).                          *)
THEOREM OneUserHolds == SimSpec => OneUser
<1> DEFINE Used == <<core, mem, target_exception>>' # <<core, mem, target_exception>> =>
                     \/ lock = "gdb" /\ gdb = "serving" /\ irq # "raising"
                     \/ lock = "irq" /\ irq = "raising" /\ gdb # "serving"
<1>1. SimInit => LockInv
  BY InitLock
<1>2. LockInv /\ SimNext => LockInv' /\ CriticalUse
  BY ClientsLock, GdbLock, IrqLock, MainLock DEF SimNext
<1>3. LockInv /\ UNCHANGED svars => LockInv' /\ CriticalUse
  BY DEF svars, vars, gdbVars, irqVars, LockInv, CriticalUse
<1>4. LockInv /\ CriticalUse => Used
  BY DEF LockInv, CriticalUse
<1>5. LockInv /\ [SimNext]_svars => LockInv' /\ [Used]_svars
  BY <1>2, <1>3, <1>4
<1> HIDE DEF Used
<1>6. SimSpec => [][Used]_svars
  BY <1>1, <1>5, PTL DEF SimSpec
<1> QED
  BY <1>6 DEF OneUser, Used

-----------------------------------------------------------------------------
(* What a step may do while a continue request is served. *)
Obeys ==
  /\ AtBreakpoint => core' = core /\ mem' = mem
  /\ answered' # answered => AtBreakpoint \/ FetchFails(core)

(* No other handler of the gdb thread serves a continue request.           *)
LEMMA ContinueHandlers ==
  ASSUME gdb = "serving", request[1] = "c", GdbThread
  PROVE  ContinueRuns \/ ContinueStops
BY DEF GdbThread, Serving, ReadRequest, LockForRequest, ServeStep,
       ServeReadRegisters, ServeWriteRegisters, ServeReason, ServeReadRegister,
       ServeWriteRegister, ServeReadMemory, ServeWriteMemory, ServeQuery,
       ServeBreakpoint, ServeKill

(* A step of the system during a continue obeys the breakpoint. *)
LEMMA ContinueStep ==
  ASSUME LockInv, gdb = "serving", request[1] = "c", SimNext
  PROVE  Obeys
<1>1. CASE Clients
  BY <1>1 DEF Clients, Send, Leave, Raise, vars, gdbVars, Obeys
<1>2. CASE GdbThread
  <2>1. CASE ContinueRuns
    BY <2>1 DEF ContinueRuns, Obeys
  <2>2. CASE ContinueStops
    BY <2>2 DEF ContinueStops, vars, Obeys
  <2> QED
    BY <1>2, <2>1, <2>2, ContinueHandlers
<1>3. CASE IrqThread
  BY <1>3 DEF IrqThread, ReadByte, LockForIrq, RaiseException, vars, gdbVars,
              LockInv, Obeys
<1>4. CASE MainThread
  BY <1>4 DEF MainThread, Destroy, Return, vars, cpuVars, gdbVars, Obeys
<1> QED
  BY <1>1, <1>2, <1>3, <1>4 DEF SimNext

(* A continue request never executes the debugger's breakpoint, whatever   *)
(* the program and the interrupts that come between its turns, and stops   *)
(* for no other reason than a breakpoint or an unreadable instruction      *)
(* (cont).                                                                 *)
THEOREM ContinueHolds == SimSpec => ContinueObeysBreakpoint
<1> DEFINE Continues == request[1] = "c" /\ gdb = "serving" => Obeys
<1>1. SimInit => LockInv
  BY InitLock
<1>2. LockInv /\ SimNext => LockInv'
  BY ClientsLock, GdbLock, IrqLock, MainLock DEF SimNext
<1>3. LockInv /\ UNCHANGED svars => LockInv'
  BY DEF svars, vars, gdbVars, irqVars, LockInv
<1>4. LockInv /\ SimNext => Continues
  BY ContinueStep
<1>5. LockInv /\ [SimNext]_svars => LockInv' /\ [Continues]_svars
  BY <1>2, <1>3, <1>4
<1> HIDE DEF Continues
<1>6. SimSpec => [][Continues]_svars
  BY <1>1, <1>5, PTL DEF SimSpec
<1> QED
  BY <1>6 DEF ContinueObeysBreakpoint, Continues, Obeys

-----------------------------------------------------------------------------
(* The session *)

(* The requests in the socket, without the end of the connection. *)
Pending == Len(inbox) - (IF inbox # <<>> /\ inbox[Len(inbox)] = EOF THEN 1 ELSE 0)

(* The request whose packet the gdb thread has read, if any. *)
InHand == IF gdb \in {"locking", "serving"} THEN 1 ELSE 0

Threads ==
  /\ lock \in {"free", "gdb", "irq"}
  /\ gdb \in {"reading", "locking", "serving", "ended"}
  /\ irq \in {"reading", "locking", "raising"}
  /\ main \in {"joining", "returning"}
  /\ breakpoint \in BOOLEAN /\ writable \in BOOLEAN /\ fresh \in BOOLEAN

Received ==
  /\ inbox \in Seq(Requests \cup {EOF})
  /\ gdb \in {"locking", "serving"} => request \in Requests
  /\ line \in Seq(IrqBytes)
  /\ irq # "reading" => line # <<>>

Copied == \E c \in Core : registersRead = read_general_registers(c)

Counted ==
  /\ requests \in Nat /\ answered \in Nat
  /\ answered + InHand + Pending <= requests

(* The inductive invariant behind SimTypeOK.                               *)
Session == TypeOK /\ Threads /\ Received /\ Copied /\ Counted

(* What the fields of a request are, by its letter.                        *)
LEMMA RequestFields ==
  ASSUME NEW r \in Requests
  PROVE  /\ r # EOF
         /\ r[1] = "P" => r[2] \in GdbRegister /\ r[3] \in Word
         /\ r[1] = "X" => r[2] \in Word /\ r[3] \in Seq(Byte)
<1>1. r \in Request
  BY SimulatorAssumption
<1> QED
  BY <1>1 DEF Request, EOF

(* What stands in the memory after an X packet.                            *)
LEMMA WrittenMemory ==
  ASSUME NEW bytes \in Contents, NEW address \in Word, NEW content \in Seq(Byte)
  PROVE  write_memory_binary(bytes, address, content) \in Contents
<1>1. address \in Nat /\ Len(content) \in Nat
  BY LenProperties, Sizes DEF Word
<1>2. \A a \in Address : a \in address .. address + Len(content) - 1 =>
        content[a - address + 1] \in Byte
  <2>1. \A a \in Address : a \in address .. address + Len(content) - 1 =>
          a - address + 1 \in 1 .. Len(content)
    BY <1>1, Sizes DEF Address
  <2> QED
    BY <2>1, ElementOfSeq
<1> QED
  BY <1>2 DEF write_memory_binary, Contents

(* The session at its start. *)
LEMMA InitSession == ASSUME SimInit PROVE Session
<1>1. TypeOK
  BY InitType DEF SimInit
<1>2. Threads /\ Received
  BY EmptySeq DEF SimInit, Threads, Received
<1>3. Counted
  <2>1. Pending = 0 /\ InHand = 0
    BY EmptySeq DEF SimInit, Pending, InHand
  <2> QED
    BY <2>1 DEF SimInit, Counted
<1>4. Copied
  BY <1>1 DEF SimInit, Copied, TypeOK
<1> QED
  BY <1>1, <1>2, <1>3, <1>4 DEF Session

(* A request, the end of the connection or a byte arrives.                 *)
LEMMA ClientsSession == ASSUME Session, Clients PROVE Session'
<1>0. /\ inbox \in Seq(Requests \cup {EOF}) /\ Len(inbox) \in Nat
      /\ line \in Seq(IrqBytes)
  BY LenProperties DEF Session, Received
<1>1. ASSUME NEW r \in Requests \cup {EOF}, inbox' = Append(inbox, r), ~Left
      PROVE  /\ inbox' \in Seq(Requests \cup {EOF})
             /\ Pending = Len(inbox)
             /\ Pending' = Pending + (IF r = EOF THEN 0 ELSE 1)
  <2>1. /\ inbox' \in Seq(Requests \cup {EOF})
        /\ Len(inbox') = Len(inbox) + 1 /\ inbox'[Len(inbox) + 1] = r
    BY <1>0, <1>1, AppendProperties
  <2>2. Pending = Len(inbox)
    BY <1>0, <1>1 DEF Pending, Left
  <2>3. inbox' # <<>>
    BY <1>0, <2>1
  <2> QED
    BY <1>0, <2>1, <2>2, <2>3 DEF Pending
<1>2. ASSUME NEW r \in Requests, Send(r) PROVE Session'
  <2>1. r # EOF
    BY RequestFields
  <2>2. Received'
    BY <1>1, <1>2 DEF Send, Session, Received, gdbVars, irqVars
  <2>3. Counted'
    BY <1>0, <1>1, <1>2, <2>1 DEF Send, Session, Counted, InHand, gdbVars
  <2> QED
    BY <1>2, <2>2, <2>3 DEF Send, Session, TypeOK, Threads, Copied, vars, gdbVars, irqVars
<1>3. CASE Leave
  <2>1. EOF \in Requests \cup {EOF}
    OBVIOUS
  <2>2. Received'
    BY <1>1, <1>3, <2>1 DEF Leave, Session, Received, gdbVars, irqVars
  <2>3. Counted'
    BY <1>0, <1>1, <1>3, <2>1 DEF Leave, Session, Counted, InHand, gdbVars
  <2> QED
    BY <1>3, <2>2, <2>3 DEF Leave, Session, TypeOK, Threads, Copied, vars, gdbVars, irqVars
<1>4. ASSUME NEW byte \in IrqBytes, Raise(byte) PROVE Session'
  <2>1. line' \in Seq(IrqBytes) /\ line' # <<>>
    BY <1>0, <1>4, AppendProperties DEF Raise
  <2> QED
    BY <1>4, <2>1 DEF Raise, Session, TypeOK, Threads, Received, Copied, Counted,
                      Pending, InHand, vars, gdbVars
<1> QED
  BY <1>2, <1>3, <1>4 DEF Clients

(* A packet is taken from the socket; what is neither the end nor unknown  *)
(* is in hand.                                                             *)
LEMMA ReadSession == ASSUME Session, ReadRequest PROVE Session'
<1> DEFINE r == Head(inbox)
<1>0. /\ inbox \in Seq(Requests \cup {EOF}) /\ Len(inbox) \in Nat \ {0}
      /\ inbox # <<>> /\ gdb = "reading"
      /\ inbox' = Tail(inbox) /\ request' = r
  BY LenProperties, EmptySeq DEF Session, Received, ReadRequest
<1>1. /\ r \in Requests \cup {EOF} /\ r = inbox[1]
      /\ inbox' \in Seq(Requests \cup {EOF})
      /\ Len(inbox') = Len(inbox) - 1
      /\ \A i \in 1 .. Len(inbox') : inbox'[i] = inbox[i + 1]
  BY <1>0, HeadTailProperties
<1>2. Pending' = Pending - (IF r = EOF /\ Len(inbox) = 1 THEN 0 ELSE 1)
  <2>1. CASE Len(inbox) = 1
    BY <1>0, <1>1, <2>1, EmptySeq DEF Pending
  <2>2. CASE Len(inbox) # 1
    <3>1. /\ inbox' # <<>> /\ Len(inbox') \in 1 .. Len(inbox')
          /\ Len(inbox') + 1 = Len(inbox)
      BY <1>0, <1>1, <2>2
    <3>2. inbox'[Len(inbox')] = inbox[Len(inbox)]
      BY <1>1, <3>1
    <3> QED
      BY <1>0, <1>1, <2>2, <3>1, <3>2 DEF Pending
  <2> QED
    BY <2>1, <2>2
<1> HIDE DEF r
<1>3. Threads' /\ Copied' /\ TypeOK'
  BY DEF ReadRequest, Session, TypeOK, Threads, Copied, cpuVars, irqVars
<1>4. Received'
  BY <1>0, <1>1 DEF ReadRequest, Session, Received, irqVars
<1>5. Counted'
  <2>1. /\ requests' = requests /\ requests \in Nat /\ answered \in Nat
        /\ InHand = 0 /\ Pending \in Int
        /\ answered + Pending <= requests
    BY <1>0 DEF ReadRequest, Session, Counted, InHand, Pending
  <2>2. CASE r = EOF
    <3>1. InHand' = 0 /\ answered' = answered
      BY <1>0, <2>2 DEF ReadRequest, InHand, EOF
    <3> QED
      BY <1>2, <2>1, <3>1 DEF Counted
  <2>3. CASE r = <<"U">>
    <3>1. InHand' = 0 /\ (answered' = answered \/ answered' = answered + 1) /\ r # EOF
      BY <1>0, <2>3 DEF ReadRequest, InHand, EOF
    <3>2. Pending' = Pending - 1
      BY <1>2, <3>1
    <3> QED
      BY <2>1, <3>1, <3>2 DEF Counted
  <2>4. CASE r # EOF /\ r # <<"U">>
    <3>1. InHand' = 1 /\ answered' = answered
      BY <1>0, <2>4 DEF ReadRequest, InHand
    <3> QED
      BY <1>2, <2>1, <2>4, <3>1 DEF Counted
  <2> QED
    BY <2>2, <2>3, <2>4
<1> QED
  BY <1>3, <1>4, <1>5 DEF Session

(* What a handler leaves alone. *)
Elsewhere == <<request, fresh, writable, inbox, requests, irq, line, irqs, main>>

(* The answer to the request in hand is sent.                              *)
LEMMA FinishSession ==
  ASSUME Session, gdb = "serving", NEW text, Finish(text), UNCHANGED Elsewhere,
         TypeOK', Copied', breakpoint' \in BOOLEAN
  PROVE  Session'
<1>1. Threads' /\ Received'
  BY DEF Session, Threads, Received, Finish, Elsewhere
<1>2. Counted'
  <2>1. InHand = 1 /\ InHand' = 0 /\ Pending' = Pending /\ Pending \in Int
    BY LenProperties DEF Session, Received, Finish, Elsewhere, InHand, Pending
  <2> QED
    BY <2>1 DEF Session, Counted, Finish, Elsewhere
<1> QED
  BY <1>1, <1>2 DEF Session

(* The request stays in hand: the loop of cont, or the end of the process. *)
LEMMA InHandSession ==
  ASSUME Session, UNCHANGED <<lock, gdb, answered, breakpoint, registersRead>>,
         UNCHANGED <<request, writable, inbox, requests, irq, line, irqs, main>>,
         fresh' \in BOOLEAN, TypeOK'
  PROVE  Session'
BY DEF Session, Threads, Received, Copied, Counted, InHand, Pending

(* The instruction that is executed is one, also the breakpoint.           *)
LEMMA ExecuteType == ASSUME TypeOK, Execute PROVE TypeOK'
<1>1. Breakpoint \in Instr
  <2>1. Breakpoint \in SingleInstr
    BY WidthAssumption DEF Breakpoint, SingleInstr, Condition, ALWAYS, RegNumber, Shift, ROR, Amount, NoReg
  <2> QED
    BY <2>1 DEF Instr
<1>2. Fetched(core) \subseteq Instr
  BY FetchedType DEF TypeOK
<1> QED
  BY <1>1, <1>2, StepTransition DEF Execute

(* The handlers of the gdb thread keep the session well-formed.            *)
LEMMA GdbSession == ASSUME Session, GdbThread PROVE Session'
<1> USE DEF Elsewhere
<1>0. TypeOK /\ Copied /\ breakpoint \in BOOLEAN
  BY DEF Session, Threads
<1>1. CASE ReadRequest
  BY <1>1, ReadSession
<1>2. CASE LockForRequest
  BY <1>2 DEF LockForRequest, Session, TypeOK, Threads, Received, Copied, Counted,
              Pending, InHand, vars, irqVars
<1>3. CASE ServeStep
  <2>1. TypeOK' /\ gdb = "serving" /\ Copied' /\ breakpoint' \in BOOLEAN
    BY <1>0, <1>3, ExecuteType DEF ServeStep, Serving, Copied
  <2>2. CASE process' = "running"
    BY <1>3, <2>1, <2>2, FinishSession DEF ServeStep, irqVars
  <2>3. CASE process' # "running"
    BY <1>3, <2>1, <2>3, InHandSession DEF ServeStep, Session, Threads, irqVars
  <2> QED
    BY <2>2, <2>3
<1>4. CASE ContinueRuns
  <2>1. TypeOK'
    BY <1>0, <1>4, ExecuteType DEF ContinueRuns
  <2> QED
    BY <1>4, <2>1, InHandSession DEF ContinueRuns, irqVars
<1>5. CASE ContinueStops
  BY <1>0, <1>5, FinishSession DEF ContinueStops, Serving, TypeOK, Copied, vars, irqVars
<1>6. CASE ServeReadRegisters
  <2>1. Copied'
    BY <1>0, <1>6 DEF ServeReadRegisters, TypeOK, Copied
  <2> QED
    BY <1>0, <1>6, <2>1, FinishSession DEF ServeReadRegisters, Serving, TypeOK, vars, irqVars
<1>7. CASE ServeWriteRegisters
  <2>1. core' \in Core
    BY <1>0, <1>7, WrittenRegisters DEF ServeWriteRegisters, TypeOK, Copied
  <2>2. TypeOK' /\ Copied'
    BY <1>0, <1>7, <2>1 DEF ServeWriteRegisters, TypeOK, Copied
  <2> QED
    BY <1>0, <1>7, <2>2, FinishSession DEF ServeWriteRegisters, Serving, irqVars
<1>8. CASE ServeReason
  BY <1>0, <1>8, FinishSession DEF ServeReason, Serving, TypeOK, Copied, vars, irqVars
<1>9. CASE ServeReadRegister
  <2>1. gdb = "serving" /\ Copied' /\ breakpoint' \in BOOLEAN
    BY <1>0, <1>9 DEF ServeReadRegister, Serving, Copied
  <2>2. CASE Numbered(atoi(request[2]))
    BY <1>0, <1>9, <2>1, <2>2, FinishSession DEF ServeReadRegister, TypeOK, vars, irqVars
  <2>3. CASE ~Numbered(atoi(request[2]))
    BY <1>0, <1>9, <2>1, <2>3, InHandSession
    DEF ServeReadRegister, Session, Threads, TypeOK, cpuVars, irqVars
  <2> QED
    BY <2>2, <2>3
<1>10. CASE ServeWriteRegister
  <2>1. gdb = "serving" /\ Copied' /\ breakpoint' \in BOOLEAN
    BY <1>0, <1>10 DEF ServeWriteRegister, Serving, Copied
  <2>2. CASE Numbered(request[2])
    <3>1. request[2] \in RegNumber /\ request[3] \in Word
      <4>1. request \in Requests /\ request[1] = "P"
        BY <1>10, <2>1 DEF ServeWriteRegister, Serving, Session, Received
      <4>2. request[2] \in GdbRegister /\ request[3] \in Word
        BY <4>1, RequestFields
      <4> QED
        BY <2>2, <4>2 DEF Numbered, GdbRegister, RegNumber
    <3>2. core' \in Core
      BY <1>0, <1>10, <2>2, <3>1, WrittenRegister DEF ServeWriteRegister, TypeOK
    <3>3. TypeOK'
      BY <1>0, <1>10, <2>2, <3>2 DEF ServeWriteRegister, TypeOK
    <3> QED
      BY <1>10, <2>1, <2>2, <3>3, FinishSession DEF ServeWriteRegister, irqVars
  <2>3. CASE ~Numbered(request[2])
    BY <1>0, <1>10, <2>1, <2>3, InHandSession
    DEF ServeWriteRegister, Session, Threads, TypeOK, irqVars
  <2> QED
    BY <2>2, <2>3
<1>11. CASE ServeReadMemory
  BY <1>0, <1>11, FinishSession DEF ServeReadMemory, Serving, TypeOK, Copied, vars, irqVars
<1>12. CASE ServeWriteMemory
  <2>1. request[2] \in Word /\ request[3] \in Seq(Byte)
    BY <1>12, RequestFields DEF ServeWriteMemory, Serving, Session, Received
  <2>2. mem' = write_memory_binary(mem, request[2], request[3])
    BY <1>12, <2>1, ContentOfEscaped DEF ServeWriteMemory
  <2>3. mem' \in Contents
    BY <1>0, <2>1, <2>2, WrittenMemory DEF TypeOK
  <2>4. TypeOK' /\ Copied'
    BY <1>0, <1>12, <2>3 DEF ServeWriteMemory, TypeOK, Copied
  <2> QED
    BY <1>0, <1>12, <2>4, FinishSession DEF ServeWriteMemory, Serving, irqVars
<1>13. CASE ServeQuery
  BY <1>0, <1>13, FinishSession DEF ServeQuery, Serving, TypeOK, Copied, vars, irqVars
<1>14. CASE ServeBreakpoint
  BY <1>0, <1>14, FinishSession DEF ServeBreakpoint, Serving, TypeOK, Copied, vars, irqVars
<1>15. CASE ServeKill
  <2>1. Counted'
    <3>1. InHand = 1 /\ InHand' = 0 /\ Pending' = Pending /\ Pending \in Int
      BY <1>15, LenProperties
      DEF ServeKill, Serving, Session, Received, InHand, Pending
    <3> QED
      BY <1>15, <3>1 DEF ServeKill, Session, Counted
  <2> QED
    BY <1>15, <2>1 DEF ServeKill, Session, TypeOK, Threads, Received, Copied, vars, irqVars
<1> QED
  BY <1>1, <1>2, <1>3, <1>4, <1>5, <1>6, <1>7, <1>8, <1>9, <1>10, <1>11,
     <1>12, <1>13, <1>14, <1>15 DEF GdbThread

(* So does the irq thread, which finds the byte it has seen.               *)
LEMMA IrqSession == ASSUME Session, IrqThread PROVE Session'
<1>1. CASE ReadByte
  BY <1>1 DEF ReadByte, Session, TypeOK, Threads, Received, Copied, Counted,
              Pending, InHand, vars, gdbVars
<1>2. CASE LockForIrq
  BY <1>2 DEF LockForIrq, Session, TypeOK, Threads, Received, Copied, Counted,
              Pending, InHand, vars, gdbVars
<1>3. CASE RaiseException
  <2>1. /\ line \in Seq(IrqBytes) /\ line # <<>> /\ TypeOK
        /\ Head(line) \in IrqBytes /\ Tail(line) \in Seq(IrqBytes)
    BY <1>3, HeadTailProperties DEF RaiseException, Session, Received
  <2>2. TypeOK'
    <3>1. CASE main = "joining"
      BY <1>3, <2>1, <3>1, InterruptTransition DEF RaiseException
    <3>2. CASE main # "joining"
      BY <1>3, <2>1, <3>2 DEF RaiseException, TypeOK, cpuVars
    <3> QED
      BY <3>1, <3>2
  <2> QED
    BY <1>3, <2>1, <2>2 DEF RaiseException, Session, Threads, Received, Copied,
                            Counted, Pending, InHand, gdbVars
<1> QED
  BY <1>1, <1>2, <1>3 DEF IrqThread

(* The main thread does not touch what the session knows. *)
LEMMA MainSession == ASSUME Session, MainThread PROVE Session'
BY DEF MainThread, Destroy, Return, Session, TypeOK, Threads, Received, Copied,
       Counted, Pending, InHand, vars, cpuVars, gdbVars, irqVars

(* Nor does a step that changes nothing. *)
LEMMA StutterSession == ASSUME Session, UNCHANGED svars PROVE Session'
BY DEF svars, vars, gdbVars, irqVars, Session, TypeOK, Threads, Received, Copied,
       Counted, Pending, InHand

(* What the session knows at every step.                                   *)
LEMMA SessionHolds == SimSpec => []Session
<1>1. SimInit => Session
  BY InitSession
<1>2. Session /\ [SimNext]_svars => Session'
  BY ClientsSession, GdbSession, IrqSession, MainSession, StutterSession DEF SimNext
<1> QED
  BY <1>1, <1>2, PTL DEF SimSpec

(* Every thread and every message is in a state the code knows, the core   *)
(* and the memory are well-formed whatever the debugger writes into them,  *)
(* and no answer is sent without a request (gdb_protocol.c, arm_simulator.c*)
(* and the processor below).                                               *)
THEOREM SimTypeCorrect == SimSpec => []SimTypeOK
<1>1. ASSUME Session PROVE SimTypeOK
  <2>1. Pending \in Nat
    <3>1. Len(inbox) \in Nat /\ (inbox # <<>> => Len(inbox) > 0)
      BY <1>1, LenProperties, EmptySeq DEF Session, Received
    <3> QED
      BY <3>1 DEF Pending
  <2>2. answered <= requests
    BY <1>1, <2>1 DEF Session, Counted, InHand
  <2> QED
    BY <1>1, <2>2 DEF Session, Threads, SimTypeOK
<1> QED
  BY <1>1, SessionHolds, PTL

-----------------------------------------------------------------------------
(* Only the handler of the request in hand answers it.                     *)
LEMMA Answering ==
  ASSUME gdb = "serving", answered' # answered, SimNext
  PROVE  /\ request[1] = "G" => ServeWriteRegisters
         /\ request[1] = "P" => ServeWriteRegister /\ Numbered(request[2])
         /\ request[1] = "X" => ServeWriteMemory
<1>1. GdbThread
  BY DEF SimNext, Clients, Send, Leave, Raise, IrqThread, ReadByte, LockForIrq,
         RaiseException, MainThread, Destroy, Return, gdbVars
<1> QED
  BY <1>1
  DEF GdbThread, Serving, ReadRequest, LockForRequest, ServeStep, ContinueRuns,
      ContinueStops, ServeReadRegisters, ServeWriteRegisters, ServeReason,
      ServeReadRegister, ServeWriteRegister, ServeReadMemory, ServeWriteMemory,
      ServeQuery, ServeBreakpoint, ServeKill

(* A debugger finds in the registers what it has written there, in every   *)
(* mode and bank: all of a g packet after the G packet, and after a P      *)
(* packet the one register it names (gdb_write_general_registers and       *)
(* gdb_write_register).                                                    *)
THEOREM RegistersWrittenBackHolds == SimSpec => RegistersWrittenBack
<1> DEFINE Back ==
      gdb = "serving" /\ answered' # answered =>
        /\ request[1] = "G" /\ registersRead.cpsr.mode = Mode(core) =>
             read_general_registers(core') = registersRead
        /\ request[1] = "P" /\ (request[2] = PC => request[3] % 4 = 0) =>
             read_general_registers(core') =
               [read_general_registers(core) EXCEPT
                  !.regs[request[2]] = write_uint32(request[3])]
<1>1. ASSUME Session, SimNext, gdb = "serving", answered' # answered,
             request[1] = "G", registersRead.cpsr.mode = Mode(core)
      PROVE  read_general_registers(core') = registersRead
  <2>1. ServeWriteRegisters
    BY <1>1, Answering
  <2>2. PICK c \in Core : registersRead = read_general_registers(c)
    BY <1>1 DEF Session, Copied
  <2>3. core \in Core /\ core' = write_general_registers(core, read_general_registers(c))
    BY <1>1, <2>1, <2>2 DEF ServeWriteRegisters, Session, TypeOK
  <2>4. core.cpsr.mode = c.cpsr.mode
    BY <1>1, <2>2 DEF read_general_registers, Mode
  <2> QED
    BY <2>2, <2>3, <2>4, WrittenRegisters
<1>2. ASSUME Session, SimNext, gdb = "serving", answered' # answered,
             request[1] = "P", request[2] = PC => request[3] % 4 = 0
      PROVE  read_general_registers(core') =
               [read_general_registers(core) EXCEPT
                  !.regs[request[2]] = write_uint32(request[3])]
  <2>1. ServeWriteRegister /\ Numbered(request[2])
    BY <1>2, Answering
  <2>2. request[2] \in RegNumber /\ request[3] \in Word
    <3>1. request \in Requests
      BY <1>2 DEF Session, Received
    <3>2. request[2] \in GdbRegister /\ request[3] \in Word
      BY <1>2, <3>1, RequestFields
    <3> QED
      BY <2>1, <3>2 DEF Numbered, GdbRegister, RegNumber
  <2>3. core \in Core /\ core' = write_register(core, request[2], request[3])
    BY <1>2, <2>1 DEF ServeWriteRegister, Session, TypeOK
  <2> QED
    BY <1>2, <2>2, <2>3, WrittenRegister
<1>3. Session /\ [SimNext]_svars => [Back]_svars
  BY <1>1, <1>2
<1> HIDE DEF Back
<1>4. SimSpec => [][Back]_svars
  BY <1>3, SessionHolds, PTL DEF SimSpec
<1> QED
  BY <1>4 DEF RegistersWrittenBack, Back

(* An X packet puts into the memory the bytes the debugger meant, of every *)
(* value and any number, and "OK" is the answer exactly when all of them   *)
(* are there (gdb_write_memory_binary).                                    *)
THEOREM MemoryWriteHolds == SimSpec => MemoryWriteReported
<1> DEFINE Stands(n) == mem' = [a \in Address |->
                                 IF a \in request[2] .. request[2] + n - 1
                                 THEN request[3][a - request[2] + 1]
                                 ELSE mem[a]]
           Reported ==
             IF answer' = OK
             THEN request[2] + Len(request[3]) <= MemSize /\ Stands(Len(request[3]))
             ELSE /\ request[2] >= MemSize \/ request[2] + Len(request[3]) > MemSize
                  /\ \E n \in 0 .. Len(request[3]) : Stands(n)
           Written ==
             request[1] = "X" /\ gdb = "serving" /\ answered' # answered =>
               LET start  == request[2]
                   given  == request[3]
                   Holds(n) == mem' = [a \in Address |-> IF a \in start .. start + n - 1
                                                        THEN given[a - start + 1]
                                                        ELSE mem[a]]
               IN  IF answer' = OK
                   THEN start + Len(given) <= MemSize /\ Holds(Len(given))
                   ELSE /\ start >= MemSize \/ start + Len(given) > MemSize
                        /\ \E n \in 0 .. Len(given) : Holds(n)
<1>1. ASSUME Session, SimNext, request[1] = "X", gdb = "serving", answered' # answered
      PROVE  Reported
  <2>1. ServeWriteMemory
    BY <1>1, Answering
  <2>2. request[2] \in Word /\ request[3] \in Seq(Byte)
    BY <1>1, RequestFields DEF Session, Received
  <2>3. request[2] \in Nat /\ Len(request[3]) \in Nat /\ MemSize \in Nat
    BY <2>2, LenProperties, Sizes DEF Word
  <2>4. /\ mem' = write_memory_binary(mem, request[2], request[3])
        /\ answer' = IF Writable(request[2], Len(request[3])) THEN OK ELSE <<"E02">>
    BY <2>1, <2>2, ContentOfEscaped DEF ServeWriteMemory, Finish
  <2>5. Stands(Len(request[3]))
    BY <2>4 DEF write_memory_binary
  <2>6. OK # <<"E02">>
    BY DEF OK
  <2>7. Writable(request[2], Len(request[3])) <=>
          request[2] < MemSize /\ request[2] + Len(request[3]) <= MemSize
    BY <2>3 DEF Writable
  <2> HIDE DEF Stands
  <2> QED
    BY <2>3, <2>4, <2>5, <2>6, <2>7
<1>2. Session /\ [SimNext]_svars => [Written]_svars
  BY <1>1
<1> HIDE DEF Written
<1>3. SimSpec => [][Written]_svars
  BY <1>2, SessionHolds, PTL DEF SimSpec
<1> QED
  BY <1>3, PTL DEF MemoryWriteReported, Written
====
