---------------------------- MODULE ArmCore_proof ----------------------------
(***************************************************************************)
(* What memory.c guarantees about any memory and any byte width: the       *)
(* readers return values of their type, the writers keep the contents      *)
(* well-formed, and a word written is the word read back.  Then what the   *)
(* accessors of arm_core.c and the handlers of arm_exception.c do to a     *)
(* well-formed core, field by field, and that operands and results of data *)
(* processing are words, for every width of the words.                     *)
(***************************************************************************)
EXTENDS ArmException, ArmDataProcessing, TLAPS, FiniteSetTheorems, WellFoundedInduction

(* The sizes of the three integer types, and their ranges. *)
LEMMA Sizes ==
  /\ ByteSize \in Nat /\ ByteSize >= 16
  /\ HalfSize \in Nat /\ HalfSize >= 256 /\ HalfSize >= ByteSize
  /\ WordSize \in Nat /\ WordSize >= 65536 /\ WordSize >= HalfSize
  /\ MemSize \in Nat
<1>1. ByteSize \in Nat /\ ByteSize >= 16 /\ MemSize \in Nat
  BY MemoryAssumption DEF WordSize, HalfSize
<1>2. HalfSize \in Nat /\ HalfSize >= 16 * ByteSize
  BY <1>1 DEF HalfSize
<1>3. WordSize \in Nat /\ WordSize >= 256 * HalfSize
  <2>1. HalfSize >= 256
    BY <1>1, <1>2
  <2> QED
    BY <1>2, <2>1 DEF WordSize
<1> QED
  BY <1>1, <1>2, <1>3

(* The word size is a multiple of four.                                    *)
LEMMA WordsOfFour == WordSize % 4 = 0 /\ \E w \in Nat : WordSize = 4 * w
<1>1. PICK h \in Nat : ByteSize = 2 * h
  <2>1. ByteSize \div 2 \in Nat /\ ByteSize = 2 * (ByteSize \div 2)
    BY MemoryAssumption
  <2> QED
    BY <2>1
<1>2. h * h \in Nat /\ HalfSize = 4 * (h * h)
  BY <1>1 DEF HalfSize
<1> DEFINE w == (h * h) * HalfSize
<1>3. w \in Nat /\ WordSize = 4 * w
  BY <1>2 DEF WordSize
<1> HIDE DEF w, WordSize
<1> QED
  BY <1>3

(* Arithmetic modulo 2^32 yields a word. *)
LEMMA Wraps == \A x \in Int : x % WordSize \in Word
BY Sizes DEF Word
(* Arithmetic modulo 2^16 yields a half word.                              *)
LEMMA WrapsHalf == \A x \in Int : x % HalfSize \in Half
BY Sizes DEF Half
(* Arithmetic modulo 2^8 yields a byte.                                    *)
LEMMA WrapsByte == \A x \in Int : x % ByteSize \in Byte
BY Sizes DEF Byte

(* A difference or a sum that leaves the range comes back by one turn.     *)
LEMMA OneTurn ==
  ASSUME NEW x \in Word, NEW y \in Word
  PROVE  /\ (x - y) % WordSize = IF x >= y THEN x - y ELSE x - y + WordSize
         /\ (x + y) % WordSize = IF x + y >= WordSize THEN x + y - WordSize ELSE x + y
<1>1. x \in 0 .. WordSize - 1 /\ y \in 0 .. WordSize - 1 /\ WordSize \in Nat
  BY Sizes DEF Word
<1> HIDE DEF WordSize
<1> QED
  BY <1>1, SMT

(* The same of any number less than one turn out of range.                 *)
LEMMA WithinOneTurn ==
  ASSUME NEW z \in Int, -WordSize <= z, z < 2 * WordSize
  PROVE  z % WordSize = IF z < 0 THEN z + WordSize
                        ELSE IF z >= WordSize THEN z - WordSize ELSE z
<1>1. WordSize \in Nat \ {0}
  BY Sizes
<1> HIDE DEF WordSize
<1> QED
  BY <1>1, SMT

(* The integers assembled from bytes are in the range of their type.       *)
LEMMA HalfOfType ==
  ASSUME NEW b, b[0] \in Byte, b[1] \in Byte
  PROVE  HalfOf(b) \in Half
<1> DEFINE x == b[0]
           y == b[1]
<1>1. x \in Nat /\ y \in Nat /\ x <= ByteSize - 1 /\ y <= ByteSize - 1
  BY Sizes DEF Byte
<1>2. y * ByteSize <= (ByteSize - 1) * ByteSize
  BY <1>1, Sizes
<1>3. ByteSize * y = y * ByteSize /\ ByteSize * y \in Nat
  BY <1>1, Sizes
<1>4. (ByteSize - 1) * ByteSize = HalfSize - ByteSize
  BY Sizes DEF HalfSize
<1>5. HalfOf(b) = x + ByteSize * y
  BY DEF HalfOf
<1> HIDE DEF x, y
<1>6. x + ByteSize * y \in 0 .. HalfSize - 1
  BY <1>1, <1>2, <1>3, <1>4, Sizes
<1> QED
  BY <1>5, <1>6 DEF Half

(* Four bytes make a word.                                                 *)
LEMMA WordOfType ==
  ASSUME NEW b, \A i \in 0 .. 3 : b[i] \in Byte
  PROVE  WordOf(b) \in Word
<1> DEFINE x == HalfOf(b)
           c == [i \in 0 .. 1 |-> b[i + 2]]
           y == b[2] + ByteSize * b[3]
<1>1. x \in Half
  BY HalfOfType
<1>2. y \in Half
  <2>1. HalfOf(c) = y
    BY DEF HalfOf
  <2>2. c[0] \in Byte /\ c[1] \in Byte
    OBVIOUS
  <2> HIDE DEF c, y
  <2> QED
    BY <2>1, <2>2, HalfOfType
<1>3. WordOf(b) = x + HalfSize * y
  BY DEF WordOf
<1> HIDE DEF x, y
<1>4. x \in Nat /\ y \in Nat /\ x <= HalfSize - 1 /\ y <= HalfSize - 1
  BY <1>1, <1>2, Sizes DEF Half
<1>5. HalfSize * y <= HalfSize * (HalfSize - 1) /\ HalfSize * y \in Nat
  BY <1>4, Sizes
<1>6. HalfSize * (HalfSize - 1) = WordSize - HalfSize
  BY Sizes DEF WordSize
<1>7. x + HalfSize * y \in 0 .. WordSize - 1
  BY <1>4, <1>5, <1>6, Sizes
<1> QED
  BY <1>3, <1>7 DEF Word

(* Every byte of the representation of an integer is a byte.               *)
LEMMA ByteOfType ==
  ASSUME NEW v \in Int, NEW i \in 0 .. 3
  PROVE  ByteOf(v, i) \in Byte
<1>1. Weight(i) \in Nat \ {0}
  <2>1. HalfSize * ByteSize \in Nat \ {0}
    BY Sizes
  <2> QED
    BY <2>1, Sizes DEF Weight
<1>2. v \div Weight(i) \in Int
  BY <1>1
<1> QED
  BY <1>2, WrapsByte DEF ByteOf

-----------------------------------------------------------------------------
(* The C functions read inside the block: each byte of an access in bounds *)
(* is a byte of the memory.                                                *)
LEMMA ReadBytesType ==
  ASSUME NEW mem \in Contents, NEW be \in BOOLEAN, NEW address \in Nat,
         NEW len \in 1 .. 4, InBounds(address, len), NEW i \in 0 .. len - 1
  PROVE  memory_read_bytes(mem, be, address, len)[i] \in Byte
<1>1. Place(be, address, len, i) \in Address
  BY Sizes DEF InBounds, Place, Address
<1> QED
  BY <1>1 DEF memory_read_bytes, Contents

(* An access in bounds reads a value of its type.                          *)
LEMMA ReadType ==
  ASSUME NEW mem \in Contents, NEW be \in BOOLEAN, NEW address \in Nat
  PROVE  /\ InBounds(address, 1) => memory_read_byte(mem, address) \in Byte
         /\ InBounds(address, 2) => memory_read_half(mem, be, address) \in Half
         /\ InBounds(address, 4) => memory_read_word(mem, be, address) \in Word
<1>1. ASSUME InBounds(address, 1) PROVE memory_read_byte(mem, address) \in Byte
  <2>1. memory_read_bytes(mem, TRUE, address, 1)[0] \in Byte
    BY <1>1, Sizes DEF memory_read_bytes, Place, InBounds, Address, Contents
  <2> QED
    BY <2>1 DEF memory_read_byte
<1>2. ASSUME InBounds(address, 2) PROVE memory_read_half(mem, be, address) \in Half
  <2>1. \A i \in 0 .. 1 : memory_read_bytes(mem, be, address, 2)[i] \in Byte
    BY <1>2, ReadBytesType
  <2> QED
    BY <2>1, HalfOfType DEF memory_read_half
<1>3. ASSUME InBounds(address, 4) PROVE memory_read_word(mem, be, address) \in Word
  <2>1. \A i \in 0 .. 3 : memory_read_bytes(mem, be, address, 4)[i] \in Byte
    BY <1>3, ReadBytesType
  <2> QED
    BY <2>1, WordOfType DEF memory_read_word
<1> QED
  BY <1>1, <1>2, <1>3

(* A write leaves the memory well-formed, in bounds or not.                *)
LEMMA WriteBytesType ==
  ASSUME NEW mem \in Contents, NEW be \in BOOLEAN, NEW address \in Nat,
         NEW len \in 1 .. 4, NEW bytes, \A i \in 0 .. len - 1 : bytes[i] \in Byte
  PROVE  memory_write_bytes(mem, be, address, bytes, len) \in Contents
<1> SUFFICES ASSUME InBounds(address, len), NEW a \in Address
             PROVE  (IF a \in address .. address + len - 1
                     THEN bytes[IF be THEN address + len - 1 - a ELSE a - address]
                     ELSE mem[a]) \in Byte
  BY DEF memory_write_bytes, Contents
<1>1. a \in Nat
  BY Sizes DEF Address
<1> QED
  BY <1>1 DEF Contents

(* Writes of one, two or four bytes keep the memory well-formed.           *)
LEMMA WriteType ==
  ASSUME NEW mem \in Contents, NEW be \in BOOLEAN, NEW address \in Nat,
         NEW val \in Int
  PROVE  /\ val \in Byte => memory_write_byte(mem, address, val) \in Contents
         /\ memory_write_half(mem, be, address, val) \in Contents
         /\ memory_write_word(mem, be, address, val) \in Contents
<1>1. ASSUME val \in Byte PROVE memory_write_byte(mem, address, val) \in Contents
  <2> SUFFICES ASSUME NEW a \in Address, a \in address .. address
               PROVE  [i \in 0 .. 0 |-> val][address - a] \in Byte
    BY DEF memory_write_byte, memory_write_bytes, Contents
  <2>1. a = address /\ address - a = 0
    OBVIOUS
  <2> QED
    BY <1>1, <2>1
<1>2. memory_write_half(mem, be, address, val) \in Contents
  <2> DEFINE b == [i \in 0 .. 1 |-> ByteOf(val, i)]
  <2>1. \A i \in 0 .. 2 - 1 : b[i] \in Byte
    BY ByteOfType
  <2>2. memory_write_bytes(mem, be, address, b, 2) \in Contents
    <3> HIDE DEF b
    <3> QED
      BY <2>1, WriteBytesType
  <2> QED
    BY <2>2 DEF memory_write_half
<1>3. memory_write_word(mem, be, address, val) \in Contents
  <2> DEFINE b == [i \in 0 .. 3 |-> ByteOf(val, i)]
  <2>1. \A i \in 0 .. 4 - 1 : b[i] \in Byte
    BY ByteOfType
  <2>2. memory_write_bytes(mem, be, address, b, 4) \in Contents
    <3> HIDE DEF b
    <3> QED
      BY <2>1, WriteBytesType
  <2> QED
    BY <2>2 DEF memory_write_word
<1> QED
  BY <1>1, <1>2, <1>3

-----------------------------------------------------------------------------
(* Induction. *)
LEMMA LeastNumber ==
  ASSUME NEW T, T \subseteq Nat, T # {}
  PROVE  \E m \in T : \A k \in T : m <= k
<1>1. PICK n \in T : n \in Nat
  OBVIOUS
<1> DEFINE U == 1 .. n
           W == {1 .. k : k \in T \cap (0 .. n)}
<1>2. W \subseteq FiniteSubsetsOf(U) /\ W # {}
  <2>1. \A k \in T \cap (0 .. n) : 1 .. k \subseteq U /\ IsFiniteSet(1 .. k)
    BY <1>1, FS_Interval
  <2>2. n \in T \cap (0 .. n)
    BY <1>1
  <2> QED
    BY <2>1, <2>2 DEF FiniteSubsetsOf
<1>3. PICK x \in W : \A y \in W : <<y, x>> \notin StrictSubsetOrdering(U)
  <2> HIDE DEF W, U
  <2> QED
    BY <1>2, WFMin, FS_StrictSubsetOrderingWellFounded
<1>4. PICK m \in T \cap (0 .. n) : x = 1 .. m
  OBVIOUS
<1>5. ASSUME NEW k \in T, k < m PROVE FALSE
  <2>1. k \in T \cap (0 .. n)
    BY <1>1, <1>4, <1>5
  <2>2. 1 .. k \in W
    BY <2>1
  <2>3. 1 .. k \subseteq 1 .. m /\ 1 .. m \subseteq U /\ m \in 1 .. m /\ m \notin 1 .. k
    BY <1>1, <1>4, <1>5, <2>1
  <2>4. <<1 .. k, x>> \in StrictSubsetOrdering(U)
    BY <1>4, <2>3 DEF StrictSubsetOrdering
  <2> QED
    BY <1>3, <2>2, <2>4
<1> QED
  BY <1>4, <1>5

(* The function that is computed from its value at the number before.      *)
Computed(f, S, base, n, step) ==
  /\ f \in [0 .. n -> S]
  /\ f[0] = base
  /\ \A i \in 1 .. n : f[i] = step[i][f[i - 1]]
  /\ \A g : g[0] = base
           /\ (\A i \in 1 .. n : g[i - 1] \in S => g[i] = step[i][g[i - 1]])
         => \A i \in 0 .. n : g[i] = f[i]

(* It exists, and every other is equal to it.                              *)
LEMMA Recursion ==
  ASSUME NEW S, NEW base \in S, NEW n \in Nat,
         NEW step \in [1 .. n -> [S -> S]]
  PROVE  \E f : Computed(f, S, base, n, step)
<1> DEFINE Partial(f, k) ==
             f[0] = base /\ \A i \in 1 .. k : f[i] = step[i][f[i - 1]]
           T == {k \in 0 .. n : ~ \E f \in [0 .. k -> S] : Partial(f, k)}
<1>1. ASSUME T # {} PROVE FALSE
  <2>1. PICK m \in T : \A k \in T : m <= k
    <3>1. T \subseteq Nat
      OBVIOUS
    <3> HIDE DEF T
    <3> QED
      BY <1>1, <3>1, LeastNumber
  <2>2. m \in 0 .. n
    OBVIOUS
  <2>3. m # 0
    <3>1. /\ [i \in 0 .. 0 |-> base] \in [0 .. 0 -> S]
          /\ Partial([i \in 0 .. 0 |-> base], 0)
      OBVIOUS
    <3> QED
      BY <2>1, <3>1
  <2>4. PICK f \in [0 .. m - 1 -> S] : Partial(f, m - 1)
    <3>1. m - 1 \in 0 .. n /\ ~(m <= m - 1)
      BY <2>2, <2>3
    <3> QED
      BY <2>1, <3>1
  <2> DEFINE g == [i \in 0 .. m |-> IF i = m THEN step[m][f[m - 1]] ELSE f[i]]
  <2>5. m - 1 \in 0 .. m - 1 /\ m \in 1 .. n /\ m \in 0 .. m
    BY <2>2, <2>3
  <2>6. f[m - 1] \in S /\ step[m][f[m - 1]] \in S
    BY <2>4, <2>5
  <2>7. g \in [0 .. m -> S]
    BY <2>4, <2>5, <2>6
  <2>8. g[0] = base
    BY <2>4, <2>5
  <2>9. ASSUME NEW i \in 1 .. m PROVE g[i] = step[i][g[i - 1]]
    <3>1. i - 1 \in 0 .. m - 1 /\ g[i - 1] = f[i - 1]
      BY <2>5
    <3>2. CASE i = m
      <4>1. g[m] = step[m][f[m - 1]]
        BY <2>5
      <4>2. g[m - 1] = f[m - 1]
        BY <3>1, <3>2
      <4> HIDE DEF g
      <4> QED
        BY <3>2, <4>1, <4>2
    <3>3. CASE i # m
      <4>1. i \in 1 .. m - 1 /\ g[i] = f[i]
        BY <2>5, <3>3
      <4> QED
        BY <2>4, <3>1, <4>1
    <3> QED
      BY <3>2, <3>3
  <2> HIDE DEF g
  <2> QED
    BY <2>1, <2>7, <2>8, <2>9
<1>2. PICK f \in [0 .. n -> S] : Partial(f, n)
  <2>1. n \in 0 .. n
    OBVIOUS
  <2> QED
    BY <1>1, <2>1
<1>3. ASSUME NEW g, g[0] = base,
             \A i \in 1 .. n : g[i - 1] \in S => g[i] = step[i][g[i - 1]]
      PROVE  \A i \in 0 .. n : g[i] = f[i]
  <2> DEFINE U == {i \in 0 .. n : g[i] # f[i]}
  <2>1. ASSUME U # {} PROVE FALSE
    <3>1. PICK m \in U : \A k \in U : m <= k
      <4>1. U \subseteq Nat
        OBVIOUS
      <4> HIDE DEF U
      <4> QED
        BY <2>1, <4>1, LeastNumber
    <3>2. m \in 1 .. n /\ g[m] # f[m]
      BY <1>2, <1>3
    <3>3. m - 1 \in 0 .. n /\ m - 1 \notin U
      BY <3>1, <3>2
    <3>4. g[m - 1] = f[m - 1] /\ f[m - 1] \in S
      BY <1>2, <3>3
    <3> QED
      BY <1>2, <1>3, <3>2, <3>4
  <2> QED
    BY <2>1
<1>4. Computed(f, S, base, n, step)
  BY <1>2, <1>3 DEF Computed
<1> QED
  BY <1>4

-----------------------------------------------------------------------------
(* Division with remainder: existence, uniqueness, and division in stages. *)
LEMMA Division ==
  ASSUME NEW n \in Nat, NEW m \in Nat \ {0}
  PROVE  /\ n \div m \in Nat /\ n % m \in 0 .. m - 1
         /\ n = m * (n \div m) + (n % m)
OBVIOUS

(* The quotient is determined by any decomposition.                        *)
LEMMA DivisionUnique ==
  ASSUME NEW m \in Nat \ {0}, NEW s \in Nat, NEW u \in 0 .. m - 1
  PROVE  (m * s + u) \div m = s
<1> DEFINE n == m * s + u
           t == n \div m
           v == n % m
<1>1. n \in Nat
  OBVIOUS
<1>2. t \in Nat /\ v \in 0 .. m - 1 /\ n = m * t + v
  <2> HIDE DEF n
  <2> QED
    BY <1>1, Division
<1>3. m * s + u = m * t + v
  BY <1>2
<1> HIDE DEF n, t, v
<1>4. ASSUME s < t PROVE FALSE
  <2>1. t >= s + 1
    BY <1>2, <1>4
  <2>2. m * t >= m * (s + 1)
    BY <1>2, <2>1
  <2>3. m * (s + 1) = m * s + m /\ m * s \in Nat /\ m * t \in Nat
    BY <1>2
  <2> QED
    BY <1>2, <1>3, <2>2, <2>3
<1>5. ASSUME t < s PROVE FALSE
  <2>1. s >= t + 1
    BY <1>2, <1>5
  <2>2. m * s >= m * (t + 1)
    BY <1>2, <2>1
  <2>3. m * (t + 1) = m * t + m /\ m * s \in Nat /\ m * t \in Nat
    BY <1>2
  <2> QED
    BY <1>2, <1>3, <2>2, <2>3
<1>6. t = s
  BY <1>2, <1>4, <1>5
<1> QED
  BY <1>6 DEF n, t

(* The remainder is determined by any decomposition.                       *)
LEMMA RemainderUnique ==
  ASSUME NEW m \in Nat \ {0}, NEW s \in Int, NEW u \in 0 .. m - 1
  PROVE  (m * s + u) % m = u
<1> DEFINE n == m * s + u
           t == n \div m
           v == n % m
<1>1. n \in Int
  OBVIOUS
<1>2. t \in Int /\ v \in 0 .. m - 1 /\ n = m * t + v
  <2> HIDE DEF n
  <2> QED
    BY <1>1
<1>3. m * s + u = m * t + v
  BY <1>2
<1> HIDE DEF n, t, v
<1>4. ASSUME s < t PROVE FALSE
  <2>1. t - s >= 1 /\ t - s \in Nat
    BY <1>2, <1>4
  <2>2. m * (t - s) >= m
    BY <2>1
  <2>3. m * (t - s) = m * t - m * s /\ m * s \in Int /\ m * t \in Int
    BY <1>2
  <2> QED
    BY <1>2, <1>3, <2>2, <2>3
<1>5. ASSUME t < s PROVE FALSE
  <2>1. s - t >= 1 /\ s - t \in Nat
    BY <1>2, <1>5
  <2>2. m * (s - t) >= m
    BY <2>1
  <2>3. m * (s - t) = m * s - m * t /\ m * s \in Int /\ m * t \in Int
    BY <1>2
  <2> QED
    BY <1>2, <1>3, <2>2, <2>3
<1>6. t = s
  BY <1>2, <1>4, <1>5
<1>7. v = u
  BY <1>2, <1>3, <1>6
<1> QED
  BY <1>7 DEF n, v

(* A remainder taken on the way does not change the last one.              *)
LEMMA SumOfRemainder ==
  ASSUME NEW m \in Nat \ {0}, NEW x \in Int, NEW y \in Int
  PROVE  ((x % m) + y) % m = (x + y) % m
<1> DEFINE q == x \div m
           r == x % m
           z == r + y
           t == z \div m
           v == z % m
<1>1. q \in Int /\ r \in 0 .. m - 1 /\ x = m * q + r
  OBVIOUS
<1>2. z \in Int
  BY <1>1
<1>3. t \in Int /\ v \in 0 .. m - 1 /\ z = m * t + v
  <2> HIDE DEF z
  <2> QED
    BY <1>2
<1> HIDE DEF q, r, t, v
<1>4. m * (q + t) = m * q + m * t /\ m * q \in Int /\ m * t \in Int /\ q + t \in Int
  BY <1>1, <1>3
<1>5. x + y = m * (q + t) + v
  BY <1>1, <1>3, <1>4
<1> HIDE DEF z
<1>6. (m * (q + t) + v) % m = v
  BY <1>3, <1>4, RemainderUnique
<1> QED
  BY <1>5, <1>6 DEF v, z, r

(* Residues of addresses: a wrap on the way does not change the last one.  *)
LEMMA WrapOnTheWay ==
  ASSUME NEW x \in Int, NEW y \in Int
  PROVE  ((x % WordSize) + y) % WordSize = (x + y) % WordSize
<1>1. WordSize \in Nat \ {0}
  BY Sizes
<1> HIDE DEF WordSize
<1> QED
  BY <1>1, SumOfRemainder

(* Dividing by a product is dividing twice.                                *)
LEMMA DivisionInStages ==
  ASSUME NEW n \in Nat, NEW a \in Nat \ {0}, NEW b \in Nat \ {0}
  PROVE  n \div (a * b) = (n \div a) \div b
<1> DEFINE q == n \div a
           r == n % a
           s == q \div b
           t == q % b
<1>1. q \in Nat /\ r \in 0 .. a - 1 /\ n = a * q + r
  BY Division
<1>2. s \in Nat /\ t \in 0 .. b - 1 /\ q = b * s + t
  <2> HIDE DEF q
  <2> QED
    BY <1>1, Division
<1> HIDE DEF q, r, s, t
<1>3. n = (a * b) * s + (a * t + r)
  <2>1. a * q = a * (b * s) + a * t
    BY <1>2
  <2>2. a * (b * s) = (a * b) * s
    BY <1>2
  <2> QED
    BY <1>1, <1>2, <2>1, <2>2
<1>4. a * t + r \in 0 .. a * b - 1
  <2>1. a * t <= a * (b - 1) /\ a * t \in Nat
    BY <1>2
  <2>2. a * (b - 1) = a * b - a /\ a * b \in Nat
    OBVIOUS
  <2> QED
    BY <1>1, <1>2, <2>1, <2>2
<1>5. a * b \in Nat \ {0}
  BY <1>1
<1>6. n \div (a * b) = s
  BY <1>2, <1>3, <1>4, <1>5, DivisionUnique
<1> QED
  BY <1>6 DEF s, q

(* A number from its digits, and how large its last one makes it.          *)
LEMMA Horner ==
  ASSUME NEW b \in Nat, NEW v \in Nat, NEW v1 \in Nat, NEW v2 \in Nat,
         NEW v3 \in Nat, NEW d0 \in Nat, NEW d1 \in Nat, NEW d2 \in Nat,
         v = b * v1 + d0, v1 = b * v2 + d1, v2 = b * v3 + d2
  PROVE  /\ v = (d0 + b * d1) + (b * b) * (d2 + b * v3)
         /\ v >= (b * b) * (b * v3)
<1>1. v1 = b * v2 + d1 /\ b * v1 = b * (b * v2) + b * d1
  OBVIOUS
<1>2. b * (b * v2) = (b * b) * v2
  OBVIOUS
<1>3. v = (d0 + b * d1) + (b * b) * v2
  <2>1. b * v1 \in Nat /\ b * d1 \in Nat /\ (b * b) * v2 \in Nat
    OBVIOUS
  <2> QED
    BY <1>1, <1>2, <2>1
<1>4. (b * b) * v2 = (b * b) * (b * v3) + (b * b) * d2
  <2> DEFINE c == b * b
             e == b * v3
  <2>1. c \in Nat /\ e \in Nat /\ v2 = e + d2
    OBVIOUS
  <2> HIDE DEF c, e
  <2>2. c * v2 = c * e + c * d2
    BY <2>1
  <2> QED
    BY <2>2 DEF c, e
<1>5. /\ b * d1 \in Nat /\ (b * b) * v2 \in Nat
      /\ (b * b) * (b * v3) \in Nat /\ (b * b) * d2 \in Nat
  OBVIOUS
<1>6. v2 = d2 + b * v3
  OBVIOUS
<1>7. v = (d0 + b * d1) + (b * b) * (d2 + b * v3)
  BY <1>3, <1>6
<1>8. v >= (b * b) * (b * v3)
  BY <1>3, <1>4, <1>5
<1> QED
  BY <1>7, <1>8

(* The bytes of a word are its digits: assembled, they give the word back. *)
LEMMA WordOfBytes ==
  ASSUME NEW v \in Word
  PROVE  WordOf([i \in 0 .. 3 |-> ByteOf(v, i)]) = v
<1> DEFINE v1 == v \div ByteSize
           v2 == v1 \div ByteSize
           v3 == v2 \div ByteSize
           d0 == v % ByteSize
           d1 == v1 % ByteSize
           d2 == v2 % ByteSize
           d3 == v3 % ByteSize
<1>1. v \in Nat /\ ByteSize \in Nat \ {0} /\ v < WordSize
  BY Sizes DEF Word
<1>2. v1 \in Nat /\ d0 \in Nat /\ v = ByteSize * v1 + d0
  BY <1>1
<1>3. v2 \in Nat /\ d1 \in Nat /\ v1 = ByteSize * v2 + d1
  <2> HIDE DEF v1
  <2> QED
    BY <1>1, <1>2
<1>4. v3 \in Nat /\ d2 \in Nat /\ v2 = ByteSize * v3 + d2
  <2> HIDE DEF v2
  <2> QED
    BY <1>1, <1>3
<1>5. ByteOf(v, 0) = d0 /\ ByteOf(v, 1) = d1
  BY <1>1 DEF ByteOf, Weight
<1>6. v \div HalfSize = v2
  BY <1>1, DivisionInStages DEF HalfSize
<1>7. v \div (HalfSize * ByteSize) = v3
  <2>1. HalfSize \in Nat \ {0}
    BY Sizes
  <2> HIDE DEF v2
  <2>2. v \div (HalfSize * ByteSize) = v2 \div ByteSize
    BY <1>1, <1>6, <2>1, DivisionInStages
  <2> QED
    BY <2>2
<1>8. ByteOf(v, 2) = d2 /\ ByteOf(v, 3) = d3
  BY <1>6, <1>7 DEF ByteOf, Weight
<1> HIDE DEF v1, v2, v3, d0, d1, d2
<1>9. /\ v = (d0 + ByteSize * d1) + HalfSize * (d2 + ByteSize * v3)
      /\ v >= HalfSize * (ByteSize * v3)
  BY <1>1, <1>2, <1>3, <1>4, Horner DEF HalfSize
<1>10. v3 < ByteSize
  <2> SUFFICES ASSUME v3 >= ByteSize PROVE FALSE
    BY <1>1, <1>4
  <2>1. ByteSize * v3 >= HalfSize /\ ByteSize * v3 \in Nat
    BY <1>1, <1>4 DEF HalfSize
  <2>2. HalfSize * (ByteSize * v3) >= WordSize
    <3> DEFINE e == ByteSize * v3
    <3>1. e \in Nat /\ e >= HalfSize
      BY <2>1
    <3> HIDE DEF e
    <3>2. HalfSize * e >= HalfSize * HalfSize
      BY <3>1, Sizes
    <3> QED
      BY <3>2 DEF WordSize, e
  <2>3. HalfSize * (ByteSize * v3) \in Nat
    BY <2>1, Sizes
  <2> QED
    BY <1>1, <1>9, <2>2, <2>3, Sizes
<1>11. d3 = v3
  BY <1>1, <1>4, <1>10
<1> QED
  BY <1>5, <1>8, <1>9, <1>11 DEF WordOf, HalfOf

(* memory_write_word followed by memory_read_word with the same byte order *)
(* and address, in bounds, gives the word back (memory_test.c checks a few *)
(* values of this, with the host's byte order and the other).              *)
THEOREM WordReadBack ==
  ASSUME NEW mem \in Contents, NEW be \in BOOLEAN, NEW address \in Nat,
         NEW val \in Word, InBounds(address, 4)
  PROVE  memory_read_word(memory_write_word(mem, be, address, val), be, address) = val
<1> DEFINE b == [i \in 0 .. 3 |-> ByteOf(val, i)]
           written == memory_write_bytes(mem, be, address, b, 4)
<1>1. memory_read_bytes(written, be, address, 4) = b
  <2> SUFFICES ASSUME NEW i \in 0 .. 3
               PROVE  written[Place(be, address, 4, i)] = b[i]
    BY DEF memory_read_bytes
  <2>1. Place(be, address, 4, i) \in Address
    BY Sizes DEF InBounds, Place, Address
  <2> HIDE DEF b
  <2> QED
    BY <2>1 DEF memory_write_bytes, Place
<1>2. memory_read_word(memory_write_word(mem, be, address, val), be, address) = WordOf(b)
  BY <1>1 DEF memory_read_word, memory_write_word
<1> QED
  BY <1>2, WordOfBytes

(* An access whose last byte lies outside the block writes nothing.        *)
THEOREM FailingWriteChangesNothing ==
  ASSUME NEW mem \in Contents, NEW be \in BOOLEAN, NEW address \in Nat,
         NEW val \in Word, ~InBounds(address, 4)
  PROVE  memory_write_word(mem, be, address, val) = mem
BY DEF memory_write_word, memory_write_bytes

-----------------------------------------------------------------------------
(* The core *)

(* The flags fit in the top of a word, above the nine lower fields.        *)
LEMMA FlagUnitSize == FlagUnit \in Nat /\ FlagUnit >= 4096 /\ 16 * FlagUnit <= WordSize
BY Sizes DEF FlagUnit

(* A word read as a status register is one, and a status register fits in  *)
(* a word (arm_mrs and arm_msr).                                           *)
LEMMA PSROfType == ASSUME NEW w \in Word PROVE PSROf(w) \in PSR
<1>1. w \in Nat
  BY Sizes DEF Word
<1>2. w \div FlagUnit \in Int
  BY <1>1, FlagUnitSize
<1> QED
  BY <1>1, <1>2 DEF PSROf, PSR, ModeNumber, Bit

(* A status register fits in a word (arm_mrs writes it to a register).     *)
LEMMA WordOfPSRType == ASSUME NEW psr \in PSR PROVE WordOfPSR(psr) \in Word
<1>1. /\ psr.mode \in 0 .. 31 /\ psr.T \in 0 .. 1 /\ psr.F \in 0 .. 1
      /\ psr.I \in 0 .. 1 /\ psr.E \in 0 .. 1 /\ psr.flags \in 0 .. 15
  BY DEF PSR, ModeNumber, Bit
<1> DEFINE top == FlagUnit * psr.flags
           low == psr.mode + 32 * psr.T + 64 * psr.F + 128 * psr.I + 512 * psr.E
<1>2. top \in Nat /\ top <= FlagUnit * 15
  BY <1>1, FlagUnitSize
<1>3. low \in 0 .. 767
  BY <1>1
<1>4. WordOfPSR(psr) = low + top
  BY DEF WordOfPSR
<1> HIDE DEF top, low
<1>5. low + top \in 0 .. WordSize - 1
  BY <1>2, <1>3, FlagUnitSize, Sizes
<1> QED
  BY <1>4, <1>5 DEF Word

-----------------------------------------------------------------------------
(* The fields of a core. *)
LEMMA CoreFields ==
  ASSUME NEW p \in Core
  PROVE  /\ p.storage \in [0 .. 30 -> Word] /\ p.spsr \in [ModeNumber -> PSR]
         /\ p.cpsr \in PSR /\ p.cpsr.mode \in ModeNumber
         /\ p.spsr[p.cpsr.mode] \in PSR
BY DEF Core, PSR

(* The bank table of arm_create has an entry for every mode and register.  *)
LEMMA RegistersType ==
  ASSUME NEW mode \in ModeNumber, NEW reg \in RegNumber
  PROVE  /\ registers(mode, reg) \in 0 .. 30
         /\ registers(mode, PC) = PC
BY DEF registers, RegNumber, ModeNumber, FIQ, SVC, ABT, UND, IRQ, SP, LR, PC

(* Clearing bit 1 of the program counter gives a word.                     *)
LEMMA ClearBit1Type == ASSUME NEW v \in Word PROVE ClearBit1(v) \in Word
<1>1. v \in 0 .. WordSize - 1 /\ WordSize \in Nat
  BY Sizes DEF Word
<1>2. ((v \div 2) % 2 = 1) => v >= 2
  BY <1>1
<1> QED
  BY <1>1, <1>2 DEF ClearBit1, Word

(* Reading any register of the current mode, or of the user bank, gives a  *)
(* word.                                                                   *)
LEMMA ReadRegisterType ==
  ASSUME NEW p \in Core, NEW reg \in RegNumber
  PROVE  /\ arm_read_register(p, reg) \in Word
         /\ arm_read_usr_register(p, reg) \in Word
<1>1. registers(p.cpsr.mode, reg) \in 0 .. 30 /\ reg \in 0 .. 30
  BY CoreFields, RegistersType DEF RegNumber
<1>2. p.storage[registers(p.cpsr.mode, reg)] \in Word /\ p.storage[reg] \in Word
  BY <1>1, CoreFields
<1>3. \A v \in Word : ClearBit1((v + 4) % WordSize) \in Word
  <2> TAKE v \in Word
  <2>1. v + 4 \in Int
    BY Sizes DEF Word
  <2>2. (v + 4) % WordSize \in Word
    BY <2>1, Wraps
  <2> QED
    BY <2>2, ClearBit1Type
<1> QED
  BY <1>2, <1>3 DEF arm_read_register, arm_read_usr_register

(* q is p with `value' in the register that `reg' names in p's mode.       *)
RegisterWritten(p, q, reg, value) ==
  /\ q \in Core
  /\ q.cpsr = p.cpsr /\ q.spsr = p.spsr
  /\ q.storage[registers(p.cpsr.mode, reg)] = value
  /\ \A r \in 0 .. 30 : r # registers(p.cpsr.mode, reg) => q.storage[r] = p.storage[r]

(* arm_write_register changes one physical register.                       *)
LEMMA WriteRegister ==
  ASSUME NEW p \in Core, NEW reg \in RegNumber, NEW value \in Word
  PROVE  RegisterWritten(p, arm_write_register(p, reg, value), reg, value)
<1>1. registers(p.cpsr.mode, reg) \in 0 .. 30
  BY CoreFields, RegistersType
<1> QED
  BY <1>1 DEF arm_write_register, Core, RegisterWritten

(* q is p with psr as its current status register, or as the SPSR of its   *)
(* mode.                                                                   *)
StatusWritten(p, q, psr) ==
  /\ q \in Core
  /\ q.cpsr = psr /\ q.spsr = p.spsr /\ q.storage = p.storage

SavedStatusWritten(p, q, psr) ==
  /\ q \in Core
  /\ q.cpsr = p.cpsr /\ q.storage = p.storage
  /\ q.spsr[p.cpsr.mode] = psr
  /\ \A m \in ModeNumber \ {p.cpsr.mode} : q.spsr[m] = p.spsr[m]

(* Writing the status register, the flags or an SPSR.                      *)
LEMMA WriteStatus ==
  ASSUME NEW p \in Core, NEW psr \in PSR
  PROVE  /\ StatusWritten(p, arm_write_cpsr(p, psr), psr)
         /\ SavedStatusWritten(p, arm_write_spsr(p, psr), psr)
<1>1. StatusWritten(p, arm_write_cpsr(p, psr), psr)
  BY DEF arm_write_cpsr, Core, StatusWritten
<1>2. SavedStatusWritten(p, arm_write_spsr(p, psr), psr)
  BY CoreFields DEF arm_write_spsr, Core, SavedStatusWritten
<1> QED
  BY <1>1, <1>2

(* update_nzcv and update_flag_t change one field of the CPSR.             *)
LEMMA UpdateFlags ==
  ASSUME NEW p \in Core, NEW flags \in 0 .. 15, NEW t \in Bit
  PROVE  /\ StatusWritten(p, update_nzcv(p, flags), [p.cpsr EXCEPT !.flags = flags])
         /\ StatusWritten(p, update_flag_t(p, t), [p.cpsr EXCEPT !.T = t])
<1>1. StatusWritten(p, update_nzcv(p, flags), [p.cpsr EXCEPT !.flags = flags])
  BY DEF update_nzcv, Core, PSR, StatusWritten
<1>2. StatusWritten(p, update_flag_t(p, t), [p.cpsr EXCEPT !.T = t])
  BY DEF update_flag_t, Core, PSR, StatusWritten
<1> QED
  BY <1>1, <1>2

-----------------------------------------------------------------------------
(* Exception entry *)

Entering == {SVC, ABT, UND, IRQ, FIQ}

(* The registers that an exception writes are three different ones.        *)
LEMMA EntryRegisters ==
  ASSUME NEW mode \in Entering
  PROVE  LET sp == registers(mode, SP)
             lr == registers(mode, LR)
         IN  /\ mode \in ModeNumber
             /\ sp \in 16 .. 30 /\ lr \in 16 .. 30 /\ sp # lr
             /\ registers(mode, PC) = 15
BY DEF Entering, registers, ModeNumber, SVC, ABT, UND, IRQ, FIQ, SP, LR, PC

(* The addresses that a handler saves in LR are words.                     *)
LEMMA Links ==
  ASSUME NEW p \in Core
  PROVE  /\ arm_address_current_instruction(p) \in Word
         /\ arm_address_next_instruction(p) \in Word
         /\ FetchAddress(p) \in Word
<1>1. arm_read_register(p, PC) \in Int
  BY ReadRegisterType, Sizes DEF Word, RegNumber, PC
<1> QED
  BY <1>1, Wraps DEF arm_address_current_instruction,
       arm_address_next_instruction, FetchAddress

(* The status register of an exception handler. *)
LEMMA EntryStatus ==
  ASSUME NEW s \in PSR, NEW m \in ModeNumber
  PROVE  LET psr == [s EXCEPT !.mode = m, !.T = 0, !.I = 1, !.E = CP15_reg1_EEbit]
         IN  psr \in PSR /\ psr.mode = m
<1>1. [s EXCEPT !.mode = m] \in PSR /\ [s EXCEPT !.mode = m].mode = m
  BY DEF PSR
<1>2. \A t \in PSR : /\ [t EXCEPT !.T = 0] \in PSR /\ [t EXCEPT !.T = 0].mode = t.mode
                     /\ [t EXCEPT !.I = 1] \in PSR /\ [t EXCEPT !.I = 1].mode = t.mode
                     /\ [t EXCEPT !.E = 1] \in PSR /\ [t EXCEPT !.E = 1].mode = t.mode
  BY DEF PSR, Bit
<1> DEFINE a == [s EXCEPT !.mode = m]
           b == [a EXCEPT !.T = 0]
           c == [b EXCEPT !.I = 1]
           d == [c EXCEPT !.E = 1]
<1>3. d \in PSR /\ d.mode = m
  <2> HIDE DEF a, b, c, d
  <2>1. a \in PSR /\ a.mode = m
    BY <1>1 DEF a
  <2>2. b \in PSR /\ b.mode = m
    BY <1>2, <2>1 DEF b
  <2>3. c \in PSR /\ c.mode = m
    BY <1>2, <2>2 DEF c
  <2> QED
    BY <1>2, <2>3 DEF d
<1> QED
  BY <1>3, Zenon DEF CP15_reg1_EEbit

(* q is what entering `mode' makes of p.                                   *)
ExceptionEntered(p, q, mode, link, vector) ==
  /\ q \in Core
  /\ q.cpsr = [p.cpsr EXCEPT !.mode = mode, !.T = 0, !.I = 1, !.E = CP15_reg1_EEbit]
  /\ q.spsr[mode] = p.cpsr
  /\ \A m \in ModeNumber \ {mode} : q.spsr[m] = p.spsr[m]
  /\ q.storage[PC] = VectorBase + vector
  /\ q.storage[registers(mode, SP)] = arm_read_register(p, SP)
  /\ q.storage[registers(mode, LR)] = link
  /\ \A r \in (0 .. 30) \ {PC, registers(mode, SP), registers(mode, LR)} :
       q.storage[r] = p.storage[r]

(* Entry into a mode, field by field.                                      *)
LEMMA EnterExceptionEffect ==
  ASSUME NEW p \in Core, NEW mode \in Entering, NEW link \in Word,
         NEW vector \in 0 .. 28
  PROVE  ExceptionEntered(p, EnterException(p, mode, link, vector), mode, link, vector)
<1> DEFINE psr     == [p.cpsr EXCEPT !.mode = mode, !.T = 0, !.I = 1,
                                     !.E = CP15_reg1_EEbit]
           entered == [p EXCEPT !.cpsr.mode = mode, !.cpsr.T = 0, !.cpsr.I = 1,
                                !.cpsr.E = CP15_reg1_EEbit]
           sp      == arm_read_register(p, SP)
           linked  == arm_write_register(entered, LR, link)
           stacked == arm_write_register(linked, SP, sp)
           saved   == arm_write_spsr(stacked, p.cpsr)
           q       == EnterException(p, mode, link, vector)
<1> HIDE DEF psr, entered, sp, linked, stacked, saved, q
<1>0. /\ mode \in ModeNumber /\ p.cpsr \in PSR
      /\ SP \in RegNumber /\ LR \in RegNumber /\ PC \in RegNumber
  BY EntryRegisters, CoreFields DEF RegNumber, SP, LR, PC
<1>1. psr \in PSR /\ psr.mode = mode
  BY <1>0, EntryStatus DEF psr
<1>2. /\ entered \in Core /\ entered.cpsr = psr
      /\ entered.spsr = p.spsr /\ entered.storage = p.storage
  <2>1. entered = [p EXCEPT !.cpsr = psr]
    BY DEF entered, psr, Core, PSR
  <2> QED
    BY <1>1, <2>1 DEF Core
<1>3. sp \in Word
  BY <1>0, ReadRegisterType DEF sp
<1>4. RegisterWritten(entered, linked, LR, link)
  BY <1>0, <1>2, WriteRegister DEF linked
<1>5. RegisterWritten(linked, stacked, SP, sp)
  <2>1. linked \in Core
    BY <1>4 DEF RegisterWritten
  <2> QED
    BY <1>0, <1>3, <2>1, WriteRegister DEF stacked
<1>6. SavedStatusWritten(stacked, saved, p.cpsr)
  <2>1. stacked \in Core
    BY <1>5 DEF RegisterWritten
  <2> QED
    BY <1>0, <2>1, WriteStatus DEF saved
<1>7. RegisterWritten(saved, q, PC, VectorBase + vector)
  <2>1. VectorBase + vector \in Word
    BY CoreAssumption, Sizes DEF Word
  <2>2. saved \in Core
    BY <1>6 DEF SavedStatusWritten
  <2>3. q = arm_write_register(saved, PC, VectorBase + vector)
    BY DEF EnterException, arm_branch_exception_vector, q, saved, stacked,
           linked, entered, sp
  <2> QED
    BY <1>0, <2>1, <2>2, <2>3, WriteRegister
<1>8. /\ linked.cpsr = psr /\ stacked.cpsr = psr /\ saved.cpsr = psr /\ q.cpsr = psr
      /\ linked.spsr = p.spsr /\ stacked.spsr = p.spsr /\ q.spsr = saved.spsr
      /\ q \in Core
  BY <1>2, <1>4, <1>5, <1>6, <1>7 DEF RegisterWritten, SavedStatusWritten
<1>9. /\ q.spsr[mode] = p.cpsr
      /\ \A m \in ModeNumber \ {mode} : q.spsr[m] = p.spsr[m]
  BY <1>1, <1>6, <1>8 DEF SavedStatusWritten
<1>10. /\ registers(mode, SP) \in 0 .. 30 /\ registers(mode, LR) \in 0 .. 30
       /\ registers(mode, SP) # registers(mode, LR)
       /\ registers(mode, SP) # PC /\ registers(mode, LR) # PC
       /\ registers(mode, PC) = PC
  BY EntryRegisters DEF PC
<1>11. /\ linked.storage[registers(mode, LR)] = link
       /\ \A r \in 0 .. 30 : r # registers(mode, LR) => linked.storage[r] = p.storage[r]
  BY <1>1, <1>2, <1>4 DEF RegisterWritten
<1>12. /\ stacked.storage[registers(mode, SP)] = sp
       /\ \A r \in 0 .. 30 : r # registers(mode, SP) =>
                               stacked.storage[r] = linked.storage[r]
  BY <1>1, <1>5, <1>8 DEF RegisterWritten
<1>13. /\ q.storage[PC] = VectorBase + vector
       /\ \A r \in 0 .. 30 : r # PC => q.storage[r] = stacked.storage[r]
  BY <1>1, <1>6, <1>7, <1>8, <1>10 DEF RegisterWritten, SavedStatusWritten
<1> QED
  BY <1>8, <1>9, <1>10, <1>11, <1>12, <1>13 DEF ExceptionEntered, psr, sp, q

-----------------------------------------------------------------------------
(* The handlers *)

(* q is p after it has taken an exception other than a reset: the handler  *)
(* runs in the mode of the exception at a vector of that mode, interrupts  *)
(* off, and only that mode's SP, LR and SPSR have been written.            *)
Took(p, q) ==
  LET mode == q.cpsr.mode
  IN  /\ q \in Core
      /\ mode \in Entering
      /\ q.cpsr.T = 0 /\ q.cpsr.I = 1 /\ q.cpsr.F \in {p.cpsr.F, 1}
      /\ q.storage[PC] \in VectorsOf(mode)
      /\ q.spsr[mode] = p.cpsr
      /\ \A m \in ModeNumber \ {mode} : q.spsr[m] = p.spsr[m]
      /\ q.storage[registers(mode, SP)] = arm_read_register(p, SP)
      /\ \A r \in (0 .. 30) \ {PC, registers(mode, SP), registers(mode, LR)} :
           q.storage[r] = p.storage[r]

(* q is p after a reset. *)
WasReset(p, q) ==
  /\ q \in Core
  /\ q.storage[PC] = VectorBase + Vector.RESET
  /\ q.cpsr.mode = SVC
  /\ q.spsr = p.spsr

(* The same, with the mode, the return address and the vector.             *)
TookAt(p, q, mode, link, vector) ==
  /\ Took(p, q)
  /\ q.cpsr.mode = mode
  /\ q.storage[registers(mode, LR)] = link
  /\ q.storage[PC] = VectorBase + vector

(* A common exception entry takes an exception.                            *)
LEMMA EnteredTook ==
  ASSUME NEW p \in Core, NEW q, NEW mode \in Entering, NEW link, NEW vector,
         ExceptionEntered(p, q, mode, link, vector),
         VectorBase + vector \in VectorsOf(mode)
  PROVE  TookAt(p, q, mode, link, vector)
<1>1. p.cpsr \in PSR
  BY CoreFields
<1>2. /\ q.cpsr.mode = mode /\ q.cpsr.T = 0 /\ q.cpsr.I = 1
      /\ q.cpsr.F = p.cpsr.F
  BY <1>1 DEF ExceptionEntered, PSR
<1> QED
  BY <1>2 DEF ExceptionEntered, Took, TookAt

(* The six exceptions other than the reset. *)
LEMMA HandlersTook ==
  ASSUME NEW p \in Core
  PROVE  LET here == arm_address_current_instruction(p)
             next == arm_address_next_instruction(p)
         IN  /\ TookAt(p, handle_undefined_instruction(p), UND, next, Vector.UND)
             /\ TookAt(p, handle_software_interrup(p), SVC, next, Vector.SWI)
             /\ TookAt(p, handle_prefetch_abord(p), ABT, (here + 4) % WordSize, Vector.PABT)
             /\ TookAt(p, handle_data_abort(p), ABT, (here + 8) % WordSize, Vector.DABT)
             /\ p.cpsr.I = 0 =>
                  TookAt(p, handle_irq(p), IRQ, (next + 4) % WordSize, Vector.IRQ)
             /\ p.cpsr.F = 0 =>
                  /\ TookAt(p, handle_fiq(p), FIQ, (next + 4) % WordSize, Vector.FIQ)
                  /\ handle_fiq(p).cpsr.F = 1
<1> DEFINE here == arm_address_current_instruction(p)
           next == arm_address_next_instruction(p)
<1> HIDE DEF here, next
<1>0. here \in Int /\ next \in Word /\ next \in Int
  BY Links, Sizes DEF here, next, Word
<1>1. /\ (here + 4) % WordSize \in Word /\ (here + 8) % WordSize \in Word
      /\ (next + 4) % WordSize \in Word
  BY <1>0, Wraps
<1>2. /\ UND \in Entering /\ SVC \in Entering /\ ABT \in Entering
      /\ IRQ \in Entering /\ FIQ \in Entering
  BY DEF Entering
<1>3. /\ Vector.UND = 4 /\ Vector.SWI = 8 /\ Vector.PABT = 12
      /\ Vector.DABT = 16 /\ Vector.IRQ = 24 /\ Vector.FIQ = 28
  BY DEF Vector
<1>4. /\ VectorBase + Vector.UND \in VectorsOf(UND)
      /\ VectorBase + Vector.SWI \in VectorsOf(SVC)
      /\ VectorBase + Vector.PABT \in VectorsOf(ABT)
      /\ VectorBase + Vector.DABT \in VectorsOf(ABT)
      /\ VectorBase + Vector.IRQ \in VectorsOf(IRQ)
      /\ VectorBase + Vector.FIQ \in VectorsOf(FIQ)
  BY DEF VectorsOf, UND, SVC, ABT, IRQ, FIQ
<1>5. TookAt(p, handle_undefined_instruction(p), UND, next, Vector.UND)
  <2>1. ExceptionEntered(p, handle_undefined_instruction(p), UND, next, Vector.UND)
    BY <1>0, <1>2, <1>3, EnterExceptionEffect DEF handle_undefined_instruction, next
  <2> QED
    BY <1>2, <1>4, <2>1, EnteredTook
<1>6. TookAt(p, handle_software_interrup(p), SVC, next, Vector.SWI)
  <2>1. ExceptionEntered(p, handle_software_interrup(p), SVC, next, Vector.SWI)
    BY <1>0, <1>2, <1>3, EnterExceptionEffect DEF handle_software_interrup, next
  <2> QED
    BY <1>2, <1>4, <2>1, EnteredTook
<1>7. TookAt(p, handle_prefetch_abord(p), ABT, (here + 4) % WordSize, Vector.PABT)
  <2>1. ExceptionEntered(p, handle_prefetch_abord(p), ABT, (here + 4) % WordSize,
                         Vector.PABT)
    BY <1>1, <1>2, <1>3, EnterExceptionEffect DEF handle_prefetch_abord, here
  <2> QED
    BY <1>2, <1>4, <2>1, EnteredTook
<1>8. TookAt(p, handle_data_abort(p), ABT, (here + 8) % WordSize, Vector.DABT)
  <2>1. ExceptionEntered(p, handle_data_abort(p), ABT, (here + 8) % WordSize,
                         Vector.DABT)
    BY <1>1, <1>2, <1>3, EnterExceptionEffect DEF handle_data_abort, here
  <2> QED
    BY <1>2, <1>4, <2>1, EnteredTook
<1>9. ASSUME p.cpsr.I = 0
      PROVE  TookAt(p, handle_irq(p), IRQ, (next + 4) % WordSize, Vector.IRQ)
  <2>1. ExceptionEntered(p, handle_irq(p), IRQ, (next + 4) % WordSize, Vector.IRQ)
    BY <1>1, <1>2, <1>3, <1>9, EnterExceptionEffect DEF handle_irq, next
  <2> QED
    BY <1>2, <1>4, <2>1, EnteredTook
<1>10. ASSUME p.cpsr.F = 0
       PROVE  /\ TookAt(p, handle_fiq(p), FIQ, (next + 4) % WordSize, Vector.FIQ)
              /\ handle_fiq(p).cpsr.F = 1
  <2> DEFINE e == EnterException(p, FIQ, (next + 4) % WordSize, Vector.FIQ)
             q == handle_fiq(p)
  <2>1. ExceptionEntered(p, e, FIQ, (next + 4) % WordSize, Vector.FIQ)
    BY <1>1, <1>2, <1>3, EnterExceptionEffect
  <2>2. TookAt(p, e, FIQ, (next + 4) % WordSize, Vector.FIQ)
    BY <1>2, <1>4, <2>1, EnteredTook
  <2>3. q = [e EXCEPT !.cpsr.F = 1]
    BY <1>10 DEF handle_fiq, next
  <2> HIDE DEF e, q
  <2>4. e \in Core /\ e.cpsr \in PSR
    BY <2>2, CoreFields DEF Took, TookAt
  <2>5. /\ q.storage = e.storage /\ q.spsr = e.spsr
        /\ q.cpsr = [e.cpsr EXCEPT !.F = 1]
    BY <2>3, <2>4 DEF Core
  <2>6. /\ q.cpsr \in PSR /\ q.cpsr.mode = e.cpsr.mode
        /\ q.cpsr.T = e.cpsr.T /\ q.cpsr.I = e.cpsr.I /\ q.cpsr.F = 1
    BY <2>4, <2>5 DEF PSR, Bit
  <2>7. q \in Core
    BY <2>3, <2>4, <2>6, <2>5 DEF Core
  <2> QED
    BY <2>2, <2>5, <2>6, <2>7 DEF Took, TookAt, q
<1> QED
  BY <1>5, <1>6, <1>7, <1>8, <1>9, <1>10 DEF here, next

(* The reset writes seven stack pointers and leaves every SPSR as it was.  *)
LEMMA SetStackEffect ==
  ASSUME NEW p \in Core, NEW mode \in ModeNumber, NEW k \in 0 .. 6
  PROVE  SetStack(p, mode, k) \in Core /\ SetStack(p, mode, k).spsr = p.spsr
<1> DEFINE q == [p EXCEPT !.cpsr.mode = mode]
<1>1. q \in Core /\ q.spsr = p.spsr
  BY DEF Core, PSR
<1>2. SP \in RegNumber
  BY DEF SP, RegNumber
<1>3. StackBase + k * StackStep \in Word
  <2>1. k * StackStep \in Nat /\ k * StackStep <= 6 * StackStep
    BY CoreAssumption
  <2> QED
    BY <2>1, CoreAssumption, Sizes DEF Word
<1> HIDE DEF q
<1>4. RegisterWritten(q, arm_write_register(q, SP, StackBase + k * StackStep), SP,
                      StackBase + k * StackStep)
  BY <1>1, <1>2, <1>3, WriteRegister
<1> QED
  BY <1>1, <1>4 DEF RegisterWritten, SetStack, q

(* handle_reset yields a well-formed core in supervisor mode.              *)
LEMMA ResetEffect == ASSUME NEW p \in Core PROVE WasReset(p, handle_reset(p))
<1> DEFINE masks == [p EXCEPT !.cpsr.F = 0, !.cpsr.I = 0, !.cpsr.E = CP15_reg1_EEbit]
           usr   == SetStack(masks, USR, 0)
           fiq   == SetStack(usr, FIQ, 1)
           irq   == SetStack(fiq, IRQ, 2)
           svc   == SetStack(irq, SVC, 3)
           abt   == SetStack(svc, ABT, 4)
           und   == SetStack(abt, UND, 5)
           sys   == SetStack(und, SYS, 6)
           last  == [sys EXCEPT !.cpsr.mode = SVC]
           q     == handle_reset(p)
<1> HIDE DEF masks, usr, fiq, irq, svc, abt, und, sys, last, q
<1>0. /\ USR \in ModeNumber /\ FIQ \in ModeNumber /\ IRQ \in ModeNumber
      /\ SVC \in ModeNumber /\ ABT \in ModeNumber /\ UND \in ModeNumber
      /\ SYS \in ModeNumber /\ PC \in RegNumber
  BY DEF USR, FIQ, IRQ, SVC, ABT, UND, SYS, ModeNumber, PC, RegNumber
<1>1. masks \in Core /\ masks.spsr = p.spsr
  <2>1. /\ [p EXCEPT !.cpsr.F = 0] \in Core
        /\ [p EXCEPT !.cpsr.F = 0].spsr = p.spsr
    BY DEF Core, PSR, Bit
  <2>2. \A c \in Core : /\ [c EXCEPT !.cpsr.I = 0] \in Core
                        /\ [c EXCEPT !.cpsr.I = 0].spsr = c.spsr
    BY DEF Core, PSR, Bit
  <2>3. \A c \in Core : /\ [c EXCEPT !.cpsr.E = 1] \in Core
                        /\ [c EXCEPT !.cpsr.E = 1].spsr = c.spsr
    BY DEF Core, PSR, Bit
  <2> DEFINE a == [p EXCEPT !.cpsr.F = 0]
             b == [a EXCEPT !.cpsr.I = 0]
  <2>4. masks = [b EXCEPT !.cpsr.E = 1]
    BY Zenon DEF masks, CP15_reg1_EEbit
  <2> HIDE DEF a, b
  <2>5. a \in Core /\ a.spsr = p.spsr
    BY <2>1 DEF a
  <2>6. b \in Core /\ b.spsr = p.spsr
    BY <2>2, <2>5 DEF b
  <2> QED
    BY <2>3, <2>4, <2>6
<1>2. usr \in Core /\ usr.spsr = p.spsr
  BY <1>0, <1>1, SetStackEffect DEF usr
<1>3. fiq \in Core /\ fiq.spsr = p.spsr
  BY <1>0, <1>2, SetStackEffect DEF fiq
<1>4. irq \in Core /\ irq.spsr = p.spsr
  BY <1>0, <1>3, SetStackEffect DEF irq
<1>5. svc \in Core /\ svc.spsr = p.spsr
  BY <1>0, <1>4, SetStackEffect DEF svc
<1>6. abt \in Core /\ abt.spsr = p.spsr
  BY <1>0, <1>5, SetStackEffect DEF abt
<1>7. und \in Core /\ und.spsr = p.spsr
  BY <1>0, <1>6, SetStackEffect DEF und
<1>8. sys \in Core /\ sys.spsr = p.spsr
  BY <1>0, <1>7, SetStackEffect DEF sys
<1>9. last \in Core /\ last.spsr = p.spsr /\ last.cpsr.mode = SVC
  BY <1>0, <1>8 DEF last, Core, PSR
<1>10. VectorBase + Vector.RESET \in Word
  BY CoreAssumption, Sizes DEF Word, Vector
<1>11. RegisterWritten(last, q, PC, VectorBase + Vector.RESET)
  <2>1. q = arm_write_register(last, PC, VectorBase + Vector.RESET)
    BY DEF q, handle_reset, arm_branch_exception_vector, last, sys, und, abt,
           svc, irq, fiq, usr, masks
  <2> QED
    BY <1>0, <1>9, <1>10, <2>1, WriteRegister
<1>12. registers(last.cpsr.mode, PC) = PC
  BY <1>0, <1>9, RegistersType
<1> QED
  BY <1>9, <1>11, <1>12 DEF RegisterWritten, WasReset, q

(* Whatever number arrives, arm_exception resets the core, enters a        *)
(* handler, or, for a masked interrupt or an unknown number, does nothing. *)
LEMMA ExceptionEffect ==
  ASSUME NEW p \in Core, NEW exception \in Nat
  PROVE  LET q == arm_exception(p, exception)
         IN  /\ q \in Core
             /\ q = p \/ Took(p, q) \/ WasReset(p, q)
             /\ exception \in 2 .. 5 => Took(p, q)
             /\ exception = DATA_ABORT => q.cpsr.mode = ABT
<1> DEFINE q == arm_exception(p, exception)
<1>1. p.cpsr.I \in {0, 1} /\ p.cpsr.F \in {0, 1}
  BY DEF Core, PSR, Bit
<1>2. \/ q = p /\ exception \notin 2 .. 5
      \/ Took(p, q)
      \/ WasReset(p, q) /\ exception \notin 2 .. 5
  <2> USE DEF RESET, UNDEFINED_INSTRUCTION, SOFTWARE_INTERRUPT, PREFETCH_ABORT,
              DATA_ABORT, INTERRUPT, FAST_INTERRUPT
  <2>1. CASE exception = RESET
    BY <2>1, ResetEffect DEF arm_exception
  <2>2. CASE exception = UNDEFINED_INSTRUCTION
    BY <2>2, HandlersTook DEF TookAt, arm_exception
  <2>3. CASE exception = SOFTWARE_INTERRUPT
    BY <2>3, HandlersTook DEF TookAt, arm_exception
  <2>4. CASE exception = PREFETCH_ABORT
    BY <2>4, HandlersTook DEF TookAt, arm_exception
  <2>5. CASE exception = DATA_ABORT
    BY <2>5, HandlersTook DEF TookAt, arm_exception
  <2>6. CASE exception = INTERRUPT
    <3>1. q = handle_irq(p) /\ exception \notin 2 .. 5
      BY <2>6 DEF arm_exception
    <3>2. p.cpsr.I = 1 => q = p
      BY <3>1 DEF handle_irq
    <3> QED
      BY <1>1, <3>1, <3>2, HandlersTook DEF TookAt
  <2>7. CASE exception = FAST_INTERRUPT
    <3>1. q = handle_fiq(p) /\ exception \notin 2 .. 5
      BY <2>7 DEF arm_exception
    <3>2. p.cpsr.F = 1 => q = p
      BY <3>1 DEF handle_fiq
    <3> QED
      BY <1>1, <3>1, <3>2, HandlersTook DEF TookAt
  <2>8. CASE exception \notin 1 .. 7
    BY <2>8 DEF arm_exception
  <2> QED
    BY <2>1, <2>2, <2>3, <2>4, <2>5, <2>6, <2>7, <2>8
<1>3. exception = DATA_ABORT => q.cpsr.mode = ABT
  BY HandlersTook DEF TookAt, arm_exception, RESET, UNDEFINED_INSTRUCTION,
     SOFTWARE_INTERRUPT, PREFETCH_ABORT, DATA_ABORT, INTERRUPT, FAST_INTERRUPT
<1> QED
  BY <1>2, <1>3 DEF Took, WasReset

-----------------------------------------------------------------------------
(* Names and fetches                                                       *)

(* Two names of registers are two registers, in every mode.                *)
LEMMA RegistersDistinct ==
  ASSUME NEW mode \in ModeNumber, NEW r \in RegNumber, NEW s \in RegNumber,
         registers(mode, r) = registers(mode, s)
  PROVE  r = s
BY DEF registers, RegNumber, ModeNumber, FIQ, SVC, ABT, UND, IRQ, SP, LR, PC

(* The address that is fetched when the program counter holds v.           *)
FetchedFrom(v) == (ClearBit1((v + 4) % WordSize) - 4) % WordSize

(* The fetch address depends on the program counter only.                  *)
LEMMA FetchedFromStorage ==
  ASSUME NEW p \in Core
  PROVE  /\ p.storage[PC] \in Word
         /\ FetchAddress(p) = FetchedFrom(p.storage[PC])
<1>1. registers(p.cpsr.mode, PC) = PC /\ PC \in 0 .. 30
  BY CoreFields, RegistersType DEF RegNumber, PC
<1> QED
  BY <1>1, CoreFields DEF FetchAddress, arm_read_register, FetchedFrom

(* Fetching from a fetch address is fetching from it.                      *)
LEMMA FetchedFromFetched ==
  ASSUME NEW v \in Word
  PROVE  FetchedFrom(v) \in Word /\ FetchedFrom(FetchedFrom(v)) = FetchedFrom(v)
<1> DEFINE u == (v + 4) % WordSize
           x == ClearBit1(u)
<1>1. u \in Word
  BY Wraps, Sizes DEF Word
<1> HIDE DEF u
<1>2. x \in Word /\ x \in Int
  BY <1>1, ClearBit1Type, Sizes DEF Word
<1>3. ClearBit1(x) = x
  <2>1. u \in Nat
    BY <1>1, Sizes DEF Word
  <2> QED
    BY <2>1 DEF ClearBit1
<1> HIDE DEF x
<1>4. (x - 4) % WordSize \in Word
  BY <1>2, Wraps
<1>5. (((x - 4) % WordSize) + 4) % WordSize = x
  <2> DEFINE y == (x - 4) % WordSize
  <2>1. 4 \in Word /\ WordSize \in Nat
    BY Sizes DEF Word
  <2>2. y = IF x >= 4 THEN x - 4 ELSE x - 4 + WordSize
    BY <1>2, <2>1, OneTurn
  <2>3. (y + 4) % WordSize = IF y + 4 >= WordSize THEN y + 4 - WordSize ELSE y + 4
    BY <1>4, <2>1, OneTurn
  <2> HIDE DEF y, WordSize
  <2> QED
    BY <1>2, <2>1, <2>2, <2>3 DEF Word, y
<1> QED
  BY <1>3, <1>4, <1>5 DEF FetchedFrom, x, u

(* An aligned program counter, such as a vector, is fetched from as it is. *)
LEMMA FetchedFromAligned ==
  ASSUME NEW v \in Word, v % 4 = 0
  PROVE  FetchedFrom(v) = v
<1> DEFINE x == (v + 4) % WordSize
<1>1. /\ WordSize \in Nat /\ WordSize >= 65536 /\ WordSize % 4 = 0 /\ v \in Nat /\ v < WordSize
  <2>1. WordSize % 4 = 0
    <3>1. PICK h \in Nat : ByteSize = 2 * h
      <4>1. ByteSize \div 2 \in Nat /\ ByteSize = 2 * (ByteSize \div 2)
        BY MemoryAssumption
      <4> QED
        BY <4>1
    <3>2. h * h \in Nat /\ HalfSize = 4 * (h * h)
      BY <3>1 DEF HalfSize
    <3>3. (h * h) * HalfSize \in Nat /\ WordSize = 4 * ((h * h) * HalfSize)
      BY <3>2 DEF WordSize
    <3> HIDE DEF WordSize
    <3> QED
      BY <3>3
  <2> QED
    BY <2>1, Sizes DEF Word
<1>2. 4 \in Word /\ x = IF v + 4 >= WordSize THEN v + 4 - WordSize ELSE v + 4
  <2>1. 4 \in Word
    BY Sizes DEF Word
  <2> QED
    BY <2>1, OneTurn
<1> HIDE DEF x
<1>3. x \in Word /\ x % 4 = 0
  <2> HIDE DEF WordSize
  <2> QED
  BY <1>1, <1>2 DEF Word
<1>4. ClearBit1(x) = x
  <2>1. x \in Nat
    BY <1>3, Sizes DEF Word
  <2> QED
    BY <1>3, <2>1 DEF ClearBit1
<1>5. (x - 4) % WordSize = v
  <2>1. (x - 4) % WordSize = IF x >= 4 THEN x - 4 ELSE x - 4 + WordSize
    BY <1>2, <1>3, OneTurn
  <2> HIDE DEF WordSize
  <2> QED
    BY <1>1, <1>2, <2>1
<1> QED
  BY <1>4, <1>5 DEF FetchedFrom, x

-----------------------------------------------------------------------------
(* Operands: what the shifter and the data processing operations compute   *)
(* is a word, with a carry bit and four flags.                             *)

(* Powers of two are integers, and a register count is a natural number.   *)
LEMMA Powers == \A i \in Nat : 2^i \in Int
BY SMT

(* Words are integers, and some small facts about their range.             *)
LEMMA WordInt == /\ \A w \in Word : w \in Int /\ w \in Nat
                 /\ WordSize \in Nat /\ WordSize > 255 /\ 0 \in Word
                 /\ WordSize - 1 \in Word
BY Sizes DEF Word

(* arm_read_c gives a bit.                                                 *)
LEMMA FlagCType == ASSUME NEW p \in Core PROVE FlagC(p.cpsr) \in Bit
<1>1. p.cpsr.flags \in 0 .. 15
  BY CoreFields DEF PSR
<1> QED
  BY <1>1 DEF FlagC, Bit

(* get_bit gives a bit.                                                    *)
LEMMA GetBitType == ASSUME NEW x \in Int, NEW i \in Nat PROVE get_bit(x, i) \in Bit
<1>1. 2^i \in Int
  BY Powers
<1> HIDE DEF get_bit
<1>2. (x \div 2^i) % 2 \in 0 .. 1
  BY <1>1
<1> QED
  BY <1>2 DEF get_bit, Bit

(* A quotient and a correction, cut to the width of a word.                *)
LEMMA QuotientType ==
  /\ \A x, d, c \in Int : ((x \div d) + c) % WordSize \in Word
  /\ \A x, d \in Int : (x \div d) % WordSize \in Word
<1>1. WordSize \in Nat \ {0}
  BY Sizes
<1> HIDE DEF WordSize
<1> QED
  BY <1>1, SMT DEF Word

(* The shifts of util.c.                                                   *)
LEMMA AsrType == ASSUME NEW v \in Word, NEW n \in 0 .. WordBits PROVE asr(v, n) \in Word
<1> DEFINE c == IF Sign(v) = 1 THEN WordSize - 2^(WordBits - n) ELSE 0
<1>1. n \in Nat /\ WordBits - n \in Nat
  BY WidthAssumption
<1>2. 2^n \in Int /\ 2^(WordBits - n) \in Int
  BY <1>1, Powers
<1>3. c \in Int
  BY <1>2, WordInt
<1> HIDE DEF c
<1>4. ((v \div 2^n) + c) % WordSize \in Word
  BY <1>2, <1>3, QuotientType, WordInt
<1> QED
  BY <1>4 DEF asr, c

(* ror of util.c gives a word, for every count.                            *)
LEMMA RorType == ASSUME NEW v \in Word, NEW n \in Nat PROVE ror(v, n) \in Word
<1> DEFINE k == n % WordBits
           c == v * 2^(WordBits - k)
<1>1. k \in Nat /\ WordBits - k \in Nat
  BY WidthAssumption
<1> HIDE DEF k
<1>2. 2^k \in Int /\ 2^(WordBits - k) \in Int
  BY <1>1, Powers
<1>3. c \in Int
  BY <1>2, WordInt
<1>4. ror(v, n) = IF k = 0 THEN v ELSE ((v \div 2^k) + c) % WordSize
  BY DEF ror, k, c
<1> HIDE DEF c
<1>5. ((v \div 2^k) + c) % WordSize \in Word
  BY <1>2, <1>3, QuotientType, WordInt
<1> QED
  BY <1>4, <1>5

(* What comes out of the shifter. *)
ShifterResult == [value : Word, carry : Bit]

(* A value and a carry make a result of the shifter.                       *)
LEMMA ShiftedType ==
  ASSUME NEW v \in Int, NEW c \in Bit
  PROVE  Shifted(v, c) \in ShifterResult
<1>1. v % WordSize \in Word
  BY Wraps
<1> QED
  BY <1>1 DEF Shifted, ShifterResult

(* A quotient and a carry make a result of the shifter.                    *)
LEMMA QuotientShiftedType ==
  ASSUME NEW v \in Int, NEW d \in Int, NEW c \in Bit
  PROVE  Shifted(v \div d, c) \in ShifterResult
<1>1. (v \div d) % WordSize \in Word
  BY QuotientType
<1> QED
  BY <1>1 DEF Shifted, ShifterResult

(* A carry taken from a bit of the operand, or from the flag.              *)
LEMMA CarryType ==
  ASSUME NEW p \in Core, NEW op \in Word
  PROVE  /\ FlagC(p.cpsr) \in Bit /\ 0 \in Bit
         /\ Sign(op) \in Bit
         /\ \A i \in Nat : get_bit(op, i) \in Bit
<1>1. \A i \in Nat : get_bit(op, i) \in Bit
  BY GetBitType, WordInt
<1>2. WordBits - 1 \in Nat /\ 0 \in Bit
  BY WidthAssumption DEF Bit
<1> QED
  BY <1>1, <1>2, FlagCType DEF Sign

(* dp_lsl, dp_lsr, dp_asr and dp_ror_rrx give a word and a bit.            *)
LEMMA DpShiftsType ==
  ASSUME NEW p \in Core, NEW op \in Word, NEW n \in Nat
  PROVE  /\ dp_lsl(p, op, n) \in ShifterResult
         /\ dp_lsr(p, op, n) \in ShifterResult
         /\ dp_asr(p, op, n) \in ShifterResult
         /\ dp_ror_rrx(p, op, n) \in ShifterResult
<1>1. op \in Int /\ 2^n \in Int /\ 0 \in Int /\ WordSize - 1 \in Int
  BY Powers, WordInt
<1>2. /\ n < WordBits => WordBits - n \in Nat
      /\ n # 0 => n - 1 \in Nat
      /\ n % WordBits \in Nat /\ 0 \in Nat
      /\ n % WordBits # 0 => (n % WordBits) - 1 \in Nat
  BY WidthAssumption
<1>3. Shifted(op, FlagC(p.cpsr)) \in ShifterResult /\ Shifted(op, Sign(op)) \in ShifterResult
  BY <1>1, CarryType, ShiftedType
<1>4. dp_lsl(p, op, n) \in ShifterResult
  <2>1. op * 2^n \in Int
    BY <1>1
  <2>2. CASE n # 0 /\ n < WordBits
    BY <1>2, <2>1, <2>2, CarryType, ShiftedType DEF dp_lsl
  <2>3. CASE n # 0 /\ ~(n < WordBits)
    BY <1>1, <1>2, <2>3, CarryType, ShiftedType DEF dp_lsl
  <2> QED
    BY <1>3, <2>2, <2>3 DEF dp_lsl
<1>5. dp_lsr(p, op, n) \in ShifterResult
  <2>1. CASE n # 0 /\ n < WordBits
    BY <1>1, <1>2, <2>1, CarryType, QuotientShiftedType DEF dp_lsr
  <2>2. CASE n # 0 /\ ~(n < WordBits)
    BY <1>1, <2>2, CarryType, ShiftedType DEF dp_lsr
  <2> QED
    BY <1>3, <2>1, <2>2 DEF dp_lsr
<1>6. dp_asr(p, op, n) \in ShifterResult
  <2>1. CASE n # 0 /\ n < WordBits
    <3>1. n \in 0 .. WordBits
      BY <2>1, WidthAssumption
    <3>2. asr(op, n) \in Int
      BY <3>1, AsrType, WordInt
    <3> QED
      BY <1>2, <2>1, <3>2, CarryType, ShiftedType DEF dp_asr
  <2>2. CASE n # 0 /\ ~(n < WordBits)
    BY <1>1, <2>2, CarryType, ShiftedType DEF dp_asr
  <2> QED
    BY <1>3, <2>1, <2>2 DEF dp_asr
<1>7. dp_ror_rrx(p, op, n) \in ShifterResult
  <2>1. ror(op, n) \in Int
    BY RorType, WordInt
  <2>2. RRX(p, op) \in Int
    <3>1. FlagC(p.cpsr) \in Int
      BY FlagCType DEF Bit
    <3>2. WordSize \div 2 \in Int
      BY Sizes
    <3> QED
      BY <1>1, <3>1, <3>2 DEF RRX
  <2>3. CASE n = 0
    BY <1>2, <2>2, <2>3, CarryType, ShiftedType DEF dp_ror_rrx
  <2>4. CASE n # 0 /\ n % WordBits # 0
    BY <1>2, <2>1, <2>4, CarryType, ShiftedType DEF dp_ror_rrx
  <2> QED
    BY <1>3, <2>3, <2>4 DEF dp_ror_rrx
<1> QED
  BY <1>4, <1>5, <1>6, <1>7

(* Every operand of a data processing instruction.                         *)
LEMMA ShifterOperandType ==
  ASSUME NEW p \in Core, NEW ins, ins.rm \in 0 .. NoReg, ins.rs \in 0 .. NoReg,
         ins.amount \in Amount, ins.shift \in Shift, ins.imm \in 0 .. 255,
         ins.rotate \in Rotation
  PROVE  ShifterOperand(p, ins) \in ShifterResult
<1> DEFINE value == IF ins.rs = NoReg THEN ins.amount
                    ELSE arm_read_register(p, ins.rs) % 256
           op    == arm_read_register(p, ins.rm)
<1>1. CASE ins.rm = NoReg
  <2> DEFINE res == ror(ins.imm, 2 * ins.rotate)
  <2>1. ins.imm \in Word /\ 2 * ins.rotate \in Nat
    BY WordInt, WidthAssumption, Sizes DEF Word, Rotation
  <2>2. res \in Word
    BY <2>1, RorType
  <2> HIDE DEF res
  <2>3. res \in Int
    BY <2>2, WordInt
  <2>4. get_immediate(p, ins) \in ShifterResult
    BY <2>2, <2>3, CarryType, ShiftedType DEF get_immediate, res
  <2> QED
    BY <1>1, <2>4 DEF ShifterOperand
<1>2. CASE ins.rm # NoReg
  <2>1. op \in Word
    BY <1>2, ReadRegisterType DEF NoReg, RegNumber
  <2>2. value \in Nat
    <3>1. ins.amount \in Nat
      BY DEF Amount
    <3>2. ASSUME ins.rs # NoReg PROVE arm_read_register(p, ins.rs) % 256 \in Nat
      <4>1. arm_read_register(p, ins.rs) \in Nat
        BY <3>2, ReadRegisterType, WordInt DEF NoReg, RegNumber
      <4> HIDE DEF arm_read_register
      <4> QED
        BY <4>1
    <3> QED
      BY <3>1, <3>2
  <2> HIDE DEF value, op
  <2>3. Shifted(op, FlagC(p.cpsr)) \in ShifterResult
    BY <2>1, CarryType, ShiftedType, WordInt
  <2>4. get_shifted(p, ins) \in {Shifted(op, FlagC(p.cpsr)), dp_lsl(p, op, value),
          dp_lsr(p, op, value), dp_asr(p, op, value), dp_ror_rrx(p, op, value)}
    <3>1. ins.shift \in {LSL, LSR, ASR, ROR}
      BY DEF Shift, LSL, LSR, ASR, ROR
    <3> QED
      BY <3>1 DEF get_shifted, value, op, LSL, LSR, ASR, ROR
  <2> QED
    BY <1>2, <2>1, <2>2, <2>3, <2>4, DpShiftsType DEF ShifterOperand
<1> QED
  BY <1>1, <1>2

(* The register offset of a load or store.                                 *)
LEMMA ScaledShiftType ==
  ASSUME NEW p \in Core, NEW shift \in Shift, NEW n \in Amount, NEW v \in Word
  PROVE  scaled_shift(p, shift, n, v) \in Word
<1>1. n \in Nat /\ n \in 0 .. WordBits /\ WordBits - 1 \in Nat
  BY WidthAssumption DEF Amount
<1>2. 2^n \in Int /\ v \in Int /\ WordSize \div 2 \in Int
  BY <1>1, Powers, WordInt
<1>3. (v * 2^n) % WordSize \in Word
  <2>1. v * 2^n \in Int
    BY <1>2
  <2> QED
    BY <2>1, Wraps
<1>4. (v \div 2^n) % WordSize \in Word
  <2>1. Shifted(v \div 2^n, 0) \in ShifterResult
    BY <1>2, QuotientShiftedType, CarryType
  <2> QED
    BY <2>1 DEF Shifted, ShifterResult
<1>5. RRX(p, v) % WordSize \in Word
  <2>1. FlagC(p.cpsr) \in Int
    BY FlagCType DEF Bit
  <2>2. RRX(p, v) \in Int
    BY <1>2, <2>1 DEF RRX
  <2> QED
    BY <2>2, Wraps
<1>6. asr(v, n) \in Word /\ ror(v, n) \in Word /\ 0 \in Word /\ WordSize - 1 \in Word
  BY <1>1, AsrType, RorType, WordInt
<1>7. shift \in {LSL, LSR, ASR, ROR}
  BY DEF Shift, LSL, LSR, ASR, ROR
<1> QED
  BY <1>3, <1>4, <1>5, <1>6, <1>7 DEF scaled_shift, LSL, LSR, ASR, ROR

-----------------------------------------------------------------------------
(* Data processing *)

(* The sum of eight integers, cut to a byte, is a byte. *)
LEMMA SumType ==
  ASSUME NEW a, NEW b, NEW c, NEW d, NEW e, NEW f, NEW g, NEW h,
         a \in Int, b \in Int, c \in Int, d \in Int,
         e \in Int, f \in Int, g \in Int, h \in Int
  PROVE  (a + b + c + d + e + f + g + h) % ByteSize \in Byte
<1>1. a + b + c + d + e + f + g + h \in Int
  OBVIOUS
<1> QED
  BY <1>1, WrapsByte

(* The bitwise operations give a word.                                     *)
LEMMA GateType ==
  ASSUME NEW x \in Word, NEW y \in Word
  PROVE  /\ WordGate(BitAnd, x, y) \in Word /\ WordGate(BitEor, x, y) \in Word
         /\ WordGate(BitOrr, x, y) \in Word /\ WordGate(BitBic, x, y) \in Word
<1>1. \A a, b \in Bit : BitAnd(a, b) \in Int /\ BitEor(a, b) \in Int
                        /\ BitOrr(a, b) \in Int /\ BitBic(a, b) \in Int
  BY DEF Bit, BitAnd, BitEor, BitOrr, BitBic
<1>2. ASSUME NEW u \in Byte, NEW v \in Byte
      PROVE  /\ ByteGate(BitAnd, u, v) \in Byte /\ ByteGate(BitEor, u, v) \in Byte
             /\ ByteGate(BitOrr, u, v) \in Byte /\ ByteGate(BitBic, u, v) \in Byte
  <2>1. \A i \in Nat : get_bit(u, i) \in Bit /\ get_bit(v, i) \in Bit
    BY GetBitType, Sizes DEF Byte
  <2>2. \A i \in Nat : 2^i \in Int
    BY Powers
  <2>3. \A i \in Nat : /\ BitAnd(get_bit(u, i), get_bit(v, i)) * 2^i \in Int
                       /\ BitEor(get_bit(u, i), get_bit(v, i)) * 2^i \in Int
                       /\ BitOrr(get_bit(u, i), get_bit(v, i)) * 2^i \in Int
                       /\ BitBic(get_bit(u, i), get_bit(v, i)) * 2^i \in Int
    <3> TAKE i \in Nat
    <3>1. \A a \in Int : a * 2^i \in Int
      BY <2>2
    <3> QED
      BY <1>1, <2>1, <3>1
  <2>4. ByteGate(BitAnd, u, v) \in Byte
    <3> DEFINE bit(i) == BitAnd(get_bit(u, i), get_bit(v, i)) * 2^i
    <3>1. /\ bit(0) \in Int /\ bit(1) \in Int /\ bit(2) \in Int /\ bit(3) \in Int
          /\ bit(4) \in Int /\ bit(5) \in Int /\ bit(6) \in Int /\ bit(7) \in Int
      BY <2>3
    <3>2. ByteGate(BitAnd, u, v) =
            (bit(0) + bit(1) + bit(2) + bit(3) + bit(4) + bit(5) + bit(6) + bit(7))
              % ByteSize
      BY DEF ByteGate
    <3> HIDE DEF bit
    <3> QED
      BY <3>1, <3>2, SumType
  <2>5. ByteGate(BitEor, u, v) \in Byte
    <3> DEFINE bit(i) == BitEor(get_bit(u, i), get_bit(v, i)) * 2^i
    <3>1. /\ bit(0) \in Int /\ bit(1) \in Int /\ bit(2) \in Int /\ bit(3) \in Int
          /\ bit(4) \in Int /\ bit(5) \in Int /\ bit(6) \in Int /\ bit(7) \in Int
      BY <2>3
    <3>2. ByteGate(BitEor, u, v) =
            (bit(0) + bit(1) + bit(2) + bit(3) + bit(4) + bit(5) + bit(6) + bit(7))
              % ByteSize
      BY DEF ByteGate
    <3> HIDE DEF bit
    <3> QED
      BY <3>1, <3>2, SumType
  <2>6. ByteGate(BitOrr, u, v) \in Byte
    <3> DEFINE bit(i) == BitOrr(get_bit(u, i), get_bit(v, i)) * 2^i
    <3>1. /\ bit(0) \in Int /\ bit(1) \in Int /\ bit(2) \in Int /\ bit(3) \in Int
          /\ bit(4) \in Int /\ bit(5) \in Int /\ bit(6) \in Int /\ bit(7) \in Int
      BY <2>3
    <3>2. ByteGate(BitOrr, u, v) =
            (bit(0) + bit(1) + bit(2) + bit(3) + bit(4) + bit(5) + bit(6) + bit(7))
              % ByteSize
      BY DEF ByteGate
    <3> HIDE DEF bit
    <3> QED
      BY <3>1, <3>2, SumType
  <2>7. ByteGate(BitBic, u, v) \in Byte
    <3> DEFINE bit(i) == BitBic(get_bit(u, i), get_bit(v, i)) * 2^i
    <3>1. /\ bit(0) \in Int /\ bit(1) \in Int /\ bit(2) \in Int /\ bit(3) \in Int
          /\ bit(4) \in Int /\ bit(5) \in Int /\ bit(6) \in Int /\ bit(7) \in Int
      BY <2>3
    <3>2. ByteGate(BitBic, u, v) =
            (bit(0) + bit(1) + bit(2) + bit(3) + bit(4) + bit(5) + bit(6) + bit(7))
              % ByteSize
      BY DEF ByteGate
    <3> HIDE DEF bit
    <3> QED
      BY <3>1, <3>2, SumType
  <2> QED
    BY <2>4, <2>5, <2>6, <2>7
<1>3. \A i \in 0 .. 3 : ByteOf(x, i) \in Byte /\ ByteOf(y, i) \in Byte
  BY ByteOfType, WordInt
<1> QED
  BY <1>2, <1>3, WordOfType DEF WordGate

(* All sixteen operations give a word.                                     *)
LEMMA ResultType ==
  ASSUME NEW p \in Core, NEW code \in Codes, NEW op1 \in Word, NEW op2 \in Word
  PROVE  dp_result(p.cpsr, code, op1, op2) \in Word
<1> DEFINE c == FlagC(p.cpsr)
<1>1. op1 \in Int /\ op2 \in Int /\ c \in Int
  BY WordInt, FlagCType DEF Bit
<1>2. WordSize - 1 - op2 \in Word
  BY WordInt, Sizes DEF Word
<1> HIDE DEF c
<1>3. /\ (op1 - op2) % WordSize \in Word /\ (op2 - op1) % WordSize \in Word
      /\ (op1 + op2) % WordSize \in Word /\ (op1 + op2 + c) % WordSize \in Word
      /\ (op1 - op2 - (1 - c)) % WordSize \in Word
      /\ (op2 - op1 - (1 - c)) % WordSize \in Word
  BY <1>1, Wraps
<1> QED
  BY <1>2, <1>3, GateType DEF dp_result, Codes, Logical, c

(* The four flags fit in four bits.                                        *)
LEMMA FlagsType ==
  ASSUME NEW psr, NEW code, NEW op1, NEW op2, NEW res, NEW carry
  PROVE  dp_flags(psr, code, op1, op2, res, carry) \in 0 .. 15
<1> DEFINE n == IF Negative(res) THEN 8 ELSE 0
           z == IF res = 0 THEN 4 ELSE 0
           c == IF dp_carry(psr, code, op1, op2, carry) THEN 2 ELSE 0
           v == IF dp_overflow(psr, code, op1, op2, res) THEN 1 ELSE 0
<1>1. n \in {0, 8} /\ z \in {0, 4} /\ c \in {0, 2} /\ v \in {0, 1}
  OBVIOUS
<1>2. dp_flags(psr, code, op1, op2, res, carry) = n + z + c + v
  BY DEF dp_flags
<1> HIDE DEF n, z, c, v
<1> QED
  BY <1>1, <1>2
=============================================================================
