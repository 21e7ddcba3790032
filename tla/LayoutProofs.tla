----------------------------- MODULE LayoutProofs -----------------------------
(***************************************************************************)
(* Lemmas about the operators of Layout, for every packet: what a loop of  *)
(* the code computes, by induction on the number of its rounds, the        *)
(* arithmetic of the checksums, and what writes leave in a vector.         *)
(***************************************************************************)
EXTENDS Layout, SequenceTheorems, WellFoundedInduction, TLAPS

-----------------------------------------------------------------------------
(* Induction, and the loops. *)

\* A set of numbers that holds 0, and with every number the next, holds them all.
LEMMA NatSets ==
    ASSUME NEW T \in SUBSET Nat, 0 \in T, \A n \in T : n + 1 \in T
    PROVE  T = Nat
<1> DEFINE R == OpToRel(<, Nat)
<1>1. \A i, j \in Nat : i < j => <<i, j>> \in R
  BY DEF OpToRel
<1>2. IsWellFoundedOn(R, Nat)
  BY NatLessThanWellFounded
<1> HIDE DEF R
<1>3. SUFFICES ASSUME Nat \ T # {} PROVE FALSE
  OBVIOUS
<1>4. PICK x \in Nat \ T : \A y \in Nat \ T : ~(<<y, x>> \in R)
  BY <1>2, <1>3, WFMin
<1>5. x # 0 /\ x - 1 \in Nat /\ x - 1 < x
  BY <1>4
<1>6. x - 1 \in T
  BY <1>1, <1>4, <1>5
<1>7. (x - 1) + 1 \in T
  BY <1>6
<1> QED
  BY <1>4, <1>5, <1>7

\* The byte, and the word, that calculateChecksum reads.
ByteAt(data, past, i) == IF i \in DOMAIN data THEN data[i] ELSE past
SumStep(data, past, g, i) ==
    IF i = 0 THEN 0
    ELSE g[i - 1] + ByteAt(data, past, 2 * i - 1) * Byte + ByteAt(data, past, 2 * i)

\* There is a function that keeps the sum of calculateChecksum after each round.
LEMMA SumsExist ==
    ASSUME NEW data, NEW past, NEW n \in Nat
    PROVE  \E g : g = [i \in 0..n |-> SumStep(data, past, g, i)]
<1> DEFINE T == {k \in Nat : \E g : g = [i \in 0..k |-> SumStep(data, past, g, i)]}
<1>1. 0 \in T
  <2> DEFINE g == [i \in 0..0 |-> 0]
  <2>1. g = [i \in 0..0 |-> SumStep(data, past, g, i)]
    BY DEF SumStep
  <2> QED
    BY <2>1
<1>2. ASSUME NEW k \in T PROVE k + 1 \in T
  <2>1. PICK g : g = [i \in 0..k |-> SumStep(data, past, g, i)]
    OBVIOUS
  <2> DEFINE h == [i \in 0..(k + 1) |-> IF i \in 0..k THEN g[i] ELSE SumStep(data, past, g, i)]
  <2>2. ASSUME NEW i \in 0..(k + 1) PROVE h[i] = SumStep(data, past, h, i)
    <3>1. h[i] = SumStep(data, past, g, i)
      BY <2>1
    <3>2. i # 0 => i - 1 \in 0..k /\ i - 1 \in 0..(k + 1)
      OBVIOUS
    <3>3. i # 0 => h[i - 1] = g[i - 1]
      BY <3>2
    <3> QED
      BY <3>1, <3>3 DEF SumStep
  <2>3. h = [i \in 0..(k + 1) |-> SumStep(data, past, h, i)]
    BY <2>2
  <2> HIDE DEF h
  <2>4. \E f : f = [i \in 0..(k + 1) |-> SumStep(data, past, f, i)]
    BY <2>3
  <2> QED
    BY <2>4
<1>3. T = Nat
  BY <1>1, <1>2, NatSets
<1> QED
  BY <1>3

\* Numbers of Layout, as numbers.
LEMMA Values == Byte = 256 /\ Word = 65536 /\ Ones = 65535 /\ Bytes = 0..255
BY DEF Byte, Word, Ones, Bytes

\* What a byte and a word are.
LEMMA Sizes ==
    /\ \A x \in Bytes : x \in Nat /\ x <= 255
    /\ \A x \in Nat : x <= 255 => x \in Bytes
    /\ \A x \in 0..Ones : x \in Nat /\ x <= 65535
    /\ \A x \in Nat : x <= 65535 => x \in 0..Ones
<1>1. \A x \in Bytes : x \in Nat /\ x <= 255
  BY Values
<1>2. \A x \in Nat : x <= 255 => x \in Bytes
  BY Values
<1>3. Ones \in Nat /\ \A x \in Nat : x <= 65535 => x <= Ones
  BY Values
<1>4. ASSUME NEW x \in Nat, x <= Ones PROVE x \in 0..Ones
  BY <1>3, <1>4
<1>5. \A x \in Nat : x <= 65535 => x \in 0..Ones
  BY <1>3, <1>4
<1>6. \A x \in 0..Ones : x \in Nat /\ x <= 65535
  BY Values
<1> QED
  BY <1>1, <1>2, <1>5, <1>6

\* The same of the numbers themselves, for steps about numbers up to Ones.
LEMMA OnesIn == Byte = 256 /\ Ones \in Nat /\ 0 \in 0..Ones /\ Ones \in 0..Ones
<1>1. Byte = 256 /\ Ones \in Nat /\ 0 <= Ones
  BY Values
<1> QED
  BY <1>1

\* A product with Ones.
LEMMA OnesTimes == \A k \in Nat : k * Ones = k * 65535
BY Values

\* The number of rounds.
Rounds(data) == (Len(data) + 1) \div 2

\* What calculateChecksum has summed after each round, and in the end.
LEMMA WordSumIs ==
    ASSUME NEW data \in Seq(Bytes), NEW past \in Bytes
    PROVE  /\ Rounds(data) \in Nat
           /\ \E g : /\ g[0] = 0
                     /\ \A i \in 1..Rounds(data) :
                           g[i] = g[i - 1] + ByteAt(data, past, 2 * i - 1) * Byte
                                    + ByteAt(data, past, 2 * i)
                     /\ \A i \in 0..Rounds(data) : g[i] \in Nat /\ g[i] <= i * Ones
                     /\ WordSum(data, past) = g[Rounds(data)]
<1> DEFINE n == Rounds(data)
<1>1. Len(data) \in Nat /\ DOMAIN data = 1..Len(data) /\ \A i \in DOMAIN data : data[i] \in Bytes
  BY LenProperties
<1>2. n \in Nat
  BY <1>1 DEF Rounds
<1> DEFINE g == CHOOSE g : g = [i \in 0..n |-> SumStep(data, past, g, i)]
<1>3. g = [i \in 0..n |-> SumStep(data, past, g, i)]
  BY <1>2, SumsExist
<1>4. WordSum(data, past) = g[n]
  BY DEF WordSum, SumStep, ByteAt, Rounds
<1> HIDE DEF g, n
<1>5. g[0] = 0
  BY <1>2, <1>3 DEF SumStep
<1>6. ASSUME NEW i \in 1..n
      PROVE  g[i] = g[i - 1] + ByteAt(data, past, 2 * i - 1) * Byte + ByteAt(data, past, 2 * i)
  BY <1>2, <1>3 DEF SumStep
<1>7. \A i \in Int : ByteAt(data, past, i) \in 0..255
  <2> SUFFICES ASSUME NEW i \in Int PROVE ByteAt(data, past, i) \in Bytes
    BY Values
  <2> QED
    BY <1>1 DEF ByteAt
<1> DEFINE T == {k \in Nat : k <= n => g[k] \in Nat /\ g[k] <= k * Ones}
<1>8. 0 \in T
  BY Values, <1>5
<1>9. ASSUME NEW k \in T PROVE k + 1 \in T
  <2> SUFFICES ASSUME k + 1 <= n PROVE g[k + 1] \in Nat /\ g[k + 1] <= (k + 1) * Ones
    OBVIOUS
  <2>1. g[k] \in Nat /\ g[k] <= k * Ones
    BY <1>2
  <2> DEFINE hi == ByteAt(data, past, 2 * (k + 1) - 1)
             lo == ByteAt(data, past, 2 * (k + 1))
  <2>2. hi \in 0..255 /\ lo \in 0..255
    BY <1>7
  <2>3. k + 1 \in 1..n /\ (k + 1) - 1 = k
    BY <1>2
  <2>4. g[k + 1] = g[k] + hi * Byte + lo
    BY <1>6, <2>3
  <2> HIDE DEF hi, lo
  <2>5. hi \in Nat /\ lo \in Nat /\ hi <= 255 /\ lo <= 255
    BY <2>2
  <2>6. g[k] \in Nat /\ g[k] <= k * 65535 /\ g[k + 1] = g[k] + (hi * 256 + lo)
    BY Values, <2>1, <2>4, <2>5
  <2>7. g[k + 1] \in Nat /\ g[k + 1] <= (k + 1) * 65535
    BY <2>5, <2>6
  <2> QED
    BY Values, <2>7
<1>10. T = Nat
  BY <1>8, <1>9, NatSets
<1>11. \A i \in 0..n : g[i] \in Nat /\ g[i] <= i * Ones
  BY <1>2, <1>10
<1> QED
  BY <1>2, <1>4, <1>5, <1>6, <1>11 DEF n

-----------------------------------------------------------------------------
(* Sequences. *)

\* What lies where when one sequence follows another.
LEMMA Cat ==
    ASSUME NEW S, NEW a \in Seq(S), NEW b \in Seq(S)
    PROVE  /\ a \o b \in Seq(S)
           /\ Len(a \o b) = Len(a) + Len(b)
           /\ DOMAIN (a \o b) = 1..(Len(a) + Len(b))
           /\ \A i \in 1..Len(a) : (a \o b)[i] = a[i]
           /\ \A i \in 1..Len(b) : (a \o b)[Len(a) + i] = b[i]
<1>1. Len(a) \in Nat /\ Len(b) \in Nat
  BY LenProperties
<1>2. /\ a \o b \in Seq(S) /\ Len(a \o b) = Len(a) + Len(b)
      /\ \A i \in 1..(Len(a) + Len(b)) :
            (a \o b)[i] = IF i <= Len(a) THEN a[i] ELSE b[i - Len(a)]
  BY ConcatProperties
<1>3. DOMAIN (a \o b) = 1..(Len(a) + Len(b))
  BY <1>2, LenProperties
<1>4. ASSUME NEW i \in 1..Len(b) PROVE (a \o b)[Len(a) + i] = b[i]
  <2>1. /\ Len(a) + i \in 1..(Len(a) + Len(b)) /\ ~(Len(a) + i <= Len(a))
        /\ (Len(a) + i) - Len(a) = i
    BY <1>1
  <2> QED
    BY <1>2, <2>1
<1> QED
  BY <1>1, <1>2, <1>3, <1>4

\* The same, as one function: what it is at a place is seen by looking there.
Glue(a, b) == [k \in 1..(Len(a) + Len(b)) |-> IF k <= Len(a) THEN a[k] ELSE b[k - Len(a)]]

\* One sequence after another is that function.
LEMMA CatIs ==
    ASSUME NEW S, NEW a \in Seq(S), NEW b \in Seq(S)
    PROVE  a \o b \in Seq(S) /\ Len(a \o b) = Len(a) + Len(b) /\ a \o b = Glue(a, b)
<1>1. /\ a \o b \in Seq(S) /\ Len(a \o b) = Len(a) + Len(b)
      /\ \A i \in 1..(Len(a) + Len(b)) :
            (a \o b)[i] = IF i <= Len(a) THEN a[i] ELSE b[i - Len(a)]
  BY ConcatProperties
<1>2. a \o b \in [1..Len(a \o b) -> S]
  BY <1>1, LenProperties
<1>3. a \o b = [k \in 1..Len(a \o b) |-> (a \o b)[k]]
  BY <1>2
<1> QED
  BY <1>1, <1>3 DEF Glue

\* Bytes of a given number.
Fields(n) == {b \in Seq(Bytes) : Len(b) = n}

\* A field is a function on its places.
LEMMA FieldDomain ==
    ASSUME NEW n \in Nat, NEW b \in Fields(n)
    PROVE  DOMAIN b = 1..n /\ b \in Seq(Bytes) /\ Len(b) = n
BY LenProperties DEF Fields

\* Its places hold bytes.
LEMMA FieldBytes ==
    ASSUME NEW n \in Nat, NEW b \in Fields(n)
    PROVE  \A k \in 1..n : b[k] \in Bytes
BY FieldDomain, ElementOfSeq

\* Bytes at these places are one.
LEMMA FieldOf ==
    ASSUME NEW n \in Nat, NEW f \in [1..n -> Bytes]
    PROVE  f \in Fields(n)
<1>1. f \in Seq(Bytes)
  BY SeqDef
<1>2. Len(f) = n
  BY <1>1, LenProperties
<1> QED
  BY <1>1, <1>2 DEF Fields

\* The sum of words of a packet is that of its parts, if the first is of whole words.
LEMMA WordSumConcat ==
    ASSUME NEW a \in Seq(Bytes), NEW b \in Seq(Bytes), NEW m \in Nat, Len(a) = 2 * m,
           NEW past \in Bytes
    PROVE  WordSum(a \o b, past) = WordSum(a, past) + WordSum(b, past)
<1> DEFINE s == a \o b
           n == Rounds(b)
<1>1. /\ s \in Seq(Bytes) /\ Len(s) = 2 * m + Len(b) /\ Len(b) \in Nat
      /\ DOMAIN s = 1..(2 * m + Len(b)) /\ DOMAIN a = 1..(2 * m) /\ DOMAIN b = 1..Len(b)
      /\ \A i \in 1..(2 * m) : s[i] = a[i]
      /\ \A i \in 1..Len(b) : s[2 * m + i] = b[i]
  <2>1. Len(b) \in Nat /\ DOMAIN a = 1..(2 * m) /\ DOMAIN b = 1..Len(b)
    BY LenProperties
  <2>2. s \in Seq(Bytes) /\ Len(s) = Len(a) + Len(b)
    BY Cat
  <2>3. DOMAIN s = 1..(Len(a) + Len(b))
    BY Cat
  <2>4. \A i \in 1..Len(a) : s[i] = a[i]
    BY Cat
  <2>5. \A i \in 1..Len(b) : s[Len(a) + i] = b[i]
    BY Cat
  <2> HIDE DEF s
  <2> QED
    BY <2>1, <2>2, <2>3, <2>4, <2>5
<1> HIDE DEF s
<1>2. n \in Nat /\ Rounds(a) = m /\ Rounds(s) = m + n
  <2>1. PICK l \in Nat : l = Len(b)
    BY <1>1
  <2>2. (2 * m + 1) \div 2 = m /\ (2 * m + l + 1) \div 2 = m + (l + 1) \div 2
        /\ (l + 1) \div 2 \in Nat
    OBVIOUS
  <2> QED
    BY <1>1, <2>1, <2>2 DEF Rounds
<1> HIDE DEF n
<1>3. PICK f : /\ f[0] = 0
               /\ \A i \in 1..(m + n) : f[i] = f[i - 1] + ByteAt(s, past, 2 * i - 1) * Byte
                                                 + ByteAt(s, past, 2 * i)
               /\ WordSum(s, past) = f[m + n]
  <2>1. PICK f : /\ f[0] = 0
                 /\ \A i \in 1..Rounds(s) : f[i] = f[i - 1] + ByteAt(s, past, 2 * i - 1) * Byte
                                                     + ByteAt(s, past, 2 * i)
                 /\ WordSum(s, past) = f[Rounds(s)]
    BY <1>1, WordSumIs
  <2> QED
    BY <1>2, <2>1
<1>4. PICK fa : /\ fa[0] = 0
                /\ \A i \in 1..m : fa[i] = fa[i - 1] + ByteAt(a, past, 2 * i - 1) * Byte
                                             + ByteAt(a, past, 2 * i)
                /\ \A i \in 0..m : fa[i] \in Nat /\ fa[i] <= i * Ones
                /\ WordSum(a, past) = fa[m]
  BY <1>2, WordSumIs
<1>5. PICK fb : /\ fb[0] = 0
                /\ \A i \in 1..n : fb[i] = fb[i - 1] + ByteAt(b, past, 2 * i - 1) * Byte
                                             + ByteAt(b, past, 2 * i)
                /\ \A i \in 0..n : fb[i] \in Nat /\ fb[i] <= i * Ones
                /\ WordSum(b, past) = fb[n]
  BY <1>2, WordSumIs DEF n
<1>6. \A i \in 1..(2 * m) : ByteAt(s, past, i) = ByteAt(a, past, i)
  BY <1>1 DEF ByteAt
<1>7. ASSUME NEW i \in Nat \ {0} PROVE ByteAt(s, past, 2 * m + i) = ByteAt(b, past, i)
  <2>1. CASE i <= Len(b)
    BY <1>1, <2>1 DEF ByteAt
  <2>2. CASE ~(i <= Len(b))
    <3>1. i \notin DOMAIN b /\ 2 * m + i \notin DOMAIN s
      BY <1>1, <2>2
    <3> QED
      BY <3>1 DEF ByteAt
  <2> QED
    BY <2>1, <2>2
<1>8. \A k \in Nat : k <= m => f[k] = fa[k]
  <2> DEFINE T == {k \in Nat : k <= m => f[k] = fa[k]}
  <2>1. 0 \in T
    BY <1>3, <1>4
  <2>2. ASSUME NEW k \in T PROVE k + 1 \in T
    <3> SUFFICES ASSUME k + 1 <= m PROVE f[k + 1] = fa[k + 1]
      OBVIOUS
    <3>1. /\ k + 1 \in 1..(m + n) /\ k + 1 \in 1..m /\ (k + 1) - 1 = k /\ f[k] = fa[k]
          /\ 2 * (k + 1) - 1 \in 1..(2 * m) /\ 2 * (k + 1) \in 1..(2 * m)
      BY <1>2
    <3>2. f[k + 1] = f[k] + ByteAt(s, past, 2 * (k + 1) - 1) * Byte + ByteAt(s, past, 2 * (k + 1))
      BY <1>3, <3>1
    <3>3. fa[k + 1] = fa[k] + ByteAt(a, past, 2 * (k + 1) - 1) * Byte
                       + ByteAt(a, past, 2 * (k + 1))
      BY <1>4, <3>1
    <3> QED
      BY <1>6, <3>1, <3>2, <3>3
  <2>3. T = Nat
    BY <2>1, <2>2, NatSets
  <2> QED
    BY <2>3
<1>9. \A k \in Nat : k <= n => f[m + k] = fa[m] + fb[k]
  <2> DEFINE T == {k \in Nat : k <= n => f[m + k] = fa[m] + fb[k]}
  <2>1. 0 \in T
    <3>1. f[m] = fa[m] /\ fa[m] \in Nat /\ fb[0] = 0 /\ m + 0 = m
      BY <1>4, <1>5, <1>8
    <3> QED
      BY <3>1
  <2>2. ASSUME NEW k \in T PROVE k + 1 \in T
    <3> SUFFICES ASSUME k + 1 <= n PROVE f[m + (k + 1)] = fa[m] + fb[k + 1]
      OBVIOUS
    <3>1. /\ m + (k + 1) \in 1..(m + n) /\ k + 1 \in 1..n /\ (k + 1) - 1 = k
          /\ (m + (k + 1)) - 1 = m + k /\ f[m + k] = fa[m] + fb[k]
          /\ 2 * (m + (k + 1)) - 1 = 2 * m + (2 * (k + 1) - 1)
          /\ 2 * (m + (k + 1)) = 2 * m + 2 * (k + 1)
          /\ 2 * (k + 1) - 1 \in Nat \ {0} /\ 2 * (k + 1) \in Nat \ {0}
      BY <1>2
    <3> DEFINE hi == ByteAt(b, past, 2 * (k + 1) - 1)
               lo == ByteAt(b, past, 2 * (k + 1))
    <3>2. f[m + (k + 1)] = f[m + k] + hi * Byte + lo
      BY <1>3, <1>7, <3>1
    <3>3. fb[k + 1] = fb[k] + hi * Byte + lo
      BY <1>5, <3>1
    <3>4. hi \in Bytes /\ lo \in Bytes
      BY <1>1, ElementOfSeq DEF ByteAt
    <3>5. fa[m] \in Nat /\ fb[k] \in Nat
      <4>1. k \in 0..n /\ m \in 0..m
        BY <1>2
      <4> QED
        BY <1>4, <1>5, <4>1
    <3> HIDE DEF hi, lo
    <3>6. hi \in Nat /\ lo \in Nat
      BY <3>4, Values
    <3> QED
      BY <3>1, <3>2, <3>3, <3>5, <3>6, Values
  <2>3. T = Nat
    BY <2>1, <2>2, NatSets
  <2> QED
    BY <2>3
<1>10. f[m + n] = fa[m] + fb[n]
  BY <1>2, <1>9
<1> QED
  BY <1>3, <1>4, <1>5, <1>10 DEF s

\* A sum is a number, of as many words at most as there were rounds.
LEMMA WordSumBound ==
    ASSUME NEW data \in Seq(Bytes), NEW past \in Bytes
    PROVE  WordSum(data, past) \in Nat /\ WordSum(data, past) <= Rounds(data) * Ones
<1>1. Rounds(data) \in Nat /\ Rounds(data) \in 0..Rounds(data)
  BY WordSumIs
<1> QED
  BY <1>1, WordSumIs

\* The two bytes of a number.
LEMMA Halves ==
    ASSUME NEW w \in 0..Ones
    PROVE  /\ w \div Byte \in Bytes /\ w % Byte \in Bytes
           /\ (w \div Byte) * Byte + (w % Byte) = w
<1>1. w \in Nat /\ w <= 65535
  BY Values
<1>2. w \div 256 \in 0..255 /\ w % 256 \in 0..255 /\ (w \div 256) * 256 + (w % 256) = w
  BY <1>1
<1> QED
  BY <1>2, Values

\* The number of two bytes.
LEMMA Joined ==
    ASSUME NEW x \in Bytes, NEW y \in Bytes
    PROVE  /\ x * Byte + y \in 0..Ones
           /\ (x * Byte + y) \div Byte = x /\ (x * Byte + y) % Byte = y
<1>1. x \in Nat /\ y \in Nat /\ x <= 255 /\ y <= 255
  BY Values
<1>2. /\ x * 256 + y \in Nat /\ x * 256 + y <= 65535
      /\ (x * 256 + y) \div 256 = x /\ (x * 256 + y) % 256 = y
  BY <1>1
<1>3. x * Byte + y = x * 256 + y
  BY Values
<1>4. x * Byte + y \in 0..Ones
  BY <1>2, <1>3, Sizes
<1>5. (x * Byte + y) \div Byte = x /\ (x * Byte + y) % Byte = y
  BY <1>2, Values
<1> QED
  BY <1>4, <1>5

\* What writeUint16 writes.
LEMMA Bytes16Is ==
    ASSUME NEW w \in 0..Ones
    PROVE  /\ Bytes16(w) \in Seq(Bytes) /\ Len(Bytes16(w)) = 2
           /\ DOMAIN Bytes16(w) = 1..2
           /\ Bytes16(w)[1] = w \div Byte /\ Bytes16(w)[2] = w % Byte
BY Halves DEF Bytes16

\* An address, a std::uint32_t.
Addresses == (0..Ones) \X (0..Ones)

\* The bytes of an address (writeUint32).
LEMMA Bytes32Is ==
    ASSUME NEW addr \in Addresses
    PROVE  /\ Bytes32(addr) = Bytes16(addr[1]) \o Bytes16(addr[2])
           /\ Bytes32(addr) \in Seq(Bytes) /\ Len(Bytes32(addr)) = 4
           /\ DOMAIN Bytes32(addr) = 1..4
           /\ Bytes32(addr)[1] = addr[1] \div Byte /\ Bytes32(addr)[2] = addr[1] % Byte
           /\ Bytes32(addr)[3] = addr[2] \div Byte /\ Bytes32(addr)[4] = addr[2] % Byte
<1> DEFINE h == Bytes16(addr[1])
           l == Bytes16(addr[2])
<1>1. addr[1] \in 0..Ones /\ addr[2] \in 0..Ones
  BY DEF Addresses
<1>2. /\ h \in Seq(Bytes) /\ Len(h) = 2 /\ h[1] = addr[1] \div Byte /\ h[2] = addr[1] % Byte
      /\ l \in Seq(Bytes) /\ Len(l) = 2 /\ l[1] = addr[2] \div Byte /\ l[2] = addr[2] % Byte
  BY <1>1, Bytes16Is
<1> HIDE DEF h, l
<1>3. h \o l \in Seq(Bytes) /\ Len(h \o l) = Len(h) + Len(l) /\ h \o l = Glue(h, l)
  BY <1>2, CatIs
<1>4. h \o l = [k \in 1..4 |-> IF k <= 2 THEN h[k] ELSE l[k - 2]] /\ Len(h \o l) = 4
  BY <1>2, <1>3 DEF Glue
<1>5. DOMAIN (h \o l) = 1..4 /\ (h \o l)[1] = h[1] /\ (h \o l)[2] = h[2]
      /\ (h \o l)[3] = l[1] /\ (h \o l)[4] = l[2]
  BY <1>4
<1>6. Bytes32(addr) = h \o l
  BY DEF Bytes32, h, l
<1> QED
  BY <1>2, <1>3, <1>4, <1>5, <1>6 DEF h, l

\* The sum of one word.
LEMMA WordSumPair ==
    ASSUME NEW data \in Seq(Bytes), Len(data) = 2, NEW past \in Bytes
    PROVE  WordSum(data, past) = data[1] * Byte + data[2]
<1>1. DOMAIN data = 1..2 /\ data[1] \in Bytes /\ data[2] \in Bytes
  <2>1. DOMAIN data = 1..Len(data)
    BY LenProperties
  <2> QED
    BY <2>1, ElementOfSeq
<1>2. Rounds(data) = 1
  BY DEF Rounds
<1>3. PICK g : /\ g[0] = 0
               /\ \A i \in 1..1 : g[i] = g[i - 1] + ByteAt(data, past, 2 * i - 1) * Byte
                                           + ByteAt(data, past, 2 * i)
               /\ WordSum(data, past) = g[1]
  BY <1>2, WordSumIs
<1>4. ByteAt(data, past, 1) = data[1] /\ ByteAt(data, past, 2) = data[2]
  BY <1>1 DEF ByteAt
<1>5. g[1] = 0 + data[1] * Byte + data[2]
  BY <1>3, <1>4
<1>6. data[1] \in Nat /\ data[2] \in Nat
  BY <1>1, Sizes
<1>7. data[1] * Byte + data[2] = 0 + data[1] * Byte + data[2]
  BY <1>6, Values
<1> QED
  BY <1>3, <1>5, <1>7

-----------------------------------------------------------------------------
(* Reads and writes, of a packet seen as its parts one after the other. *)

\* Concatenation is associative.
LEMMA CatAssociative ==
    ASSUME NEW a \in Seq(Bytes), NEW b \in Seq(Bytes), NEW c \in Seq(Bytes)
    PROVE  (a \o b) \o c = a \o (b \o c)
<1>1. Len(a) \in Nat /\ Len(b) \in Nat /\ Len(c) \in Nat
  BY LenProperties
<1>2. a \o b \in Seq(Bytes) /\ Len(a \o b) = Len(a) + Len(b) /\ a \o b = Glue(a, b)
  BY CatIs
<1>3. b \o c \in Seq(Bytes) /\ Len(b \o c) = Len(b) + Len(c) /\ b \o c = Glue(b, c)
  BY CatIs
<1> DEFINE ab == a \o b
           bc == b \o c
<1>4. ab \o c = Glue(ab, c)
  BY <1>2, CatIs
<1>5. a \o bc = Glue(a, bc)
  BY <1>3, CatIs
<1>6. Len(ab) = Len(a) + Len(b) /\ ab = Glue(a, b) /\ Len(bc) = Len(b) + Len(c)
      /\ bc = Glue(b, c)
  BY <1>2, <1>3
<1> HIDE DEF ab, bc
<1>7. Glue(ab, c) = Glue(a, bc)
  BY <1>1, <1>6 DEF Glue
<1> QED
  BY <1>4, <1>5, <1>7 DEF ab, bc

\* Nothing before or after changes nothing.
LEMMA CatEmpty ==
    ASSUME NEW a \in Seq(Bytes)
    PROVE  a \o <<>> = a /\ <<>> \o a = a
BY ConcatEmptySeq

\* Zeros are bytes.
LEMMA ZerosAre ==
    ASSUME NEW n \in Nat
    PROVE  /\ Zeros(n) \in Seq(Bytes) /\ Len(Zeros(n)) = n /\ DOMAIN Zeros(n) = 1..n
           /\ \A i \in 1..n : Zeros(n)[i] = 0
<1>1. 0 \in Bytes
  BY Values
<1>2. Zeros(n) \in Seq(Bytes)
  BY <1>1 DEF Zeros
<1> QED
  BY <1>2 DEF Zeros

\* What lies where in three parts.
LEMMA ThreeParts ==
    ASSUME NEW a \in Seq(Bytes), NEW b \in Seq(Bytes), NEW c \in Seq(Bytes)
    PROVE  /\ a \o b \o c \in Seq(Bytes)
           /\ Len(a \o b \o c) = Len(a) + Len(b) + Len(c)
           /\ a \o b \o c =
                [k \in 1..(Len(a) + Len(b) + Len(c)) |->
                    IF k <= Len(a) THEN a[k]
                    ELSE IF k <= Len(a) + Len(b) THEN b[k - Len(a)]
                    ELSE c[k - (Len(a) + Len(b))]]
<1>1. Len(a) \in Nat /\ Len(b) \in Nat /\ Len(c) \in Nat
  BY LenProperties
<1> DEFINE ab == a \o b
<1>2. ab \in Seq(Bytes) /\ Len(ab) = Len(a) + Len(b) /\ ab = Glue(a, b)
  BY CatIs
<1> HIDE DEF ab
<1>3. ab \o c \in Seq(Bytes) /\ Len(ab \o c) = Len(ab) + Len(c) /\ ab \o c = Glue(ab, c)
  BY <1>2, CatIs
<1>4. Glue(ab, c) = [k \in 1..(Len(a) + Len(b) + Len(c)) |->
                       IF k <= Len(a) THEN a[k]
                       ELSE IF k <= Len(a) + Len(b) THEN b[k - Len(a)]
                       ELSE c[k - (Len(a) + Len(b))]]
  BY <1>1, <1>2 DEF Glue
<1> QED
  BY <1>2, <1>3, <1>4 DEF ab

\* A write replaces the part it is over.
LEMMA WriteOver ==
    ASSUME NEW n \in Nat, NEW a \in Seq(Bytes), NEW b \in Fields(n), NEW c \in Seq(Bytes),
           NEW d \in Fields(n)
    PROVE  Write(a \o b \o c, Len(a), d) = a \o d \o c
<1>0. b \in Seq(Bytes) /\ d \in Seq(Bytes) /\ Len(d) = Len(b)
  BY DEF Fields
<1> USE <1>0
<1>1. Len(a) \in Nat /\ Len(b) \in Nat /\ Len(c) \in Nat /\ DOMAIN d = 1..Len(d)
  BY LenProperties
<1> DEFINE s == a \o b \o c
           t == a \o d \o c
<1>2. s = [k \in 1..(Len(a) + Len(b) + Len(c)) |->
             IF k <= Len(a) THEN a[k]
             ELSE IF k <= Len(a) + Len(b) THEN b[k - Len(a)]
             ELSE c[k - (Len(a) + Len(b))]]
  BY ThreeParts
<1>3. t = [k \in 1..(Len(a) + Len(d) + Len(c)) |->
             IF k <= Len(a) THEN a[k]
             ELSE IF k <= Len(a) + Len(d) THEN d[k - Len(a)]
             ELSE c[k - (Len(a) + Len(d))]]
  BY ThreeParts
<1> HIDE DEF s, t
<1>4. Write(s, Len(a), d) = t
  BY <1>1, <1>2, <1>3 DEF Write
<1> QED
  BY <1>4 DEF s, t

\* A part is read where it lies.
LEMMA VectorPart ==
    ASSUME NEW a \in Seq(Bytes), NEW b \in Seq(Bytes), NEW c \in Seq(Bytes)
    PROVE  Vector(a \o b \o c, Len(a), Len(b)) = b
<1>1. Len(a) \in Nat /\ Len(b) \in Nat /\ Len(c) \in Nat
  BY LenProperties
<1>2. b = [k \in 1..Len(b) |-> b[k]]
  BY LenProperties
<1> DEFINE s == a \o b \o c
<1>3. s = [k \in 1..(Len(a) + Len(b) + Len(c)) |->
             IF k <= Len(a) THEN a[k]
             ELSE IF k <= Len(a) + Len(b) THEN b[k - Len(a)]
             ELSE c[k - (Len(a) + Len(b))]]
      /\ s \in Seq(Bytes) /\ Len(s) = Len(a) + Len(b) + Len(c)
  BY ThreeParts
<1> HIDE DEF s
<1>4. SubSeq(s, Len(a) + 1, Len(a) + Len(b)) = [k \in 1..Len(b) |-> s[Len(a) + k]]
  BY <1>1, <1>3
<1>5. [k \in 1..Len(b) |-> s[Len(a) + k]] = [k \in 1..Len(b) |-> b[k]]
  BY <1>1, <1>3
<1> QED
  BY <1>2, <1>4, <1>5 DEF Vector, s

\* The same where nothing follows.
LEMMA WriteEnd ==
    ASSUME NEW a \in Seq(Bytes), NEW b \in Seq(Bytes), NEW d \in Seq(Bytes), Len(d) = Len(b)
    PROVE  Write(a \o b, Len(a), d) = a \o d
<1>1. Len(a) \in Nat /\ Len(b) \in Nat /\ DOMAIN d = 1..Len(d)
  BY LenProperties
<1> DEFINE s == a \o b
           t == a \o d
<1>2. s = Glue(a, b)
  BY CatIs
<1>3. t = Glue(a, d)
  BY CatIs
<1> HIDE DEF s, t
<1>4. Write(s, Len(a), d) = t
  BY <1>1, <1>2, <1>3 DEF Write, Glue
<1> QED
  BY <1>4 DEF s, t

\* The first and the second of two parts.
LEMMA VectorHalves ==
    ASSUME NEW a \in Seq(Bytes), NEW b \in Seq(Bytes)
    PROVE  Vector(a \o b, 0, Len(a)) = a /\ Vector(a \o b, Len(a), Len(b)) = b
<1> DEFINE e == <<>>
<1>0. e \in Seq(Bytes)
  OBVIOUS
<1>1. e = <<>>
  OBVIOUS
<1> HIDE DEF e
<1>2. Vector(a \o b \o e, Len(a), Len(b)) = b
  BY <1>0, VectorPart
<1>3. a \o b \in Seq(Bytes)
  BY Cat
<1>4. a \o b \o <<>> = a \o b /\ <<>> \o a = a
  BY <1>3, CatEmpty
<1>5. Vector(e \o a \o b, Len(e), Len(a)) = a
  BY <1>0, VectorPart
<1> QED
  BY <1>1, <1>2, <1>4, <1>5

\* What resize leaves.
LEMMA ResizeIs ==
    ASSUME NEW a \in Seq(Bytes), NEW n \in Nat
    PROVE  /\ Resize(a, n) \in Seq(Bytes) /\ Len(Resize(a, n)) = n
           /\ n >= Len(a) => Resize(a, n) = a \o Zeros(n - Len(a))
<1>1. Len(a) \in Nat /\ DOMAIN a = 1..Len(a) /\ \A i \in 1..Len(a) : a[i] \in Bytes
  BY LenProperties, ElementOfSeq
<1>2. Resize(a, n) \in Seq(Bytes) /\ Len(Resize(a, n)) = n
  BY <1>1, Values DEF Resize
<1>3. ASSUME n >= Len(a) PROVE Resize(a, n) = a \o Zeros(n - Len(a))
  <2> DEFINE z == Zeros(n - Len(a))
  <2>1. n - Len(a) \in Nat
    BY <1>1, <1>3
  <2>2. z \in Seq(Bytes) /\ Len(z) = n - Len(a) /\ \A i \in 1..(n - Len(a)) : z[i] = 0
    BY <2>1, ZerosAre
  <2> HIDE DEF z
  <2>3. a \o z = Glue(a, z)
    BY <2>2, CatIs
  <2>4. Glue(a, z) = Resize(a, n)
    BY <1>1, <1>3, <2>2 DEF Glue, Resize
  <2> QED
    BY <2>3, <2>4 DEF z
<1> QED
  BY <1>2, <1>3

\* A number of an address, shifted in from the right.
Shift(a, w) ==
    <<(a[1] * Byte + a[2] \div Byte) % Word, (a[2] % Byte) * Byte + w>>

\* One round of WriteAll or of Ipv4strToUint32, and the rounds up to the last place in s:
\* FoldLeft folds over the set of the places in its list.
Round(writing, d, w) == IF writing THEN Write(d, w[1], w[2]) ELSE Shift(d, w)
FoldStep(writing, d, w, g, s) ==
    IF s = {} THEN d ELSE Round(writing, g[s \ {Max(s)}], w[Max(s)])

\* The last place of a set.
LEMMA MaxOf ==
   ASSUME NEW s \in SUBSET Nat, NEW n \in s, \A m \in s : m <= n
   PROVE Max(s) = n
<1>1. \E x \in s : \A y \in s : x >= y
  OBVIOUS
<1>2. Max(s) \in s /\ \A y \in s : Max(s) >= y
  BY <1>1 DEF Max
<1>3. Max(s) \in Nat /\ n \in Nat /\ Max(s) <= n /\ Max(s) >= n
  BY <1>2
<1> QED
  BY <1>3

\* There is a function that keeps what WriteAll has written after each write.
LEMMA FoldsExist ==
    ASSUME NEW writing \in BOOLEAN, NEW d, NEW w, NEW n \in Nat
    PROVE  \E g : g = [s \in SUBSET (1..n) |-> FoldStep(writing, d, w, g, s)]
<1> DEFINE Sets(k) == SUBSET (1..k)
           T == {k \in Nat : \E g : g = [s \in Sets(k) |-> FoldStep(writing, d, w, g, s)]}
<1>1. 0 \in T
  <2> DEFINE g == [s \in Sets(0) |-> d]
  <2>1. \A s \in Sets(0) : s = {}
    OBVIOUS
  <2>2. g = [s \in Sets(0) |-> FoldStep(writing, d, w, g, s)]
    BY <2>1 DEF FoldStep
  <2> QED
    BY <2>2
<1>2. ASSUME NEW k \in T PROVE k + 1 \in T
  <2>1. PICK g : g = [s \in Sets(k) |-> FoldStep(writing, d, w, g, s)]
    OBVIOUS
  <2> DEFINE h == [s \in Sets(k + 1) |->
                     IF s \in Sets(k) THEN g[s]
                     ELSE Round(writing, g[s \ {k + 1}], w[k + 1])]
  <2>2. ASSUME NEW s \in Sets(k + 1) PROVE h[s] = FoldStep(writing, d, w, h, s)
    <3>1. CASE s \in Sets(k)
      <4>1. h[s] = g[s] /\ s \ {Max(s)} \in Sets(k) /\ s \ {Max(s)} \in Sets(k + 1)
        BY <3>1
      <4>2. h[s \ {Max(s)}] = g[s \ {Max(s)}]
        BY <4>1
      <4>3. g[s] = FoldStep(writing, d, w, g, s)
        BY <2>1, <3>1
      <4> QED
        BY <4>1, <4>2, <4>3 DEF FoldStep
    <3>2. CASE s \notin Sets(k)
      <4>1. k + 1 \in s
        BY <3>2
      <4>2. Max(s) = k + 1
        BY <4>1, MaxOf
      <4>3. s \ {k + 1} \in Sets(k) /\ s \ {k + 1} \in Sets(k + 1) /\ s # {}
        BY <4>1
      <4>4. h[s \ {k + 1}] = g[s \ {k + 1}]
        BY <4>3
      <4>5. h[s] = Round(writing, g[s \ {k + 1}], w[k + 1])
        BY <3>2
      <4> QED
        BY <4>2, <4>3, <4>4, <4>5 DEF FoldStep
    <3> QED
      BY <3>1, <3>2
  <2>3. h = [s \in Sets(k + 1) |-> FoldStep(writing, d, w, h, s)]
    BY <2>2
  <2> HIDE DEF h
  <2>4. \E f : f = [s \in Sets(k + 1) |-> FoldStep(writing, d, w, f, s)]
    BY <2>3
  <2>5. k + 1 \in Nat
    OBVIOUS
  <2> QED
    BY <2>4, <2>5
<1>3. T = Nat
  BY <1>1, <1>2, NatSets
<1> QED
  BY <1>3

\* WriteAll writes one after the other.
LEMMA WriteAllIs ==
    ASSUME NEW d, NEW w, NEW n \in Nat, DOMAIN w = 1..n
    PROVE  \E g : /\ g[{}] = d
                  /\ \A k \in 1..n : g[1..k] = Write(g[1..(k - 1)], w[k][1], w[k][2])
                  /\ WriteAll(d, w) = g[1..n]
<1> DEFINE g == CHOOSE g : g = [s \in SUBSET (1..n) |-> FoldStep(TRUE, d, w, g, s)]
<1>1. g = [s \in SUBSET (1..n) |-> FoldStep(TRUE, d, w, g, s)]
  BY FoldsExist
<1>2. WriteAll(d, w) = g[1..n]
  BY DEF WriteAll, FoldLeft, MapThenFoldSet, FoldStep, Round
<1> HIDE DEF g
<1>3. g[{}] = d
  BY <1>1 DEF FoldStep
<1>4. ASSUME NEW k \in 1..n PROVE g[1..k] = Write(g[1..(k - 1)], w[k][1], w[k][2])
  <2>1. 1..k \in SUBSET (1..n) /\ 1..k # {} /\ (1..k) \ {k} = 1..(k - 1)
    OBVIOUS
  <2>2. Max(1..k) = k
    BY MaxOf
  <2> QED
    BY <1>1, <2>1, <2>2 DEF FoldStep, Round
<1> QED
  BY <1>2, <1>3, <1>4

\* Ipv4strToUint32 shifts in one number after the other.
LEMMA ShiftsAre ==
    ASSUME NEW w, NEW n \in Nat, DOMAIN w = 1..n
    PROVE  \E g : /\ g[{}] = <<0, 0>>
                  /\ \A k \in 1..n : g[1..k] = Shift(g[1..(k - 1)], w[k])
                  /\ Ipv4strToUint32(w) = g[1..n]
<1> DEFINE g == CHOOSE g : g = [s \in SUBSET (1..n) |-> FoldStep(FALSE, <<0, 0>>, w, g, s)]
<1>1. g = [s \in SUBSET (1..n) |-> FoldStep(FALSE, <<0, 0>>, w, g, s)]
  BY FoldsExist
<1>2. Ipv4strToUint32(w) = g[1..n]
  BY DEF Ipv4strToUint32, FoldLeft, MapThenFoldSet, FoldStep, Round, Shift
<1> HIDE DEF g
<1>3. g[{}] = <<0, 0>>
  BY <1>1 DEF FoldStep
<1>4. ASSUME NEW k \in 1..n PROVE g[1..k] = Shift(g[1..(k - 1)], w[k])
  <2>1. 1..k \in SUBSET (1..n) /\ 1..k # {} /\ (1..k) \ {k} = 1..(k - 1)
    OBVIOUS
  <2>2. Max(1..k) = k
    BY MaxOf
  <2> QED
    BY <1>1, <2>1, <2>2 DEF FoldStep, Round
<1> QED
  BY <1>2, <1>3, <1>4

\* Four numbers make an address.
LEMMA AddressIs ==
    ASSUME NEW b1 \in Bytes, NEW b2 \in Bytes, NEW b3 \in Bytes, NEW b4 \in Bytes
    PROVE  Ipv4strToUint32(<<b1, b2, b3, b4>>) = <<b1 * Byte + b2, b3 * Byte + b4>>
<1> DEFINE w == <<b1, b2, b3, b4>>
<1>1. DOMAIN w = 1..4 /\ w[1] = b1 /\ w[2] = b2 /\ w[3] = b3 /\ w[4] = b4
  OBVIOUS
<1> HIDE DEF w
<1>2. PICK n \in Nat : n = 4
  OBVIOUS
<1>3. DOMAIN w = 1..n
  BY <1>1, <1>2
<1>4. PICK g : /\ g[{}] = <<0, 0>>
               /\ \A k \in 1..n : g[1..k] = Shift(g[1..(k - 1)], w[k])
               /\ Ipv4strToUint32(w) = g[1..n]
  BY <1>3, ShiftsAre
<1>5. 1..0 = {}
  OBVIOUS
<1>6. /\ b1 \in Nat /\ b2 \in Nat /\ b3 \in Nat /\ b4 \in Nat
      /\ b1 <= 255 /\ b2 <= 255 /\ b3 <= 255 /\ b4 <= 255
  BY Sizes
<1>7. g[1..1] = <<0, b1>>
  <2>1. g[1..1] = Shift(<<0, 0>>, b1)
    BY <1>1, <1>2, <1>4, <1>5
  <2> QED
    BY <1>6, <2>1, Values DEF Shift
<1>8. g[1..2] = <<0, b1 * 256 + b2>>
  <2>1. g[1..2] = Shift(<<0, b1>>, b2)
    BY <1>1, <1>2, <1>4, <1>7
  <2> QED
    BY <1>6, <2>1, Values DEF Shift
<1>9. g[1..3] = <<b1, b2 * 256 + b3>>
  <2>1. g[1..3] = Shift(<<0, b1 * 256 + b2>>, b3)
    BY <1>1, <1>2, <1>4, <1>8
  <2> QED
    BY <1>6, <2>1, Values DEF Shift
<1>10. g[1..4] = <<b1 * 256 + b2, b3 * 256 + b4>>
  <2>1. g[1..4] = Shift(<<b1, b2 * 256 + b3>>, b4)
    BY <1>1, <1>2, <1>4, <1>9
  <2> QED
    BY <1>6, <2>1, Values DEF Shift
<1> QED
  BY <1>2, <1>4, <1>10, Values DEF w

\* Two writes, and so on.
LEMMA WriteAll2 ==
    ASSUME NEW d, NEW o1, NEW b1, NEW o2, NEW b2
    PROVE  WriteAll(d, <<<<o1, b1>>, <<o2, b2>>>>) =
             Write(Write(d, o1, b1), o2, b2)
<1> DEFINE w == <<<<o1, b1>>, <<o2, b2>>>>
<1>1. DOMAIN w = 1..2 /\ w[1] = <<o1, b1>> /\ w[2] = <<o2, b2>>
  OBVIOUS
<1> HIDE DEF w
<1>2. PICK n \in Nat : n = 2
  OBVIOUS
<1>3. DOMAIN w = 1..n
  BY <1>1, <1>2
<1>4. PICK g : /\ g[{}] = d
               /\ \A k \in 1..n : g[1..k] = Write(g[1..(k - 1)], w[k][1], w[k][2])
               /\ WriteAll(d, w) = g[1..n]
  BY <1>3, WriteAllIs
<1>5. 1..0 = {}
  OBVIOUS
<1>6. g[1..1] = Write(g[1..0], o1, b1)
  BY <1>1, <1>2, <1>4
<1>7. g[1..2] = Write(g[1..1], o2, b2)
  BY <1>1, <1>2, <1>4
<1> QED
  BY <1>2, <1>4, <1>5, <1>6, <1>7 DEF w

\* Three writes.
LEMMA WriteAll3 ==
    ASSUME NEW d, NEW o1, NEW b1, NEW o2, NEW b2, NEW o3, NEW b3
    PROVE  WriteAll(d, <<<<o1, b1>>, <<o2, b2>>, <<o3, b3>>>>) =
             Write(Write(Write(d, o1, b1), o2, b2), o3, b3)
<1> DEFINE w == <<<<o1, b1>>, <<o2, b2>>, <<o3, b3>>>>
<1>1. DOMAIN w = 1..3 /\ w[1] = <<o1, b1>> /\ w[2] = <<o2, b2>> /\ w[3] = <<o3, b3>>
  OBVIOUS
<1> HIDE DEF w
<1>2. PICK n \in Nat : n = 3
  OBVIOUS
<1>3. DOMAIN w = 1..n
  BY <1>1, <1>2
<1>4. PICK g : /\ g[{}] = d
               /\ \A k \in 1..n : g[1..k] = Write(g[1..(k - 1)], w[k][1], w[k][2])
               /\ WriteAll(d, w) = g[1..n]
  BY <1>3, WriteAllIs
<1>5. 1..0 = {}
  OBVIOUS
<1>6. g[1..1] = Write(g[1..0], o1, b1)
  BY <1>1, <1>2, <1>4
<1>7. g[1..2] = Write(g[1..1], o2, b2)
  BY <1>1, <1>2, <1>4
<1>8. g[1..3] = Write(g[1..2], o3, b3)
  BY <1>1, <1>2, <1>4
<1> QED
  BY <1>2, <1>4, <1>5, <1>6, <1>7, <1>8 DEF w

\* Four writes.
LEMMA WriteAll4 ==
    ASSUME NEW d, NEW o1, NEW b1, NEW o2, NEW b2, NEW o3, NEW b3, NEW o4, NEW b4
    PROVE  WriteAll(d, <<<<o1, b1>>, <<o2, b2>>, <<o3, b3>>, <<o4, b4>>>>) =
             Write(Write(Write(Write(d, o1, b1), o2, b2), o3, b3), o4, b4)
<1> DEFINE w == <<<<o1, b1>>, <<o2, b2>>, <<o3, b3>>, <<o4, b4>>>>
<1>1. DOMAIN w = 1..4 /\ w[1] = <<o1, b1>> /\ w[2] = <<o2, b2>> /\ w[3] = <<o3, b3>> /\ w[4] = <<o4, b4>>
  OBVIOUS
<1> HIDE DEF w
<1>2. PICK n \in Nat : n = 4
  OBVIOUS
<1>3. DOMAIN w = 1..n
  BY <1>1, <1>2
<1>4. PICK g : /\ g[{}] = d
               /\ \A k \in 1..n : g[1..k] = Write(g[1..(k - 1)], w[k][1], w[k][2])
               /\ WriteAll(d, w) = g[1..n]
  BY <1>3, WriteAllIs
<1>5. 1..0 = {}
  OBVIOUS
<1>6. g[1..1] = Write(g[1..0], o1, b1)
  BY <1>1, <1>2, <1>4
<1>7. g[1..2] = Write(g[1..1], o2, b2)
  BY <1>1, <1>2, <1>4
<1>8. g[1..3] = Write(g[1..2], o3, b3)
  BY <1>1, <1>2, <1>4
<1>9. g[1..4] = Write(g[1..3], o4, b4)
  BY <1>1, <1>2, <1>4
<1> QED
  BY <1>2, <1>4, <1>5, <1>6, <1>7, <1>8, <1>9 DEF w

\* Five writes.
LEMMA WriteAll5 ==
    ASSUME NEW d, NEW o1, NEW b1, NEW o2, NEW b2, NEW o3, NEW b3, NEW o4, NEW b4, NEW o5, NEW b5
    PROVE  WriteAll(d, <<<<o1, b1>>, <<o2, b2>>, <<o3, b3>>, <<o4, b4>>, <<o5, b5>>>>) =
             Write(Write(Write(Write(Write(d, o1, b1), o2, b2), o3, b3), o4, b4), o5, b5)
<1> DEFINE w == <<<<o1, b1>>, <<o2, b2>>, <<o3, b3>>, <<o4, b4>>, <<o5, b5>>>>
<1>1. DOMAIN w = 1..5 /\ w[1] = <<o1, b1>> /\ w[2] = <<o2, b2>> /\ w[3] = <<o3, b3>> /\ w[4] = <<o4, b4>> /\ w[5] = <<o5, b5>>
  OBVIOUS
<1> HIDE DEF w
<1>2. PICK n \in Nat : n = 5
  OBVIOUS
<1>3. DOMAIN w = 1..n
  BY <1>1, <1>2
<1>4. PICK g : /\ g[{}] = d
               /\ \A k \in 1..n : g[1..k] = Write(g[1..(k - 1)], w[k][1], w[k][2])
               /\ WriteAll(d, w) = g[1..n]
  BY <1>3, WriteAllIs
<1>5. 1..0 = {}
  OBVIOUS
<1>6. g[1..1] = Write(g[1..0], o1, b1)
  BY <1>1, <1>2, <1>4
<1>7. g[1..2] = Write(g[1..1], o2, b2)
  BY <1>1, <1>2, <1>4
<1>8. g[1..3] = Write(g[1..2], o3, b3)
  BY <1>1, <1>2, <1>4
<1>9. g[1..4] = Write(g[1..3], o4, b4)
  BY <1>1, <1>2, <1>4
<1>10. g[1..5] = Write(g[1..4], o5, b5)
  BY <1>1, <1>2, <1>4
<1> QED
  BY <1>2, <1>4, <1>5, <1>6, <1>7, <1>8, <1>9, <1>10 DEF w

\* Nine writes.
LEMMA WriteAll9 ==
    ASSUME NEW d, NEW o1, NEW b1, NEW o2, NEW b2, NEW o3, NEW b3, NEW o4, NEW b4, NEW o5, NEW b5,
           NEW o6, NEW b6, NEW o7, NEW b7, NEW o8, NEW b8, NEW o9, NEW b9
    PROVE  WriteAll(d, <<<<o1, b1>>, <<o2, b2>>, <<o3, b3>>, <<o4, b4>>,
                           <<o5, b5>>, <<o6, b6>>, <<o7, b7>>, <<o8, b8>>,
                           <<o9, b9>>>>) =
             Write(Write(Write(Write(Write(Write(Write(Write(Write(d, o1, b1), o2, b2),
               o3, b3), o4, b4), o5, b5), o6, b6), o7, b7), o8, b8), o9, b9)
<1> DEFINE w == <<<<o1, b1>>, <<o2, b2>>, <<o3, b3>>, <<o4, b4>>,
                           <<o5, b5>>, <<o6, b6>>, <<o7, b7>>, <<o8, b8>>,
                           <<o9, b9>>>>
<1>1. DOMAIN w = 1..9 /\ w[1] = <<o1, b1>> /\ w[2] = <<o2, b2>>
      /\ w[3] = <<o3, b3>> /\ w[4] = <<o4, b4>> /\ w[5] = <<o5, b5>>
      /\ w[6] = <<o6, b6>> /\ w[7] = <<o7, b7>>
      /\ w[8] = <<o8, b8>> /\ w[9] = <<o9, b9>>
  OBVIOUS
<1> HIDE DEF w
<1>2. PICK n \in Nat : n = 9
  OBVIOUS
<1>3. DOMAIN w = 1..n
  BY <1>1, <1>2
<1>4. PICK g : /\ g[{}] = d
               /\ \A k \in 1..n : g[1..k] = Write(g[1..(k - 1)], w[k][1], w[k][2])
               /\ WriteAll(d, w) = g[1..n]
  BY <1>3, WriteAllIs
<1>5. 1..0 = {}
  OBVIOUS
<1>6. g[1..1] = Write(g[1..0], o1, b1)
  BY <1>1, <1>2, <1>4
<1>7. g[1..2] = Write(g[1..1], o2, b2)
  BY <1>1, <1>2, <1>4
<1>8. g[1..3] = Write(g[1..2], o3, b3)
  BY <1>1, <1>2, <1>4
<1>9. g[1..4] = Write(g[1..3], o4, b4)
  BY <1>1, <1>2, <1>4
<1>10. g[1..5] = Write(g[1..4], o5, b5)
  BY <1>1, <1>2, <1>4
<1>11. g[1..6] = Write(g[1..5], o6, b6)
  BY <1>1, <1>2, <1>4
<1>12. g[1..7] = Write(g[1..6], o7, b7)
  BY <1>1, <1>2, <1>4
<1>13. g[1..8] = Write(g[1..7], o8, b8)
  BY <1>1, <1>2, <1>4
<1>14. g[1..9] = Write(g[1..8], o9, b9)
  BY <1>1, <1>2, <1>4
<1> QED
  BY <1>2, <1>4, <1>5, <1>6, <1>7, <1>8, <1>9, <1>10, <1>11, <1>12, <1>13, <1>14 DEF w

-----------------------------------------------------------------------------
(* The arithmetic of the checksums. *)

\* A fold is a std::uint16_t.
LEMMA FoldRange == \A s \in Nat : Fold(s) \in 0..Ones
<1> SUFFICES ASSUME NEW s \in Nat PROVE Fold(s) \in 0..Ones
  OBVIOUS
<1>1. PICK x \in Nat : x = s + (s \div 65536)
  OBVIOUS
<1>2. x % 65536 \in Nat /\ x % 65536 <= 65535
  OBVIOUS
<1>3. Fold(s) = x % 65536
  BY <1>1, Values DEF Fold
<1> QED
  BY <1>2, <1>3, Sizes

\* A sum that is zero in one's complement arithmetic folds to 0xFFFF, however many
\* carries it has: this is what the receivers of a packet check.
LEMMA FoldMultiple == \A q \in 1..Word : Fold(q * Ones) = Ones
<1> SUFFICES ASSUME NEW q \in 1..Word PROVE Fold(q * Ones) = Ones
  OBVIOUS
<1>1. q \in Nat /\ q >= 1 /\ q <= 65536
  BY Values
<1>2. (q * 65535 + ((q * 65535) \div 65536)) % 65536 = 65535
  BY <1>1
<1> QED
  BY <1>2, Values DEF Fold

\* A sum that loses no carry folds to itself in one's complement arithmetic.
LEMMA FoldRegular ==
    ASSUME NEW s \in Nat \ {0}, FoldsOnce(s)
    PROVE  Fold(s) = ((s - 1) % Ones) + 1
<1>1. (s % 65536) + (s \div 65536) < 65536
  BY Values DEF FoldsOnce
<1>2. (s + (s \div 65536)) % 65536 = ((s - 1) % 65535) + 1
  BY <1>1
<1> QED
  BY <1>2, Values DEF Fold

-----------------------------------------------------------------------------
(* The packets of the code, as their parts one after the other. *)

\* The header of a frame.
LEMMA EtherHeaderIs ==
    ASSUME NEW dst \in Fields(6), NEW src \in Fields(6), NEW t \in Fields(2)
    PROVE  WriteAll(Zeros(14), <<<<0, dst>>, <<6, src>>, <<12, t>>>>) = dst \o src \o t
<1>0. /\ dst \in Seq(Bytes) /\ Len(dst) = 6
      /\ src \in Seq(Bytes) /\ Len(src) = 6
      /\ t \in Seq(Bytes) /\ Len(t) = 2
  BY DEF Fields
<1> USE <1>0
<1>1. DOMAIN dst = 1..6 /\ DOMAIN src = 1..6 /\ DOMAIN t = 1..2
  BY LenProperties
<1>2. WriteAll(Zeros(14), <<<<0, dst>>, <<6, src>>, <<12, t>>>>)
        = Write(Write(Write(Zeros(14), 0, dst), 6, src), 12, t)
  BY WriteAll3
<1>3. dst \o src \o t =
        [k \in 1..(Len(dst) + Len(src) + Len(t)) |->
            IF k <= Len(dst) THEN dst[k]
            ELSE IF k <= Len(dst) + Len(src) THEN src[k - Len(dst)]
            ELSE t[k - (Len(dst) + Len(src))]]
  BY ThreeParts
<1>4. Write(Write(Write(Zeros(14), 0, dst), 6, src), 12, t)
        = [k \in 1..14 |-> IF k <= 6 THEN dst[k] ELSE IF k <= 12 THEN src[k - 6] ELSE t[k - 12]]
  BY <1>1 DEF Write, Zeros
<1>5. dst \o src \o t
        = [k \in 1..14 |-> IF k <= 6 THEN dst[k] ELSE IF k <= 12 THEN src[k - 6] ELSE t[k - 12]]
  BY <1>3
<1> QED
  BY <1>2, <1>4, <1>5

\* The pseudo header of a UDP checksum.
LEMMA PseudoHeaderIs ==
    ASSUME NEW src \in Addresses, NEW dst \in Addresses, NEW l \in 0..Ones
    PROVE  PseudoHeader(src, dst, l)
             = Bytes32(src) \o Bytes32(dst) \o <<0, 17>> \o Bytes16(l)
<1> DEFINE s == Bytes32(src)
           d == Bytes32(dst)
           u == <<0, 17>>
           w == Bytes16(l)
           sd == s \o d
           sdu == sd \o u
           all == sdu \o w
<1>1. s \in Seq(Bytes) /\ Len(s) = 4 /\ DOMAIN s = 1..4
  BY Bytes32Is
<1>2. d \in Seq(Bytes) /\ Len(d) = 4 /\ DOMAIN d = 1..4
  BY Bytes32Is
<1>3. u \in Seq(Bytes) /\ Len(u) = 2 /\ u[1] = 0 /\ u[2] = 17
  BY Values
<1>4. w \in Seq(Bytes) /\ Len(w) = 2 /\ DOMAIN w = 1..2
  BY Bytes16Is
<1>5. PseudoHeader(src, dst, l)
        = Write(Write(Write(Write(Zeros(12), 0, s), 4, d), 9, <<17>>), 10, w)
  BY WriteAll4 DEF PseudoHeader, UDP_TYPE
<1>6. Write(Write(Write(Write(Zeros(12), 0, s), 4, d), 9, <<17>>), 10, w)
        = [k \in 1..12 |-> IF k <= 4 THEN s[k] ELSE IF k <= 8 THEN d[k - 4]
                           ELSE IF k = 9 THEN 0 ELSE IF k = 10 THEN 17 ELSE w[k - 10]]
  <2> HIDE DEF s, d, w
  <2> QED
    BY <1>1, <1>2, <1>4 DEF Write, Zeros
<1> HIDE DEF s, d, u, w
<1>7. sd \in Seq(Bytes) /\ Len(sd) = Len(s) + Len(d) /\ sd = Glue(s, d)
  BY <1>1, <1>2, CatIs
<1> HIDE DEF sd
<1>8. sdu \in Seq(Bytes) /\ Len(sdu) = Len(sd) + Len(u) /\ sdu = Glue(sd, u)
  BY <1>7, <1>3, CatIs
<1> HIDE DEF sdu
<1>9. all = Glue(sdu, w)
  BY <1>8, <1>4, CatIs
<1> HIDE DEF all
<1>10. all = [k \in 1..12 |-> IF k <= 4 THEN s[k] ELSE IF k <= 8 THEN d[k - 4]
                           ELSE IF k = 9 THEN 0 ELSE IF k = 10 THEN 17 ELSE w[k - 10]]
  BY <1>1, <1>2, <1>3, <1>4, <1>7, <1>8, <1>9 DEF Glue
<1> QED
  BY <1>5, <1>6, <1>10 DEF all, sdu, sd, s, d, u, w

\* A frame is filled up with zeros to the shortest there is.
Filled(bytes) == bytes \o [i \in 1..(FrameMinSize - Len(bytes)) |-> 0]

\* So is the frame of the program: its header, the body, zeros (EtherFrame.h).
LEMMA EtherFrameIs ==
    ASSUME NEW dst \in Fields(6), NEW src \in Fields(6), NEW type \in 0..Ones, NEW body \in Seq(Bytes)
    PROVE  LET bytes == dst \o src \o Bytes16(type) \o body
           IN  /\ EtherFrame(dst, src, type, body) = Filled(bytes)
               /\ EtherFrame(dst, src, type, body) \in Seq(Bytes)
<1>1. /\ dst \in Seq(Bytes) /\ Len(dst) = 6
      /\ src \in Seq(Bytes) /\ Len(src) = 6
  BY DEF Fields
<1> USE <1>1
<1> DEFINE h == dst \o src \o Bytes16(type)
           bytes == h \o body
           n == Len(body)
<1>2. n \in Nat
  BY LenProperties
<1>3. h \in Seq(Bytes) /\ Len(h) = 14
  <2> DEFINE t == Bytes16(type)
  <2>1. t \in Seq(Bytes) /\ Len(t) = 2
    BY Bytes16Is
  <2> HIDE DEF t
  <2>2. dst \o src \o t \in Seq(Bytes) /\ Len(dst \o src \o t) = Len(dst) + Len(src) + Len(t)
    BY <2>1, ThreeParts
  <2> QED
    BY <2>1, <2>2 DEF t
<1>4. WriteAll(Zeros(14), <<<<0, dst>>, <<6, src>>, <<12, Bytes16(type)>>>>) = h
  BY Bytes16Is, EtherHeaderIs DEF Fields
<1>5. EtherFrame(dst, src, type, body) = SetBody(h, body)
  BY <1>4 DEF EtherFrame, EtherHeaderSize
<1>6. h \in Seq(Bytes)
  BY <1>3
<1> HIDE DEF h
<1>7. bytes \in Seq(Bytes) /\ Len(bytes) = 14 + n
  <2>1. h \o body \in Seq(Bytes) /\ Len(h \o body) = Len(h) + Len(body)
    BY <1>6, Cat
  <2> QED
    BY <1>3, <2>1
<1>8. Write(Resize(h, 14 + n), 14, body) = bytes
  <2>1. 14 + n \in Nat /\ 14 + n >= Len(h) /\ 14 + n - Len(h) = n
    BY <1>2, <1>3
  <2>2. Resize(h, 14 + n) = h \o Zeros(14 + n - Len(h))
    <3> DEFINE k == 14 + n
    <3>1. k \in Nat /\ k >= Len(h)
      BY <2>1
    <3> HIDE DEF k
    <3>2. Resize(h, k) = h \o Zeros(k - Len(h))
      BY <1>6, <3>1, ResizeIs
    <3> QED
      BY <3>2 DEF k
  <2> DEFINE z == Zeros(n)
  <2>3. z \in Seq(Bytes) /\ Len(z) = Len(body)
    BY <1>2, ZerosAre
  <2>4. Resize(h, 14 + n) = h \o z
    BY <2>1, <2>2
  <2> HIDE DEF z
  <2>5. Write(h \o z, Len(h), body) = h \o body
    BY <1>6, <2>3, WriteEnd
  <2> QED
    BY <1>3, <2>4, <2>5
<1> HIDE DEF bytes
<1> DEFINE m == IF Len(bytes) < FrameMinSize THEN FrameMinSize ELSE Len(bytes)
<1>9. SetBody(h, body) = Resize(bytes, m)
  BY <1>8 DEF SetBody, EtherHeaderSize
<1>10. m \in Nat /\ m >= Len(bytes)
  BY <1>2, <1>7 DEF FrameMinSize
<1>11. Resize(bytes, m) = bytes \o Zeros(m - Len(bytes)) /\ Resize(bytes, m) \in Seq(Bytes)
  BY <1>7, <1>10, ResizeIs
<1>12. Zeros(m - Len(bytes)) = [i \in 1..(FrameMinSize - Len(bytes)) |-> 0]
  <2>1. 1..(m - Len(bytes)) = 1..(FrameMinSize - Len(bytes))
    BY <1>2, <1>7 DEF FrameMinSize
  <2> QED
    BY <2>1 DEF Zeros
<1> QED
  BY <1>5, <1>9, <1>11, <1>12 DEF Filled, bytes, h

\* What the device finds in a frame.
LEMMA FrameRead ==
    ASSUME NEW dst \in Fields(6), NEW src \in Fields(6), NEW type \in 0..Ones, NEW body \in Seq(Bytes)
    PROVE  LET f == dst \o src \o Bytes16(type) \o body
           IN  f \in Seq(Bytes) /\ EtherType(f) = type /\ Body(f) = body
<1>1. /\ dst \in Seq(Bytes) /\ Len(dst) = 6
      /\ src \in Seq(Bytes) /\ Len(src) = 6
  BY DEF Fields
<1> USE <1>1
<1> DEFINE t == Bytes16(type)
           h == dst \o src \o t
           f == h \o body
<1>2. t \in Seq(Bytes) /\ Len(t) = 2 /\ t[1] * Byte + t[2] = type
  BY Bytes16Is, Halves
<1> HIDE DEF t
<1>3. h = [k \in 1..(Len(dst) + Len(src) + Len(t)) |->
            IF k <= Len(dst) THEN dst[k]
            ELSE IF k <= Len(dst) + Len(src) THEN src[k - Len(dst)]
            ELSE t[k - (Len(dst) + Len(src))]]
      /\ h \in Seq(Bytes) /\ Len(h) = Len(dst) + Len(src) + Len(t)
  <2>1. t \in Seq(Bytes)
    BY <1>2
  <2>2. h \in Seq(Bytes) /\ Len(h) = Len(dst) + Len(src) + Len(t)
    BY <2>1, ThreeParts
  <2>3. h = [k \in 1..(Len(dst) + Len(src) + Len(t)) |->
              IF k <= Len(dst) THEN dst[k]
              ELSE IF k <= Len(dst) + Len(src) THEN src[k - Len(dst)]
              ELSE t[k - (Len(dst) + Len(src))]]
    BY <2>1, ThreeParts
  <2> QED
    BY <2>2, <2>3
<1>4. h[13] = t[1] /\ h[14] = t[2] /\ h \in Seq(Bytes) /\ Len(h) = 14
  BY <1>2, <1>3
<1>5. h \in Seq(Bytes)
  BY <1>4
<1> HIDE DEF h
<1>6. f \in Seq(Bytes) /\ Len(f) = 14 + Len(body) /\ Len(body) \in Nat
      /\ \A i \in 1..14 : f[i] = h[i]
  <2>1. h \o body \in Seq(Bytes) /\ Len(h \o body) = Len(h) + Len(body)
        /\ \A i \in 1..Len(h) : (h \o body)[i] = h[i]
    BY <1>5, Cat
  <2> QED
    BY <1>4, <2>1, LenProperties
<1>7. Vector(h \o body, Len(h), Len(body)) = body
  BY <1>5, VectorHalves
<1>8. Body(f) = body
  BY <1>4, <1>6, <1>7 DEF Body, EtherHeaderSize
<1>9. EtherType(f) = type
  BY <1>2, <1>4, <1>6 DEF EtherType, Uint16
<1> QED
  BY <1>6, <1>8, <1>9 DEF f, h, t

\* The numbers an ARP packet for Ethernet and IP begins with.
ArpFront(op) == <<0, 1, 8, 0, 6, 4, 0, op>>

ArpJoin(f, sh, sp, th, tp) == f \o sh \o sp \o th \o tp
ArpGlue(f, sh, sp, th, tp) ==
    [k \in 1..28 |-> IF k <= 8 THEN f[k] ELSE IF k <= 14 THEN sh[k - 8]
                     ELSE IF k <= 18 THEN sp[k - 14] ELSE IF k <= 24 THEN th[k - 18] ELSE tp[k - 24]]

\* Five parts of an ARP packet.
LEMMA ArpParts ==
    ASSUME NEW f \in Fields(8), NEW sh \in Fields(6), NEW sp \in Fields(4), NEW th \in Fields(6),
           NEW tp \in Fields(4)
    PROVE  /\ ArpJoin(f, sh, sp, th, tp) \in Seq(Bytes)
           /\ Len(ArpJoin(f, sh, sp, th, tp)) = 28
           /\ ArpJoin(f, sh, sp, th, tp) = ArpGlue(f, sh, sp, th, tp)
<1>0. /\ f \in Seq(Bytes) /\ Len(f) = 8
      /\ sh \in Seq(Bytes) /\ Len(sh) = 6 /\ sp \in Seq(Bytes) /\ Len(sp) = 4
      /\ th \in Seq(Bytes) /\ Len(th) = 6 /\ tp \in Seq(Bytes) /\ Len(tp) = 4
  BY DEF Fields
<1> USE <1>0
<1> DEFINE f1 == f \o sh
           f2 == f1 \o sp
           f3 == f2 \o th
           f4 == f3 \o tp
<1>1. f1 \in Seq(Bytes) /\ Len(f1) = Len(f) + Len(sh) /\ f1 = Glue(f, sh)
  BY CatIs
<1> HIDE DEF f1
<1>2. f2 \in Seq(Bytes) /\ Len(f2) = Len(f1) + Len(sp) /\ f2 = Glue(f1, sp)
  BY <1>1, CatIs
<1> HIDE DEF f2
<1>3. f3 \in Seq(Bytes) /\ Len(f3) = Len(f2) + Len(th) /\ f3 = Glue(f2, th)
  BY <1>2, CatIs
<1> HIDE DEF f3
<1>4. f4 \in Seq(Bytes) /\ Len(f4) = Len(f3) + Len(tp) /\ f4 = Glue(f3, tp)
  BY <1>3, CatIs
<1> HIDE DEF f4
<1>5. f4 = ArpGlue(f, sh, sp, th, tp)
  BY <1>1, <1>2, <1>3, <1>4 DEF Glue, ArpGlue
<1>6. Len(f4) = 28
  <2>1. Len(f1) = 14
    BY <1>1
  <2>2. Len(f2) = 18
    BY <1>2, <2>1
  <2>3. Len(f3) = 24
    BY <1>3, <2>2
  <2> QED
    BY <1>4, <2>3
<1> QED
  BY <1>4, <1>5, <1>6 DEF ArpJoin, f1, f2, f3, f4

\* The packet that arpDataFactory and its setters make.
LEMMA ArpDataIs ==
    ASSUME NEW op \in {1, 2}, NEW sh \in Fields(6), NEW sp \in Fields(4), NEW th \in Fields(6),
           NEW tp \in Fields(4)
    PROVE  ArpData(op, sh, sp, th, tp) = ArpJoin(ArpFront(op), sh, sp, th, tp)
<1>1. /\ sh \in Seq(Bytes) /\ Len(sh) = 6 /\ sp \in Seq(Bytes) /\ Len(sp) = 4
      /\ th \in Seq(Bytes) /\ Len(th) = 6 /\ tp \in Seq(Bytes) /\ Len(tp) = 4
  BY DEF Fields
<1> USE <1>1
<1> DEFINE d == ArpDataFactory(op)
<1>2. op \in Nat /\ op <= 65535 /\ op \div 256 = 0 /\ op % 256 = op
  OBVIOUS
<1> DEFINE one == Bytes16(1)
           ip == Bytes16(2048)
           six == <<6>>
           four == <<4>>
           code == Bytes16(op)
<1>3. d = WriteAll(Zeros(28), <<<<0, one>>, <<2, ip>>, <<4, six>>, <<5, four>>, <<6, code>>>>)
  BY DEF ArpDataFactory, ETHER_TYPE_IP
<1>4. one = <<0, 1>> /\ ip = <<8, 0>> /\ six = <<6>> /\ four = <<4>> /\ code = <<0, op>>
  BY <1>2, Values DEF Bytes16
<1> HIDE DEF one, ip, code, six, four, d
<1>5. WriteAll(Zeros(28), <<<<0, one>>, <<2, ip>>, <<4, six>>, <<5, four>>, <<6, code>>>>)
        = Write(Write(Write(Write(Write(Zeros(28), 0, one), 2, ip), 4, six), 5, four), 6, code)
  BY WriteAll5
<1>6. Write(Write(Write(Write(Write(Zeros(28), 0, one), 2, ip), 4, six), 5, four), 6, code)
        = [k \in 1..28 |-> IF k <= 8 THEN ArpFront(op)[k] ELSE 0]
  BY <1>4 DEF Write, Zeros, ArpFront
<1>7. d = [k \in 1..28 |-> IF k <= 8 THEN ArpFront(op)[k] ELSE 0]
  BY <1>3, <1>5, <1>6
<1>8. /\ SenderHardwareOffset(d) = 8 /\ SenderProtocolOffset(d) = 14
      /\ TargetHardwareOffset(d) = 18 /\ TargetProtocolOffset(d) = 24
  <2>1. d[5] = 6 /\ d[6] = 4
    BY <1>7 DEF ArpFront
  <2> QED
    BY <2>1 DEF SenderHardwareOffset, SenderProtocolOffset, TargetHardwareOffset,
                TargetProtocolOffset, HardwareLength, ProtocolLength, Uint8
<1>9. ArpData(op, sh, sp, th, tp)
        = Write(Write(Write(Write(d, 8, sh), 14, sp), 18, th), 24, tp)
  BY <1>8, WriteAll4 DEF ArpData, d
<1>10. DOMAIN sh = 1..6 /\ DOMAIN sp = 1..4 /\ DOMAIN th = 1..6 /\ DOMAIN tp = 1..4
  BY LenProperties
<1> DEFINE f == ArpFront(op)
<1>11. f \in Seq(Bytes) /\ Len(f) = 8
  BY <1>2, Values DEF ArpFront
<1>12. d = [k \in 1..28 |-> IF k <= 8 THEN f[k] ELSE 0]
  BY <1>7
<1> HIDE DEF f
<1>13. Write(Write(Write(Write(d, 8, sh), 14, sp), 18, th), 24, tp)
         = ArpGlue(f, sh, sp, th, tp)
  BY <1>10, <1>12 DEF Write, ArpGlue
<1>14. ArpJoin(f, sh, sp, th, tp) = ArpGlue(f, sh, sp, th, tp)
  BY <1>11, ArpParts DEF Fields
<1> QED
  BY <1>9, <1>13, <1>14 DEF f

\* A part of a packet is read byte by byte.
LEMMA VectorIs ==
    ASSUME NEW d \in Seq(Bytes), NEW b \in Seq(Bytes), NEW o \in Nat, o + Len(b) <= Len(d),
           \A k \in 1..Len(b) : d[o + k] = b[k]
    PROVE  Vector(d, o, Len(b)) = b
<1>1. Len(b) \in Nat /\ Len(d) \in Nat
  BY LenProperties
<1>2. b = [k \in 1..Len(b) |-> b[k]]
  BY LenProperties
<1>3. SubSeq(d, o + 1, o + Len(b)) = [k \in 1..Len(b) |-> d[o + k]]
  BY <1>1
<1>4. [k \in 1..Len(b) |-> d[o + k]] = [k \in 1..Len(b) |-> b[k]]
  BY <1>1
<1> QED
  BY <1>2, <1>3, <1>4 DEF Vector

\* d is p, and maybe what its frame is filled up with.
Begins(d, p) == d \in Seq(Bytes) /\ Len(d) >= Len(p) /\ \A i \in 1..Len(p) : d[i] = p[i]

\* A packet begins with its first part.
LEMMA BeginsIs ==
    ASSUME NEW p \in Seq(Bytes), NEW pad \in Seq(Bytes)
    PROVE  Begins(p \o pad, p)
<1>1. Len(p) \in Nat /\ Len(pad) \in Nat
  BY LenProperties
<1>2. p \o pad \in Seq(Bytes) /\ Len(p \o pad) = Len(p) + Len(pad)
      /\ \A i \in 1..Len(p) : (p \o pad)[i] = p[i]
  BY Cat
<1> QED
  BY <1>1, <1>2 DEF Begins

\* What the handler finds in an ARP packet, whatever its frame is filled up with.
LEMMA ArpRead ==
    ASSUME NEW op \in {1, 2}, NEW sh \in Fields(6), NEW sp \in Fields(4), NEW th \in Fields(6),
           NEW tp \in Fields(4),
           NEW d, Begins(d, ArpJoin(ArpFront(op), sh, sp, th, tp))
    PROVE  /\ ProtocolLength(d) = 4 /\ Uint16(d, 2) = ETHER_TYPE_IP /\ OperationCode(d) = op
           /\ SenderHardwareAddress(d) = sh /\ SenderProtocolAddress(d) = sp
           /\ TargetProtocolAddress(d) = tp
<1>0. /\ sh \in Seq(Bytes) /\ Len(sh) = 6 /\ sp \in Seq(Bytes) /\ Len(sp) = 4
      /\ th \in Seq(Bytes) /\ Len(th) = 6 /\ tp \in Seq(Bytes) /\ Len(tp) = 4
  BY DEF Fields
<1> USE <1>0
<1> DEFINE f == ArpFront(op)
           p == ArpJoin(f, sh, sp, th, tp)
<1>1. f \in Seq(Bytes) /\ Len(f) = 8 /\ f[3] = 8 /\ f[4] = 0 /\ f[5] = 6 /\ f[6] = 4
      /\ f[7] = 0 /\ f[8] = op
  BY Values DEF ArpFront
<1>2. Begins(d, p)
  OBVIOUS
<1> HIDE DEF f
<1>3. p \in Seq(Bytes) /\ Len(p) = 28 /\ p = ArpGlue(f, sh, sp, th, tp)
  BY <1>1, ArpParts DEF Fields
<1> HIDE DEF p
<1>4. d \in Seq(Bytes) /\ Len(d) \in Nat /\ Len(d) >= 28 /\ \A i \in 1..28 : d[i] = p[i]
  BY <1>2, <1>3, LenProperties DEF Begins
<1>5. /\ \A i \in 1..8 : d[i] = f[i]
      /\ \A k \in 1..6 : d[8 + k] = sh[k]
      /\ \A k \in 1..4 : d[14 + k] = sp[k]
      /\ \A k \in 1..4 : d[24 + k] = tp[k]
  <2>1. \A i \in 1..28 : d[i] = IF i <= 8 THEN f[i] ELSE IF i <= 14 THEN sh[i - 8]
                                ELSE IF i <= 18 THEN sp[i - 14]
                                ELSE IF i <= 24 THEN th[i - 18] ELSE tp[i - 24]
    BY <1>3, <1>4 DEF ArpGlue
  <2>2. ASSUME NEW i \in 1..8 PROVE d[i] = f[i]
    <3>1. i \in 1..28 /\ i <= 8
      OBVIOUS
    <3> QED
      BY <2>1, <3>1
  <2>3. ASSUME NEW k \in 1..6 PROVE d[8 + k] = sh[k]
    <3>1. 8 + k \in 1..28 /\ ~(8 + k <= 8) /\ 8 + k <= 14 /\ (8 + k) - 8 = k
      OBVIOUS
    <3> QED
      BY <2>1, <3>1
  <2>4. ASSUME NEW k \in 1..4 PROVE d[14 + k] = sp[k]
    <3>1. 14 + k \in 1..28 /\ ~(14 + k <= 14) /\ 14 + k <= 18 /\ (14 + k) - 14 = k
          /\ ~(14 + k <= 8)
      OBVIOUS
    <3> QED
      BY <2>1, <3>1
  <2>5. ASSUME NEW k \in 1..4 PROVE d[24 + k] = tp[k]
    <3>1. 24 + k \in 1..28 /\ ~(24 + k <= 24) /\ ~(24 + k <= 18) /\ ~(24 + k <= 14)
          /\ ~(24 + k <= 8) /\ (24 + k) - 24 = k
      OBVIOUS
    <3> QED
      BY <2>1, <3>1
  <2> QED
    BY <2>2, <2>3, <2>4, <2>5
<1>6. d[3] = 8 /\ d[4] = 0 /\ d[5] = 6 /\ d[6] = 4 /\ d[7] = 0 /\ d[8] = op
  BY <1>1, <1>5
<1>7. HardwareLength(d) = 6 /\ ProtocolLength(d) = 4 /\ Uint16(d, 2) = ETHER_TYPE_IP
      /\ OperationCode(d) = op
  <2>1. 8 * 256 + 0 = 2048 /\ 0 * 256 + op = op
    OBVIOUS
  <2> QED
    BY <1>6, <2>1, Values
       DEF HardwareLength, ProtocolLength, OperationCode, Uint8, Uint16, ETHER_TYPE_IP
<1>8. Vector(d, 8, 6) = sh
  <2>1. d \in Seq(Bytes) /\ 8 \in Nat /\ 8 + Len(sh) <= Len(d)
        /\ \A k \in 1..Len(sh) : d[8 + k] = sh[k]
    BY <1>4, <1>5
  <2>2. Vector(d, 8, Len(sh)) = sh
    BY <2>1, VectorIs
  <2> QED
    BY <2>2
<1>9. Vector(d, 14, 4) = sp
  <2>1. d \in Seq(Bytes) /\ 14 \in Nat /\ 14 + Len(sp) <= Len(d)
        /\ \A k \in 1..Len(sp) : d[14 + k] = sp[k]
    BY <1>4, <1>5
  <2>2. Vector(d, 14, Len(sp)) = sp
    BY <2>1, VectorIs
  <2> QED
    BY <2>2
<1>10. Vector(d, 24, 4) = tp
  <2>1. d \in Seq(Bytes) /\ 24 \in Nat /\ 24 + Len(tp) <= Len(d)
        /\ \A k \in 1..Len(tp) : d[24 + k] = tp[k]
    BY <1>4, <1>5
  <2>2. Vector(d, 24, Len(tp)) = tp
    BY <2>1, VectorIs
  <2> QED
    BY <2>2
<1> QED
  BY <1>7, <1>8, <1>9, <1>10
     DEF SenderHardwareAddress, SenderProtocolAddress, TargetProtocolAddress,
         SenderHardwareOffset, SenderProtocolOffset, TargetProtocolOffset

\* An address is read as it was written.
LEMMA AddressRead ==
    ASSUME NEW addr \in Addresses
    PROVE  Uint32(Bytes32(addr), 0) = addr
<1>1. addr[1] \in 0..Ones /\ addr[2] \in 0..Ones /\ addr = <<addr[1], addr[2]>>
  BY DEF Addresses
<1>2. Bytes32(addr)[1] * Byte + Bytes32(addr)[2] = addr[1]
      /\ Bytes32(addr)[3] * Byte + Bytes32(addr)[4] = addr[2]
  BY <1>1, Bytes32Is, Halves
<1> QED
  BY <1>1, <1>2 DEF Uint32, Uint16

\* An address is what its text form says.
LEMMA AddressText ==
    ASSUME NEW addr \in Addresses
    PROVE  Ipv4strToUint32(Uint32ToIpv4str(addr)) = addr
<1> DEFINE b == Bytes32(addr)
<1>1. addr[1] \in 0..Ones /\ addr[2] \in 0..Ones /\ addr = <<addr[1], addr[2]>>
  BY DEF Addresses
<1>2. b[1] * Byte + b[2] = addr[1] /\ b[3] * Byte + b[4] = addr[2]
      /\ b[1] \in Bytes /\ b[2] \in Bytes /\ b[3] \in Bytes /\ b[4] \in Bytes
  BY <1>1, Bytes32Is, Halves
<1>3. b \in Seq(Bytes) /\ Len(b) = 4
  BY Bytes32Is
<1> HIDE DEF b
<1>4. b = <<b[1], b[2], b[3], b[4]>>
  BY <1>3
<1>5. Ipv4strToUint32(<<b[1], b[2], b[3], b[4]>>) = <<b[1] * Byte + b[2], b[3] * Byte + b[4]>>
  BY <1>2, AddressIs
<1> QED
  BY <1>1, <1>2, <1>4, <1>5 DEF Uint32ToIpv4str, b

\* What UdpHandler and recvFrom find in a segment: the payload is followed by eight
\* zeros, for length() counts the header.
LEMMA UdpRead ==
    ASSUME NEW f \in Fields(8), NEW body \in Seq(Bytes),
           f[5] * Byte + f[6] = 8 + Len(body)
    PROVE  /\ SrcPort(f \o body) = f[1] * Byte + f[2] /\ DstPort(f \o body) = f[3] * Byte + f[4]
           /\ UdpPayload(f \o body) = body \o Zeros(8)
<1> DEFINE d == f \o body
<1>1. f \in Seq(Bytes)
  BY DEF Fields
<1>2. d \in Seq(Bytes) /\ Len(d) = Len(f) + Len(body) /\ Len(body) \in Nat
      /\ \A i \in 1..Len(f) : d[i] = f[i]
  BY <1>1, Cat, LenProperties
<1>3. Vector(d, Len(f), Len(body)) = body
  BY <1>1, VectorHalves
<1> HIDE DEF d
<1>4. Len(f) = 8
  BY DEF Fields
<1>5. d[1] = f[1] /\ d[2] = f[2] /\ d[3] = f[3] /\ d[4] = f[4] /\ d[5] = f[5] /\ d[6] = f[6]
  BY <1>4, <1>2
<1>6. Len(d) - 8 = Len(body) /\ Vector(d, 8, Len(body)) = body
  BY <1>4, <1>2, <1>3
<1>7. UdpPayload(d) = Resize(body, 8 + Len(body))
  BY <1>5, <1>6 DEF UdpPayload, UdpLength, Uint16, UdpHeaderSize
<1> DEFINE n == 8 + Len(body)
<1>8. n \in Nat /\ n >= Len(body) /\ n - Len(body) = 8
  BY <1>2
<1>9. UdpPayload(d) = Resize(body, n)
  BY <1>7
<1> HIDE DEF n
<1>10. Resize(body, n) = body \o Zeros(n - Len(body))
  BY <1>8, ResizeIs
<1>11. SrcPort(d) = f[1] * Byte + f[2] /\ DstPort(d) = f[3] * Byte + f[4]
  BY <1>5 DEF SrcPort, DstPort, Uint16
<1> QED
  BY <1>8, <1>9, <1>10, <1>11 DEF d

\* udp_output lays the payload behind the header.
LEMMA SetUdpPayloadIs ==
    ASSUME NEW h \in Fields(8), NEW body \in Seq(Bytes), 8 + Len(body) < Word
    PROVE  SetUdpPayload(h, body) = h \o body
<1>1. Len(body) \in Nat /\ h \in Seq(Bytes)
  BY LenProperties DEF Fields
<1>2. Len(h) = 8
  BY DEF Fields
<1> DEFINE n == 8 + Len(body)
<1>3. n \in Nat /\ n >= Len(h) /\ n - Len(h) = Len(body) /\ n % Word = n
  <2>1. PICK l \in Nat : l = Len(body) /\ 8 + l < 65536
    BY <1>1, Values
  <2>2. (8 + l) % 65536 = 8 + l
    BY <2>1
  <2> QED
    BY <1>2, <2>1, <2>2, Values
<1>4. SetUdpPayload(h, body) = Write(Resize(h, n), 8, body)
  BY <1>3 DEF SetUdpPayload, UdpHeaderSize
<1> HIDE DEF n
<1>5. Resize(h, n) = h \o Zeros(n - Len(h))
  BY <1>1, <1>3, ResizeIs
<1> DEFINE z == Zeros(Len(body))
<1>6. z \in Seq(Bytes) /\ Len(z) = Len(body)
  BY <1>1, ZerosAre
<1>7. Resize(h, n) = h \o z
  BY <1>3, <1>5
<1> HIDE DEF z
<1>8. Write(h \o z, Len(h), body) = h \o body
  BY <1>1, <1>6, WriteEnd
<1> QED
  BY <1>2, <1>4, <1>7, <1>8

\* A write into the first part leaves the second.
LEMMA WriteFront ==
    ASSUME NEW a \in Seq(Bytes), NEW b \in Seq(Bytes), NEW o \in Nat, NEW v \in Seq(Bytes),
           o + Len(v) <= Len(a)
    PROVE  Write(a \o b, o, v) = Write(a, o, v) \o b
<1>1. Len(a) \in Nat /\ Len(b) \in Nat /\ Len(v) \in Nat /\ DOMAIN v = 1..Len(v)
      /\ DOMAIN a = 1..Len(a)
  BY LenProperties
<1> DEFINE s == a \o b
           w == Write(a, o, v)
<1>2. s = Glue(a, b)
  BY CatIs
<1>3. w \in Seq(Bytes) /\ Len(w) = Len(a) /\ w = [i \in 1..Len(a) |->
          IF i - o \in 1..Len(v) THEN v[i - o] ELSE a[i]]
  <2>1. w = [i \in 1..Len(a) |-> IF i - o \in 1..Len(v) THEN v[i - o] ELSE a[i]]
    BY <1>1 DEF Write
  <2>2. ASSUME NEW i \in 1..Len(a)
        PROVE  (IF i - o \in 1..Len(v) THEN v[i - o] ELSE a[i]) \in Bytes
    BY <1>1, ElementOfSeq
  <2> HIDE DEF w
  <2> QED
    BY <1>1, <2>1, <2>2
<1> HIDE DEF w
<1>4. w \o b = Glue(w, b)
  BY <1>3, CatIs
<1> HIDE DEF s
<1>5. Write(s, o, v) = Glue(w, b)
  BY <1>1, <1>2, <1>3 DEF Write, Glue
<1> QED
  BY <1>4, <1>5 DEF s, w

\* The seven fields of an IP header, and their bytes.
IpJoin(v, t, i, q, c, s, d) == (v \o t \o i \o q) \o c \o (s \o d)
IpGlue(v, t, i, q, c, s, d) ==
    [k \in 1..20 |->
        IF k <= 2 THEN v[k] ELSE IF k <= 4 THEN t[k - 2] ELSE IF k <= 6 THEN i[k - 4]
        ELSE IF k <= 10 THEN q[k - 6] ELSE IF k <= 12 THEN c[k - 10]
        ELSE IF k <= 16 THEN s[k - 12] ELSE d[k - 16]]

\* What lies where in an IP header.
LEMMA IpParts ==
    ASSUME NEW v \in Fields(2), NEW t \in Fields(2), NEW i \in Fields(2), NEW q \in Fields(4),
           NEW c \in Fields(2), NEW s \in Fields(4), NEW d \in Fields(4)
    PROVE  /\ IpJoin(v, t, i, q, c, s, d) = IpGlue(v, t, i, q, c, s, d)
           /\ IpJoin(v, t, i, q, c, s, d) \in Fields(20)
           /\ v \o t \o i \o q \in Fields(10) /\ s \o d \in Fields(8)
<1> DEFINE f1 == v \o t
           f2 == f1 \o i
           f3 == f2 \o q
           f4 == f3 \o c
           a == s \o d
           f5 == f4 \o a
<1>1. /\ v \in Seq(Bytes) /\ t \in Seq(Bytes) /\ i \in Seq(Bytes) /\ q \in Seq(Bytes)
      /\ c \in Seq(Bytes) /\ s \in Seq(Bytes) /\ d \in Seq(Bytes)
  BY DEF Fields
<1>2. /\ Len(v) = 2 /\ Len(t) = 2 /\ Len(i) = 2 /\ Len(q) = 4
      /\ Len(c) = 2 /\ Len(s) = 4 /\ Len(d) = 4
  BY DEF Fields
<1>3. f1 \in Seq(Bytes) /\ Len(f1) = Len(v) + Len(t) /\ f1 = Glue(v, t)
  BY <1>1, CatIs
<1> HIDE DEF f1
<1>4. f2 \in Seq(Bytes) /\ Len(f2) = Len(f1) + Len(i) /\ f2 = Glue(f1, i)
  BY <1>1, <1>3, CatIs
<1> HIDE DEF f2
<1>5. f3 \in Seq(Bytes) /\ Len(f3) = Len(f2) + Len(q) /\ f3 = Glue(f2, q)
  BY <1>1, <1>4, CatIs
<1> HIDE DEF f3
<1>6. f4 \in Seq(Bytes) /\ Len(f4) = Len(f3) + Len(c) /\ f4 = Glue(f3, c)
  BY <1>1, <1>5, CatIs
<1> HIDE DEF f4
<1>7. a \in Seq(Bytes) /\ Len(a) = Len(s) + Len(d) /\ a = Glue(s, d)
  BY <1>1, CatIs
<1> HIDE DEF a
<1>8. f5 \in Seq(Bytes) /\ Len(f5) = Len(f4) + Len(a) /\ f5 = Glue(f4, a)
  BY <1>6, <1>7, CatIs
<1> HIDE DEF f5
<1>9. Len(f1) = 4 /\ Len(f2) = 6 /\ Len(f3) = 10 /\ Len(f4) = 12 /\ Len(a) = 8 /\ Len(f5) = 20
  <2>1. Len(f1) = 4
    BY <1>2, <1>3
  <2>2. Len(f2) = 6
    BY <1>2, <1>4, <2>1
  <2>3. Len(f3) = 10
    BY <1>2, <1>5, <2>2
  <2>4. Len(f4) = 12
    BY <1>2, <1>6, <2>3
  <2>5. Len(a) = 8
    BY <1>2, <1>7
  <2> QED
    BY <1>8, <2>1, <2>2, <2>3, <2>4, <2>5
<1>10. f3 = [k \in 1..10 |-> IF k <= 2 THEN v[k] ELSE IF k <= 4 THEN t[k - 2]
                            ELSE IF k <= 6 THEN i[k - 4] ELSE q[k - 6]]
  BY <1>2, <1>3, <1>4, <1>5, <1>9 DEF Glue
<1>11. f5 = IpGlue(v, t, i, q, c, s, d)
  BY <1>2, <1>6, <1>7, <1>8, <1>9, <1>10 DEF Glue, IpGlue
<1>12. f3 \in Fields(10) /\ a \in Fields(8) /\ f5 \in Fields(20)
  BY <1>5, <1>7, <1>8, <1>9 DEF Fields
<1> QED
  BY <1>11, <1>12 DEF IpJoin, f1, f2, f3, f4, f5, a

\* The checksum is written over the one that was there.
LEMMA IpSumWritten ==
    ASSUME NEW v, NEW t, NEW i, NEW q, NEW c, NEW s, NEW d, NEW e,
           v \in Fields(2), t \in Fields(2), i \in Fields(2), q \in Fields(4),
           c \in Fields(2), s \in Fields(4), d \in Fields(4), e \in Fields(2)
    PROVE  Write(IpJoin(v, t, i, q, c, s, d), 10, e) = IpJoin(v, t, i, q, e, s, d)
<1>1. IpJoin(v, t, i, q, c, s, d) = IpGlue(v, t, i, q, c, s, d)
  BY IpParts
<1>2. IpJoin(v, t, i, q, e, s, d) = IpGlue(v, t, i, q, e, s, d)
  BY IpParts
<1>3. DOMAIN e = 1..2
  BY FieldDomain
<1>4. Write(IpGlue(v, t, i, q, c, s, d), 10, e) = IpGlue(v, t, i, q, e, s, d)
  BY <1>3 DEF Write, IpGlue
<1> QED
  BY <1>1, <1>2, <1>4

\* The header that ipv4_output writes.
LEMMA IpHeaderIs ==
    ASSUME NEW t \in Fields(2), NEW i \in Fields(2), NEW s \in Fields(4), NEW d \in Fields(4),
           NEW p
    PROVE  WriteAll(NewIpv4Data, <<<<1, <<0>>>>, <<2, t>>, <<4, i>>, <<6, <<0, 0>>>>,
                                   <<8, <<255>>>>, <<9, <<p>>>>, <<10, <<0, 0>>>>,
                                   <<12, s>>, <<16, d>>>>)
             = IpGlue(<<69, 0>>, t, i, <<0, 0, 255, p>>, <<0, 0>>, s, d)
<1>1. DOMAIN t = 1..2 /\ DOMAIN i = 1..2 /\ DOMAIN s = 1..4 /\ DOMAIN d = 1..4
  BY FieldDomain
<1> DEFINE b1 == <<0>>
           b2 == <<0, 0>>
           b3 == <<255>>
           b4 == <<p>>
<1>2. NewIpv4Data = [k \in 1..20 |-> IF k = 1 THEN 69 ELSE 0]
  BY DEF NewIpv4Data, Write, Zeros
<1>3. DOMAIN b1 = 1..1 /\ DOMAIN b2 = 1..2 /\ DOMAIN b3 = 1..1 /\ DOMAIN b4 = 1..1
      /\ b1[1] = 0 /\ b2[1] = 0 /\ b2[2] = 0 /\ b3[1] = 255 /\ b4[1] = p
  OBVIOUS
<1> HIDE DEF b1, b2, b3, b4
<1> DEFINE w3 == Write(Write(Write(NewIpv4Data, 1, b1), 2, t), 4, i)
           w6 == Write(Write(Write(w3, 6, b2), 8, b3), 9, b4)
           w9 == Write(Write(Write(w6, 10, b2), 12, s), 16, d)
<1>4. WriteAll(NewIpv4Data, <<<<1, b1>>, <<2, t>>, <<4, i>>, <<6, b2>>, <<8, b3>>, <<9, b4>>,
                              <<10, b2>>, <<12, s>>, <<16, d>>>>) = w9
  BY WriteAll9
<1>5. w3 = [k \in 1..20 |-> IF k = 1 THEN 69 ELSE IF k = 2 THEN 0 ELSE IF k <= 4 THEN t[k - 2]
                            ELSE IF k <= 6 THEN i[k - 4] ELSE 0]
  BY <1>1, <1>2, <1>3 DEF Write
<1> HIDE DEF w3
<1>6. w6 = [k \in 1..20 |-> IF k = 1 THEN 69 ELSE IF k = 2 THEN 0 ELSE IF k <= 4 THEN t[k - 2]
                            ELSE IF k <= 6 THEN i[k - 4] ELSE IF k = 9 THEN 255
                            ELSE IF k = 10 THEN p ELSE 0]
  BY <1>3, <1>5 DEF Write
<1> HIDE DEF w6
<1>7. w9 = [k \in 1..20 |-> IF k = 1 THEN 69 ELSE IF k = 2 THEN 0 ELSE IF k <= 4 THEN t[k - 2]
                            ELSE IF k <= 6 THEN i[k - 4] ELSE IF k = 9 THEN 255
                            ELSE IF k = 10 THEN p ELSE IF k <= 12 THEN 0
                            ELSE IF k <= 16 THEN s[k - 12] ELSE d[k - 16]]
  BY <1>1, <1>3, <1>6 DEF Write
<1> HIDE DEF w9
<1>8. IpGlue(<<69, 0>>, t, i, <<0, 0, 255, p>>, <<0, 0>>, s, d) = w9
  <2> DEFINE v == <<69, 0>>
             q == <<0, 0, 255, p>>
             c == <<0, 0>>
  <2>1. v[1] = 69 /\ v[2] = 0 /\ q[1] = 0 /\ q[2] = 0 /\ q[3] = 255 /\ q[4] = p
        /\ c[1] = 0 /\ c[2] = 0
    OBVIOUS
  <2> HIDE DEF v, q, c
  <2>2. IpGlue(v, t, i, q, c, s, d) = w9
    BY <1>7, <2>1 DEF IpGlue
  <2> QED
    BY <2>2 DEF v, q, c
<1> QED
  BY <1>4, <1>8 DEF b1, b2, b3, b4

\* What Ipv4ProtocolHandler finds in a packet, whatever its frame is filled up with.
LEMMA IpRead ==
    ASSUME NEW h \in Fields(20), NEW payload \in Seq(Bytes), NEW pad \in Seq(Bytes),
           h[1] = 69, h[3] * Byte + h[4] = 20 + Len(payload)
    PROVE  /\ HeaderLengthByte(h \o payload \o pad) = 20
           /\ Vector(h \o payload \o pad, 0, 20) = h
           /\ IpPayload(h \o payload \o pad) = payload
           /\ Protocol(h \o payload \o pad) = h[10]
           /\ IpSrc(h \o payload \o pad) = Uint32(h, 12)
           /\ IpDst(h \o payload \o pad) = Uint32(h, 16)
<1>1. h \in Seq(Bytes) /\ Len(payload) \in Nat /\ Len(pad) \in Nat
  BY LenProperties DEF Fields
<1>2. Len(h) = 20
  BY DEF Fields
<1> DEFINE d == h \o payload \o pad
           n == Len(payload)
<1>3. d \in Seq(Bytes) /\ Len(d) = Len(h) + Len(payload) + Len(pad)
  BY <1>1, ThreeParts
<1>4. d = [k \in 1..(Len(h) + Len(payload) + Len(pad)) |->
             IF k <= Len(h) THEN h[k]
             ELSE IF k <= Len(h) + Len(payload) THEN payload[k - Len(h)]
             ELSE pad[k - (Len(h) + Len(payload))]]
  BY <1>1, ThreeParts
<1>5. Vector(d, Len(h), Len(payload)) = payload
  BY <1>1, VectorPart
<1> HIDE DEF d
<1>6. \A k \in 1..20 : d[k] = h[k]
  BY <1>1, <1>2, <1>4
<1>7. Vector(d, 0, 20) = h
  <2>1. 0 \in Nat /\ 0 + Len(h) <= Len(d) /\ \A k \in 1..Len(h) : d[0 + k] = h[k]
    BY <1>1, <1>2, <1>3, <1>6
  <2>2. Vector(d, 0, Len(h)) = h
    BY <1>1, <1>3, <2>1, VectorIs
  <2> QED
    BY <1>2, <2>2
<1>8. HeaderLengthByte(d) = 20
  <2>1. d[1] = 69
    BY <1>6
  <2> QED
    BY <2>1 DEF HeaderLengthByte, Uint8
<1>9. TotalLength(d) = 20 + n
  BY <1>6 DEF TotalLength, Uint16
<1>10. IpPayload(d) = payload
  BY <1>1, <1>2, <1>5, <1>8, <1>9 DEF IpPayload
<1>11. Protocol(d) = h[10] /\ IpSrc(d) = Uint32(h, 12) /\ IpDst(d) = Uint32(h, 16)
  BY <1>6 DEF Protocol, IpSrc, IpDst, Uint8, Uint16, Uint32
<1> QED
  BY <1>7, <1>8, <1>10, <1>11 DEF d

\* The payload is laid behind a header that already holds the right total length.
LEMMA SetIpPayloadIs ==
    ASSUME NEW h \in Fields(20), NEW payload \in Seq(Bytes), 20 + Len(payload) < Word,
           h[1] = 69, h[3] * Byte + h[4] = 20 + Len(payload)
    PROVE  SetIpPayload(h, payload) = h \o payload
<1>1. h \in Seq(Bytes) /\ Len(payload) \in Nat
  BY LenProperties DEF Fields
<1>2. Len(h) = 20 /\ DOMAIN h = 1..20 /\ \A k \in 1..20 : h[k] \in Bytes
  <2>1. h \in [1..Len(h) -> Bytes] /\ Len(h) = 20
    BY LenProperties DEF Fields
  <2> QED
    BY <2>1
<1> DEFINE n == 20 + Len(payload)
           b == Bytes16(n)
<1>3. n % Word = n /\ n \in Nat /\ n >= Len(h) /\ n - Len(h) = Len(payload)
  <2>1. PICK l \in Nat : l = Len(payload) /\ 20 + l < 65536
    BY <1>1, Values
  <2>2. (20 + l) % 65536 = 20 + l
    BY <2>1
  <2> QED
    BY <1>2, <2>1, <2>2, Values
<1>4. HeaderLengthByte(h) = 20
  BY DEF HeaderLengthByte, Uint8
<1>5. DOMAIN b = 1..2 /\ b[1] = h[3] /\ b[2] = h[4]
  <2>1. h[3] \in Bytes /\ h[4] \in Bytes
    BY <1>2
  <2>2. b = <<(h[3] * Byte + h[4]) \div Byte, (h[3] * Byte + h[4]) % Byte>>
    BY DEF Bytes16
  <2>3. (h[3] * Byte + h[4]) \div Byte = h[3] /\ (h[3] * Byte + h[4]) % Byte = h[4]
    BY <2>1, Joined
  <2> QED
    BY <2>2, <2>3
<1>6. SetIpPayload(h, payload) = Write(Resize(Write(h, 2, b), n), 20, payload)
  BY <1>3, <1>4 DEF SetIpPayload
<1> HIDE DEF b, n
<1>7. Write(h, 2, b) = h
  <2>1. Write(h, 2, b) = [k \in 1..20 |-> h[k]]
    BY <1>2, <1>5 DEF Write
  <2>2. h = [k \in 1..20 |-> h[k]]
    BY <1>1, <1>2
  <2> QED
    BY <2>1, <2>2
<1>8. Resize(h, n) = h \o Zeros(n - Len(h))
  BY <1>1, <1>3, ResizeIs
<1> DEFINE z == Zeros(Len(payload))
<1>9. z \in Seq(Bytes) /\ Len(z) = Len(payload)
  BY <1>1, ZerosAre
<1>10. Resize(h, n) = h \o z
  BY <1>3, <1>8
<1> HIDE DEF z
<1>11. Write(h \o z, Len(h), payload) = h \o payload
  BY <1>1, <1>9, WriteEnd
<1> QED
  BY <1>2, <1>6, <1>7, <1>10, <1>11

-----------------------------------------------------------------------------
(* The sums of the words of these packets. *)

\* The sum of three parts, the first two of whole words.
LEMMA WordSumThree ==
    ASSUME NEW a \in Seq(Bytes), NEW m \in Nat, Len(a) = 2 * m,
           NEW b \in Seq(Bytes), NEW n \in Nat, Len(b) = 2 * n, NEW c \in Seq(Bytes),
           NEW past \in Bytes
    PROVE  WordSum(a \o b \o c, past)
             = WordSum(a, past) + WordSum(b, past) + WordSum(c, past)
<1> DEFINE ab == a \o b
<1>1. ab \in Seq(Bytes) /\ Len(ab) = Len(a) + Len(b)
  BY Cat
<1>2. WordSum(ab, past) = WordSum(a, past) + WordSum(b, past)
  BY WordSumConcat
<1> HIDE DEF ab
<1>3. m + n \in Nat /\ Len(ab) = 2 * (m + n)
  BY <1>1
<1>4. WordSum(ab \o c, past) = WordSum(ab, past) + WordSum(c, past)
  BY <1>1, <1>3, WordSumConcat
<1> QED
  BY <1>2, <1>4 DEF ab

\* The words of a field.
LEMMA FieldSum ==
    ASSUME NEW b \in Fields(2), NEW past \in Bytes
    PROVE  WordSum(b, past) = b[1] * Byte + b[2]
BY WordSumPair DEF Fields

\* The sum of an IP header is that of the header without its checksum, and the checksum.
LEMMA IpSum ==
    ASSUME NEW v \in Fields(2), NEW t \in Fields(2), NEW i \in Fields(2), NEW q \in Fields(4),
           NEW c \in Fields(2), NEW s \in Fields(4), NEW d \in Fields(4), NEW past \in Bytes
    PROVE  WordSum(IpJoin(v, t, i, q, c, s, d), past)
             = WordSum((v \o t \o i \o q) \o (s \o d), past) + WordSum(c, past)
<1> DEFINE f == v \o t \o i \o q
           a == s \o d
<1>1. f \in Fields(10) /\ a \in Fields(8)
  BY IpParts
<1> HIDE DEF f, a
<1>2. /\ f \in Seq(Bytes) /\ Len(f) = 2 * 5 /\ c \in Seq(Bytes) /\ Len(c) = 2 * 1
      /\ a \in Seq(Bytes)
  BY <1>1 DEF Fields
<1>3. WordSum(f \o c \o a, past) = WordSum(f, past) + WordSum(c, past) + WordSum(a, past)
  <2>1. PICK m \in Nat, n \in Nat : m = 5 /\ n = 1
    OBVIOUS
  <2>2. Len(f) = 2 * m /\ Len(c) = 2 * n
    BY <1>2, <2>1
  <2>3. f \in Seq(Bytes) /\ c \in Seq(Bytes) /\ a \in Seq(Bytes)
    BY <1>2
  <2> QED
    BY <2>2, <2>3, WordSumThree
<1>4. WordSum(f \o a, past) = WordSum(f, past) + WordSum(a, past)
  BY <1>2, WordSumConcat
<1>5. WordSum(f, past) \in Nat /\ WordSum(c, past) \in Nat /\ WordSum(a, past) \in Nat
  BY <1>2, WordSumBound
<1>6. WordSum(f \o c \o a, past) = WordSum(f \o a, past) + WordSum(c, past)
  BY <1>3, <1>4, <1>5
<1> QED
  BY <1>6 DEF IpJoin, f, a
=============================================================================
