----------------------------- MODULE DatagramProofs -----------------------------
(***************************************************************************)
(* Theorems of Datagram: what every packet of a client becomes on its way  *)
(* through the program, byte for byte, for all addresses, ports, bodies,   *)
(* identifications and foreign bytes.                                      *)
(***************************************************************************)
EXTENDS Datagram, LayoutProofs

-----------------------------------------------------------------------------
(* One's complement arithmetic (RFC 1071), and the folds of the code. *)

\* A sum in one's complement arithmetic is a std::uint16_t.
LEMMA OnesSumRange == \A s \in Nat : OnesSum(s) \in 0..Ones
<1> SUFFICES ASSUME NEW s \in Nat PROVE OnesSum(s) \in 0..Ones
  OBVIOUS
<1>1. CASE s = 0
  BY <1>1, Sizes DEF OnesSum
<1>2. CASE s # 0
  <2>1. ((s - 1) % 65535) + 1 \in Nat /\ ((s - 1) % 65535) + 1 <= 65535
    BY <1>2
  <2>2. OnesSum(s) = ((s - 1) % 65535) + 1
    BY <1>2, Values DEF OnesSum
  <2> QED
    BY <2>1, <2>2, Sizes
<1> QED
  BY <1>1, <1>2

\* The complement of a std::uint16_t is one.
LEMMA ComplementRange == \A w \in 0..Ones : Complement(w) \in 0..Ones
<1> SUFFICES ASSUME NEW w \in 0..Ones PROVE Complement(w) \in 0..Ones
  OBVIOUS
<1>1. Complement(w) = 65535 - w
  BY Values DEF Complement
<1>2. w \in Nat /\ w <= 65535
  BY Sizes
<1>3. 65535 - w \in Nat /\ 65535 - w <= 65535
  BY <1>2
<1> QED
  BY <1>1, <1>3, Sizes

\* The sum of so few words that its complement is found by adding carries.
FewWords(s) == s <= 65535 * 65535

\* A sum and the complement of its one's complement sum make zero in that arithmetic.
LEMMA Completed ==
    ASSUME NEW s \in Nat, FewWords(s)
    PROVE  \E k \in Nat : k >= 1 /\ k <= 65536 /\ s + Complement(OnesSum(s)) = k * 65535
<1>0. s <= 65535 * 65535
  BY DEF FewWords
<1>1. CASE s = 0
  <2>1. s + Complement(OnesSum(s)) = 1 * 65535
    BY <1>1, Values DEF OnesSum, Complement
  <2> QED
    BY <2>1
<1>2. CASE s # 0
  <2> DEFINE k == ((s - 1) \div 65535) + 1
  <2>1. s + Complement(OnesSum(s)) = s + (65535 - (((s - 1) % 65535) + 1))
    BY <1>2, Values DEF OnesSum, Complement
  <2>2. s - 1 = ((s - 1) \div 65535) * 65535 + ((s - 1) % 65535)
    BY <1>2
  <2>3. k \in Nat /\ k >= 1 /\ k <= 65536
    BY <1>0, <1>2
  <2>4. s + (65535 - (((s - 1) % 65535) + 1)) = k * 65535
    BY <1>2, <2>2
  <2> HIDE DEF k
  <2> QED
    BY <2>1, <2>3, <2>4
<1> QED
  BY <1>1, <1>2

\* A fold that loses no carry is a sum in one's complement arithmetic.
LEMMA FoldIsOnesSum ==
    ASSUME NEW s \in Nat, FoldsOnce(s)
    PROVE  Fold(s) = OnesSum(s)
<1>1. CASE s = 0
  BY <1>1, Values DEF Fold, OnesSum
<1>2. CASE s # 0
  BY <1>2, FoldRegular DEF OnesSum
<1> QED
  BY <1>1, <1>2

\* Sums may be added up in parts.
LEMMA OnesSumParts ==
    ASSUME NEW a \in Nat, NEW b \in Nat
    PROVE  OnesSum(OnesSum(a) + OnesSum(b)) = OnesSum(a + b)
<1>1. CASE a = 0 /\ b = 0
  BY <1>1 DEF OnesSum
<1>2. CASE a = 0 /\ b # 0
  <2>1. (((b - 1) % 65535) + 1 - 1) % 65535 = (b - 1) % 65535 /\ ((b - 1) % 65535) + 1 # 0
    BY <1>2
  <2> QED
    BY <1>2, <2>1, Values DEF OnesSum
<1>3. CASE a # 0 /\ b = 0
  <2>1. (((a - 1) % 65535) + 1 - 1) % 65535 = (a - 1) % 65535 /\ ((a - 1) % 65535) + 1 # 0
    BY <1>3
  <2> QED
    BY <1>3, <2>1, Values DEF OnesSum
<1>4. CASE a # 0 /\ b # 0
  <2> DEFINE x == (a - 1) % 65535
             y == (b - 1) % 65535
  <2>1. x \in Nat /\ y \in Nat /\ (x + y + 1) % 65535 = (a + b - 1) % 65535
    BY <1>4
  <2>2. OnesSum(a) = x + 1 /\ OnesSum(b) = y + 1
    BY <1>4, Values DEF OnesSum
  <2>3. OnesSum(a + b) = ((a + b - 1) % 65535) + 1
    BY <1>4, Values DEF OnesSum
  <2> HIDE DEF x, y
  <2>4. OnesSum((x + 1) + (y + 1)) = ((x + y + 1) % 65535) + 1
    BY <2>1, Values DEF OnesSum
  <2> QED
    BY <2>1, <2>2, <2>3, <2>4
<1> QED
  BY <1>1, <1>2, <1>3, <1>4

\* Zero, in that arithmetic.
LEMMA OnesSumMultiple == \A k \in Nat : k >= 1 => OnesSum(k * 65535) = Ones
<1> SUFFICES ASSUME NEW k \in Nat, k >= 1 PROVE OnesSum(k * 65535) = Ones
  OBVIOUS
<1>1. k * 65535 # 0 /\ (k * 65535 - 1) % 65535 = 65534
  BY Z3
<1> QED
  BY <1>1, Values DEF OnesSum

-----------------------------------------------------------------------------
(* The packets of a client. *)

\* Two bytes are a field, as are what writeUint16 and writeUint32 write.
LEMMA FieldsAre ==
    /\ \A x, y \in Bytes : <<x, y>> \in Fields(2)
    /\ \A x, y, z, w \in Bytes : <<x, y, z, w>> \in Fields(4)
    /\ \A w \in 0..Ones : Bytes16(w) \in Fields(2)
    /\ \A addr \in Addresses : Bytes32(addr) \in Fields(4)
<1>1. \A x, y \in Bytes : <<x, y>> \in Fields(2)
  BY DEF Fields
<1>2. \A x, y, z, w \in Bytes : <<x, y, z, w>> \in Fields(4)
  BY DEF Fields
<1>3. \A w \in 0..Ones : Bytes16(w) \in Fields(2)
  BY Bytes16Is DEF Fields
<1>4. \A addr \in Addresses : Bytes32(addr) \in Fields(4)
  BY Bytes32Is DEF Fields
<1> QED
  BY <1>1, <1>2, <1>3, <1>4

\* The checksum of a client is a std::uint16_t.
LEMMA RfcChecksumRange ==
    ASSUME NEW b \in Seq(Bytes)
    PROVE  RfcChecksum(b) \in 0..Ones
<1>1. 0 \in Bytes
  BY Values
<1>2. WordSum(b, 0) \in Nat
  BY <1>1, WordSumBound
<1> QED
  BY <1>2, OnesSumRange, ComplementRange DEF RfcChecksum

\* A std::uint16_t holds the length of b behind a header of n bytes.
Fits(n, b) == n + Len(b) <= 65535

\* The sum of a short packet.
LEMMA SumSmall ==
    ASSUME NEW b \in Seq(Bytes), Len(b) <= 65535
    PROVE  WordSum(b, 0) \in Nat /\ WordSum(b, 0) <= 32768 * 65535
<1>1. 0 \in Bytes
  BY Values
<1>2. WordSum(b, 0) \in Nat /\ WordSum(b, 0) <= Rounds(b) * Ones
  BY <1>1, WordSumBound
<1>3. PICK l \in Nat : l = Len(b) /\ l <= 65535
  BY LenProperties
<1>4. (l + 1) \div 2 \in Nat /\ (l + 1) \div 2 <= 32768
  BY <1>3
<1>5. Rounds(b) \in Nat /\ Rounds(b) <= 32768
  BY <1>3, <1>4 DEF Rounds
<1>6. PICK r \in Nat : r = Rounds(b)
  BY <1>5
<1>7. WordSum(b, 0) <= r * 65535 /\ r <= 32768
  BY <1>2, <1>5, <1>6, Values
<1> QED
  BY <1>2, <1>7

\* FoldMultiple, of a number that is known by its value.
LEMMA FoldFull ==
    ASSUME NEW k \in Nat, k >= 1, k <= 65536
    PROVE  Fold(k * 65535) = Ones
<1>1. (k * 65535 + ((k * 65535) \div 65536)) % 65536 = 65535
  OBVIOUS
<1> QED
  BY <1>1, Values DEF Fold

\* A header of any of the two sides, with c where its checksum is, and what the checksum
\* is computed over.
Header(src, dst, protocol, id, ttl, payload, c) ==
    IpJoin(<<69, 0>>, Bytes16(20 + Len(payload)), Bytes16(id), <<0, 0, ttl, protocol>>, c,
           Bytes32(src), Bytes32(dst))
HeaderCovered(src, dst, protocol, id, ttl, payload) ==
    (<<69, 0>> \o Bytes16(20 + Len(payload)) \o Bytes16(id) \o <<0, 0, ttl, protocol>>)
        \o (Bytes32(src) \o Bytes32(dst))
FullHeader(src, dst, protocol, id, ttl, payload) ==
    Header(src, dst, protocol, id, ttl, payload,
           Bytes16(RfcChecksum(HeaderCovered(src, dst, protocol, id, ttl, payload))))

\* A header, of any of the two sides, is made of these fields, and its sum is zero in
\* one's complement arithmetic when the checksum is the one of RFC 791.
LEMMA HeaderIs ==
    ASSUME NEW src, NEW dst, NEW protocol, NEW ttl, NEW id, NEW payload,
           src \in Addresses, dst \in Addresses, protocol \in Bytes, ttl \in Bytes,
           id \in 0..Ones, payload \in Seq(Bytes), Fits(20, payload)
    PROVE  LET h == FullHeader(src, dst, protocol, id, ttl, payload)
           IN  /\ RfcIp(src, dst, protocol, id, ttl, payload) = h \o payload
               /\ h \in Fields(20)
               /\ h[1] = 69 /\ h[3] * Byte + h[4] = 20 + Len(payload) /\ h[10] = protocol
               /\ Uint32(h, 12) = src /\ Uint32(h, 16) = dst
               /\ CalculateChecksum(h, 0) = Ones
<1> DEFINE v == <<69, 0>>
           t == Bytes16(20 + Len(payload))
           i == Bytes16(id)
           q == <<0, 0, ttl, protocol>>
           s == Bytes32(src)
           d == Bytes32(dst)
           front == v \o t \o i \o q
           addrs == s \o d
           covered == front \o addrs
           sum == RfcChecksum(covered)
           c == Bytes16(sum)
           h == IpJoin(v, t, i, q, c, s, d)
<1>1. 20 + Len(payload) \in 0..Ones /\ Len(payload) \in Nat
  <2>1. PICK l \in Nat : l = Len(payload) /\ 20 + l <= 65535
    BY LenProperties DEF Fits
  <2> QED
    BY <2>1, Sizes
<1>2. 0 \in Bytes /\ 69 \in Bytes
  BY Values
<1>3. v \in Fields(2) /\ t \in Fields(2) /\ i \in Fields(2) /\ q \in Fields(4)
      /\ s \in Fields(4) /\ d \in Fields(4)
  BY <1>1, <1>2, FieldsAre
<1>4. front \in Fields(10) /\ addrs \in Fields(8)
  <2> HIDE DEF v, t, i, q, s, d
  <2> QED
    BY <1>3, IpParts
<1>5. covered \in Seq(Bytes) /\ Len(covered) <= 65535
  <2> HIDE DEF front, addrs
  <2>1. front \in Seq(Bytes) /\ addrs \in Seq(Bytes)
    BY <1>4 DEF Fields
  <2>2. front \o addrs \in Seq(Bytes) /\ Len(front \o addrs) = Len(front) + Len(addrs)
    BY <2>1, Cat
  <2>3. Len(front) = 10 /\ Len(addrs) = 8
    BY <1>4 DEF Fields
  <2> HIDE DEF covered
  <2>4. covered \in Seq(Bytes) /\ Len(covered) = Len(front) + Len(addrs)
    BY <2>2 DEF covered
  <2> QED
    BY <2>3, <2>4
<1>6. sum \in 0..Ones
  <2> HIDE DEF covered
  <2> QED
    BY <1>5, RfcChecksumRange
<1>7. c \in Fields(2) /\ c[1] * Byte + c[2] = sum
  <2> HIDE DEF sum
  <2> QED
    BY <1>6, FieldsAre, Bytes16Is, Halves
<1>8. t[1] * Byte + t[2] = 20 + Len(payload)
  BY <1>1, Bytes16Is, Halves
<1>9. Uint32(s, 0) = src /\ Uint32(d, 0) = dst
  BY AddressRead
<1>10. v[1] = 69 /\ q[4] = protocol
  OBVIOUS
<1>11. RfcIp(src, dst, protocol, id, ttl, payload) = h \o payload
  BY DEF RfcIp, IpJoin
<1> HIDE DEF c, v, t, i, q, s, d
<1>12. h \in Fields(20) /\ h = IpGlue(v, t, i, q, c, s, d)
  BY <1>3, <1>7, IpParts
<1>13. h[1] = v[1] /\ h[3] = t[1] /\ h[4] = t[2] /\ h[10] = q[4]
       /\ h[13] = s[1] /\ h[14] = s[2] /\ h[15] = s[3] /\ h[16] = s[4]
       /\ h[17] = d[1] /\ h[18] = d[2] /\ h[19] = d[3] /\ h[20] = d[4]
  <2> HIDE DEF h
  <2> QED
    BY <1>12 DEF IpGlue
<1>14. WordSum(h, 0) = WordSum(covered, 0) + WordSum(c, 0)
  BY <1>2, <1>3, <1>7, IpSum
<1> HIDE DEF h
<1>15. WordSum(c, 0) = sum
  BY <1>2, <1>7, FieldSum
<1> HIDE DEF covered
<1>16. WordSum(covered, 0) \in Nat /\ WordSum(covered, 0) <= 32768 * 65535
  BY <1>5, SumSmall
<1>17. sum = Complement(OnesSum(WordSum(covered, 0)))
  BY DEF RfcChecksum
<1> HIDE DEF sum
<1>18. CalculateChecksum(h, 0) = Ones
  <2> DEFINE x == WordSum(covered, 0)
  <2>1. x \in Nat /\ FewWords(x)
    BY <1>16 DEF FewWords
  <2>2. WordSum(h, 0) = x + Complement(OnesSum(x))
    BY <1>14, <1>15, <1>17
  <2> HIDE DEF x
  <2>3. PICK k \in Nat : k >= 1 /\ k <= 65536 /\ WordSum(h, 0) = k * 65535
    BY <2>1, <2>2, Completed
  <2> QED
    BY <2>3, FoldFull DEF CalculateChecksum
<1>19. Uint32(h, 12) = src /\ Uint32(h, 16) = dst
  BY <1>9, <1>13 DEF Uint32, Uint16
<1> QED
  BY <1>8, <1>10, <1>11, <1>12, <1>13, <1>18, <1>19 
     DEF FullHeader, Header, HeaderCovered, covered, front, addrs, sum, c, h, v, t, i, q, s, d

\* Fields after one another are a field.
LEMMA FieldCat ==
    ASSUME NEW m \in Nat, NEW n \in Nat, NEW a \in Fields(m), NEW b \in Fields(n)
    PROVE  a \o b \in Fields(m + n)
<1>1. a \in Seq(Bytes) /\ b \in Seq(Bytes)
  BY DEF Fields
<1>2. a \o b \in Seq(Bytes) /\ Len(a \o b) = Len(a) + Len(b)
  BY <1>1, Cat
<1> DEFINE ab == a \o b
<1> HIDE DEF ab
<1>3. ab \in Seq(Bytes) /\ Len(ab) = Len(a) + Len(b)
  BY <1>2 DEF ab
<1>4. ab \in Fields(m + n)
  BY <1>3 DEF Fields
<1> QED
  BY <1>4 DEF ab

\* The ports and the length a UDP header begins with.
LEMMA UdpFrontIs ==
    ASSUME NEW sport \in 0..Ones, NEW dport \in 0..Ones, NEW body \in Seq(Bytes),
           Fits(8, body)
    PROVE  /\ UdpFront(sport, dport, body) \in Fields(6)
           /\ UdpFront(sport, dport, body) =
                [k \in 1..6 |-> IF k <= 2 THEN Bytes16(sport)[k]
                                ELSE IF k <= 4 THEN Bytes16(dport)[k - 2]
                                ELSE Bytes16(8 + Len(body))[k - 4]]
<1> DEFINE a == Bytes16(sport)
           b == Bytes16(dport)
           c == Bytes16(8 + Len(body))
           f == a \o b \o c
<1>1. 8 + Len(body) \in 0..Ones
  <2>1. PICK l \in Nat : l = Len(body) /\ 8 + l <= 65535
    BY LenProperties DEF Fits
  <2> QED
    BY <2>1, Sizes
<1>2. a \in Fields(2) /\ b \in Fields(2) /\ c \in Fields(2)
  BY <1>1, FieldsAre
<1>3. UdpFront(sport, dport, body) = f
  BY DEF UdpFront
<1> HIDE DEF a, b, c
<1>4. a \in Seq(Bytes) /\ b \in Seq(Bytes) /\ c \in Seq(Bytes)
  BY <1>2 DEF Fields
<1>5. f \in Seq(Bytes) /\ Len(f) = Len(a) + Len(b) + Len(c)
  BY <1>4, ThreeParts
<1>6. f = [k \in 1..(Len(a) + Len(b) + Len(c)) |->
             IF k <= Len(a) THEN a[k] ELSE IF k <= Len(a) + Len(b) THEN b[k - Len(a)]
             ELSE c[k - (Len(a) + Len(b))]]
  BY <1>4, ThreeParts
<1>7. Len(a) = 2 /\ Len(b) = 2 /\ Len(c) = 2
  BY <1>2 DEF Fields
<1> HIDE DEF f
<1>8. f \in Fields(6)
  BY <1>5, <1>7 DEF Fields
<1>9. f = [k \in 1..6 |-> IF k <= 2 THEN a[k] ELSE IF k <= 4 THEN b[k - 2] ELSE c[k - 4]]
  BY <1>6, <1>7
<1> QED
  BY <1>3, <1>8, <1>9 DEF a, b, c

\* A segment of any of the two sides.
Segment(sport, dport, c, body) == UdpFront(sport, dport, body) \o c \o body

\* What lies in it.
LEMMA SegmentIs ==
    ASSUME NEW sport, NEW dport, NEW body, NEW c, sport \in 0..Ones, dport \in 0..Ones,
           body \in Seq(Bytes), Fits(8, body), c \in Fields(2)
    PROVE  /\ Segment(sport, dport, c, body) \in Seq(Bytes)
           /\ Len(Segment(sport, dport, c, body)) = 8 + Len(body)
           /\ SrcPort(Segment(sport, dport, c, body)) = sport
           /\ DstPort(Segment(sport, dport, c, body)) = dport
           /\ UdpPayload(Segment(sport, dport, c, body)) = body \o Zeros(8)
<1> DEFINE f == UdpFront(sport, dport, body)
           h == f \o c
           l == 8 + Len(body)
<1>1. f \in Fields(6)
  BY UdpFrontIs
<1>2. f = [k \in 1..6 |-> IF k <= 2 THEN Bytes16(sport)[k]
                          ELSE IF k <= 4 THEN Bytes16(dport)[k - 2]
                          ELSE Bytes16(l)[k - 4]]
  BY UdpFrontIs
<1>3. l \in 0..Ones
  <2>1. PICK n \in Nat : n = Len(body) /\ 8 + n <= 65535
    BY LenProperties DEF Fits
  <2> QED
    BY <2>1, Sizes
<1> HIDE DEF f
<1>4. f[1] * Byte + f[2] = sport /\ f[3] * Byte + f[4] = dport /\ f[5] * Byte + f[6] = l
  <2> HIDE DEF l
  <2> DEFINE x == Bytes16(sport)
             y == Bytes16(dport)
             z == Bytes16(l)
  <2>1. x[1] * Byte + x[2] = sport /\ y[1] * Byte + y[2] = dport /\ z[1] * Byte + z[2] = l
    BY <1>3, Bytes16Is, Halves
  <2>2. f = [k \in 1..6 |-> IF k <= 2 THEN x[k] ELSE IF k <= 4 THEN y[k - 2] ELSE z[k - 4]]
    BY <1>2
  <2> HIDE DEF x, y, z
  <2>3. f[1] = x[1] /\ f[2] = x[2] /\ f[3] = y[1] /\ f[4] = y[2] /\ f[5] = z[1] /\ f[6] = z[2]
    BY <2>2
  <2> QED
    BY <2>1, <2>3
<1>5. f \in Seq(Bytes) /\ c \in Seq(Bytes)
  BY <1>1 DEF Fields
<1>6. Len(f) = 6 /\ Len(c) = 2
  BY <1>1 DEF Fields
<1>7. h \in Seq(Bytes) /\ Len(h) = Len(f) + Len(c) /\ \A k \in 1..Len(f) : h[k] = f[k]
  BY <1>5, Cat
<1> HIDE DEF h
<1>8. h[1] = f[1] /\ h[2] = f[2] /\ h[3] = f[3] /\ h[4] = f[4] /\ h[5] = f[5] /\ h[6] = f[6]
  BY <1>6, <1>7
<1>9. Len(h) = 8
  BY <1>6, <1>7
<1>10. h \in Seq(Bytes)
  BY <1>7
<1>11. h \in Fields(8)
  BY <1>10, <1>9 DEF Fields
<1>12. h[5] * Byte + h[6] = 8 + Len(body)
  BY <1>4, <1>8
<1>13. SrcPort(h \o body) = h[1] * Byte + h[2] /\ DstPort(h \o body) = h[3] * Byte + h[4]
       /\ UdpPayload(h \o body) = body \o Zeros(8)
  BY <1>11, <1>12, UdpRead
<1>14. h \o body \in Seq(Bytes) /\ Len(h \o body) = Len(h) + Len(body)
  BY <1>10, Cat
<1>15. Segment(sport, dport, c, body) = h \o body
  BY DEF Segment, f, h
<1> QED
  BY <1>4, <1>8, <1>9, <1>13, <1>14, <1>15

\* The sum of a segment, and of what RFC 768 has the checksum computed over.
LEMMA SegmentSums ==
    ASSUME NEW src \in Addresses, NEW dst \in Addresses,
           NEW sport \in 0..Ones, NEW dport \in 0..Ones, NEW body \in Seq(Bytes),
           Fits(8, body), NEW c \in Fields(2)
    PROVE  LET f == UdpFront(sport, dport, body)
               x == Bytes32(src) \o Bytes32(dst) \o <<0, 17>> \o Bytes16(8 + Len(body))
               p == PseudoHeader(src, dst, 8 + Len(body))
           IN  /\ WordSum(Segment(sport, dport, c, body), 0)
                    = WordSum(f, 0) + (c[1] * Byte + c[2]) + WordSum(body, 0)
               /\ WordSum(x \o f \o body, 0) = WordSum(p, 0) + WordSum(f, 0) + WordSum(body, 0)
               /\ WordSum(p, 0) \in Nat /\ WordSum(p, 0) <= 6 * 65535
               /\ WordSum(f, 0) \in Nat /\ WordSum(f, 0) <= 3 * 65535
               /\ WordSum(body, 0) \in Nat /\ WordSum(body, 0) <= 32768 * 65535
<1> DEFINE f == UdpFront(sport, dport, body)
           s == Bytes32(src)
           d == Bytes32(dst)
           u == <<0, 17>>
           w == Bytes16(8 + Len(body))
           x == s \o d \o u \o w
           p == PseudoHeader(src, dst, 8 + Len(body))
<1>1. 8 + Len(body) \in 0..Ones /\ Len(body) <= 65535
  <2>1. PICK n \in Nat : n = Len(body) /\ 8 + n <= 65535
    BY LenProperties DEF Fits
  <2> QED
    BY <2>1, Sizes
<1>2. 0 \in Bytes /\ 17 \in Bytes
  BY Sizes
<1>3. p = x
  <2> DEFINE l == 8 + Len(body)
  <2>1. l \in 0..Ones
    BY <1>1
  <2> HIDE DEF l
  <2>2. PseudoHeader(src, dst, l) = Bytes32(src) \o Bytes32(dst) \o <<0, 17>> \o Bytes16(l)
    BY <2>1, PseudoHeaderIs
  <2> QED
    BY <2>2 DEF l
<1>4. s \in Fields(4) /\ d \in Fields(4) /\ u \in Fields(2) /\ w \in Fields(2) /\ f \in Fields(6)
  BY <1>1, <1>2, FieldsAre, UdpFrontIs
<1>5. x \in Fields(12)
  <2> HIDE DEF s, d, u, w
  <2>1. s \o d \in Fields(4 + 4)
    BY <1>4, FieldCat
  <2>2. s \o d \in Fields(8)
    BY <2>1
  <2> DEFINE sd == s \o d
  <2> HIDE DEF sd
  <2>3. sd \o u \in Fields(8 + 2)
    BY <1>4, <2>2, FieldCat DEF sd
  <2> DEFINE sdu == sd \o u
  <2>4. sdu \in Fields(10)
    BY <2>3
  <2> HIDE DEF sdu
  <2>5. sdu \o w \in Fields(10 + 2)
    BY <1>4, <2>4, FieldCat
  <2> QED
    BY <2>5 DEF sdu, sd
<1> HIDE DEF f, x, p
<1>6. x \in Seq(Bytes) /\ Len(x) = 2 * 6 /\ f \in Seq(Bytes) /\ Len(f) = 2 * 3
      /\ c \in Seq(Bytes) /\ Len(c) = 2 * 1
  BY <1>4, <1>5 DEF Fields
<1>7. x \in Seq(Bytes) /\ f \in Seq(Bytes) /\ c \in Seq(Bytes)
  BY <1>6
<1>8. WordSum(f \o c \o body, 0) = WordSum(f, 0) + WordSum(c, 0) + WordSum(body, 0)
  <2>1. PICK m \in Nat, n \in Nat : m = 3 /\ n = 1
    OBVIOUS
  <2>2. f \in Seq(Bytes) /\ c \in Seq(Bytes)
    BY <1>6
  <2>3. Len(f) = 2 * m /\ Len(c) = 2 * n
    BY <1>6, <2>1
  <2> QED
    BY <1>2, <2>2, <2>3, WordSumThree
<1>9. WordSum(x \o f \o body, 0) = WordSum(x, 0) + WordSum(f, 0) + WordSum(body, 0)
  <2>1. PICK m \in Nat, n \in Nat : m = 6 /\ n = 3
    OBVIOUS
  <2>2. x \in Seq(Bytes) /\ f \in Seq(Bytes)
    BY <1>6
  <2>3. Len(x) = 2 * m /\ Len(f) = 2 * n
    BY <1>6, <2>1
  <2> QED
    BY <1>2, <2>2, <2>3, WordSumThree
<1>10. WordSum(c, 0) = c[1] * Byte + c[2]
  BY <1>2, FieldSum
<1>11. WordSum(x, 0) \in Nat /\ WordSum(x, 0) <= 6 * 65535
  <2>1. Rounds(x) = 6
    BY <1>6 DEF Rounds
  <2>2. WordSum(x, 0) \in Nat /\ WordSum(x, 0) <= Rounds(x) * Ones
    BY <1>2, <1>7, WordSumBound
  <2>3. Rounds(x) * Ones = 6 * 65535
    BY <2>1, OnesTimes
  <2> QED
    BY <2>2, <2>3
<1>12. WordSum(f, 0) \in Nat /\ WordSum(f, 0) <= 3 * 65535
  <2>1. Rounds(f) = 3
    BY <1>6 DEF Rounds
  <2>2. WordSum(f, 0) \in Nat /\ WordSum(f, 0) <= Rounds(f) * Ones
    BY <1>2, <1>7, WordSumBound
  <2>3. Rounds(f) * Ones = 3 * 65535
    BY <2>1, OnesTimes
  <2> QED
    BY <2>2, <2>3
<1>13. WordSum(body, 0) \in Nat /\ WordSum(body, 0) <= 32768 * 65535
  BY <1>1, SumSmall
<1>14. WordSum(Segment(sport, dport, c, body), 0)
         = WordSum(f, 0) + (c[1] * Byte + c[2]) + WordSum(body, 0)
  BY <1>8, <1>10 DEF Segment, f
<1>15. WordSum(x \o f \o body, 0) = WordSum(p, 0) + WordSum(f, 0) + WordSum(body, 0)
  BY <1>3, <1>9
<1>16. WordSum(p, 0) \in Nat /\ WordSum(p, 0) <= 6 * 65535
  BY <1>3, <1>11
<1> QED
  BY <1>12, <1>13, <1>14, <1>15, <1>16 DEF f, p, x

\* What a client computes the checksum of a datagram over.
Covered(src, dst, sport, dport, body) ==
    Bytes32(src) \o Bytes32(dst) \o <<0, 17>> \o Bytes16(8 + Len(body))
        \o UdpFront(sport, dport, body) \o body

\* It is bytes, few enough that every carry can be added.
LEMMA CoveredIs ==
    ASSUME NEW src, NEW dst, NEW sport, NEW dport, NEW body,
           src \in Addresses, dst \in Addresses, sport \in 0..Ones, dport \in 0..Ones,
           body \in Seq(Bytes), Fits(8, body)
    PROVE  /\ WordSum(PseudoHeader(src, dst, 8 + Len(body)), 0) \in Nat
           /\ WordSum(Covered(src, dst, sport, dport, body), 0) \in Nat
           /\ FewWords(WordSum(Covered(src, dst, sport, dport, body), 0))
           /\ \A c \in Fields(2) :
                 WordSum(PseudoHeader(src, dst, 8 + Len(body)), 0)
                     + WordSum(Segment(sport, dport, c, body), 0)
                   = WordSum(Covered(src, dst, sport, dport, body), 0) + (c[1] * Byte + c[2])
<1> DEFINE f == UdpFront(sport, dport, body)
           x == Bytes32(src) \o Bytes32(dst) \o <<0, 17>> \o Bytes16(8 + Len(body))
           p == PseudoHeader(src, dst, 8 + Len(body))
<1>1. ASSUME NEW c \in Fields(2)
      PROVE  /\ WordSum(Segment(sport, dport, c, body), 0)
                  = WordSum(f, 0) + (c[1] * Byte + c[2]) + WordSum(body, 0)
             /\ WordSum(x \o f \o body, 0) = WordSum(p, 0) + WordSum(f, 0) + WordSum(body, 0)
             /\ WordSum(p, 0) \in Nat /\ WordSum(p, 0) <= 6 * 65535
             /\ WordSum(f, 0) \in Nat /\ WordSum(f, 0) <= 3 * 65535
             /\ WordSum(body, 0) \in Nat /\ WordSum(body, 0) <= 32768 * 65535
  BY SegmentSums
<1>2. Covered(src, dst, sport, dport, body) = x \o f \o body
  BY DEF Covered
<1> HIDE DEF f, x, p
<1>3. <<0, 0>> \in Fields(2)
  BY FieldsAre, Sizes
<1>4. /\ WordSum(p, 0) \in Nat /\ WordSum(p, 0) <= 6 * 65535
      /\ WordSum(f, 0) \in Nat /\ WordSum(f, 0) <= 3 * 65535
      /\ WordSum(body, 0) \in Nat /\ WordSum(body, 0) <= 32768 * 65535
      /\ WordSum(x \o f \o body, 0) = WordSum(p, 0) + WordSum(f, 0) + WordSum(body, 0)
  BY <1>1, <1>3
<1>5. ASSUME NEW c \in Fields(2)
      PROVE  WordSum(p, 0) + WordSum(Segment(sport, dport, c, body), 0)
               = WordSum(x \o f \o body, 0) + (c[1] * Byte + c[2])
  <2>1. WordSum(Segment(sport, dport, c, body), 0)
          = WordSum(f, 0) + (c[1] * Byte + c[2]) + WordSum(body, 0)
    BY <1>1
  <2>2. c[1] * Byte + c[2] \in Nat
    <3>1. c[1] \in Bytes /\ c[2] \in Bytes
      BY ElementOfSeq, FieldDomain
    <3>2. c[1] \in Nat /\ c[2] \in Nat
      BY <3>1, Sizes
    <3> QED
      BY <3>2, OnesIn
  <2> QED
    BY <1>4, <2>1, <2>2
<1>6. WordSum(x \o f \o body, 0) \in Nat /\ FewWords(WordSum(x \o f \o body, 0))
  BY <1>4 DEF FewWords
<1> QED
  BY <1>2, <1>4, <1>5, <1>6 DEF p

\* The checksum of a client's datagram: it may send none.
UdpSum(src, dst, sport, dport, body, summed) ==
    IF summed THEN RfcUdpChecksum(src, dst, UdpFront(sport, dport, body), body) ELSE 0

\* A datagram of a client is a segment whose sum, with that of its pseudo header, is zero
\* in one's complement arithmetic.
LEMMA RfcUdpIs ==
    ASSUME NEW src, NEW dst, NEW sport, NEW dport, NEW body, NEW summed,
           src \in Addresses, dst \in Addresses, sport \in 0..Ones, dport \in 0..Ones,
           body \in Seq(Bytes), Fits(8, body), summed \in BOOLEAN
    PROVE  LET c == UdpSum(src, dst, sport, dport, body, summed)
               s == Segment(sport, dport, Bytes16(c), body)
           IN  /\ c \in 0..Ones
               /\ RfcUdp(src, sport, dst, dport, body, summed) = s
               /\ summed => OnesSum(WordSum(PseudoHeader(src, dst, 8 + Len(body)), 0)
                                     + WordSum(s, 0)) = Ones
<1> DEFINE f == UdpFront(sport, dport, body)
           sum == RfcUdpChecksum(src, dst, f, body)
           c == IF summed THEN sum ELSE 0
           x == Covered(src, dst, sport, dport, body)
           y == WordSum(x, 0)
<1>1. y \in Nat /\ FewWords(y)
  BY CoveredIs
<1>2. sum = IF Complement(OnesSum(y)) = 0 THEN Ones ELSE Complement(OnesSum(y))
  BY DEF RfcUdpChecksum, RfcChecksum, Covered
<1>3. RfcUdp(src, sport, dst, dport, body, summed) = Segment(sport, dport, Bytes16(c), body)
  BY DEF RfcUdp, Segment
<1>4. \A b \in Fields(2) : WordSum(PseudoHeader(src, dst, 8 + Len(body)), 0)
                             + WordSum(Segment(sport, dport, b, body), 0) = y + (b[1] * Byte + b[2])
  BY CoveredIs
<1> HIDE DEF sum, y
<1>5. OnesSum(y) \in 0..Ones /\ Complement(OnesSum(y)) \in 0..Ones
  <2>1. y \in Nat
    BY <1>1
  <2>4. OnesSum(y) \in 0..Ones
    BY <2>1, OnesSumRange
  <2> DEFINE w == OnesSum(y)
  <2>2. w \in 0..Ones
    BY <2>4
  <2> HIDE DEF w
  <2>3. Complement(w) \in 0..Ones
    BY <2>2, ComplementRange
  <2> QED
    BY <2>2, <2>3 DEF w
<1>6. sum \in 0..Ones /\ 0 \in 0..Ones
  <2>1. Ones \in 0..Ones /\ 0 \in 0..Ones
    BY OnesIn
  <2> QED
    BY <1>2, <1>5, <2>1
<1>7. c \in 0..Ones
  BY <1>6
<1>8. ASSUME summed
      PROVE  \E k \in Nat : /\ k >= 1
                            /\ WordSum(PseudoHeader(src, dst, 8 + Len(body)), 0)
                                + WordSum(Segment(sport, dport, Bytes16(c), body), 0) = k * 65535
  <2>1. PICK k \in Nat : k >= 1 /\ y + Complement(OnesSum(y)) = k * 65535
    BY <1>1, Completed
  <2>2. c = sum
    BY <1>8
  <2> HIDE DEF c
  <2>3. Bytes16(c) \in Fields(2) /\ Bytes16(c)[1] * Byte + Bytes16(c)[2] = c
    BY <1>7, FieldsAre, Bytes16Is, Halves
  <2>4. WordSum(PseudoHeader(src, dst, 8 + Len(body)), 0)
          + WordSum(Segment(sport, dport, Bytes16(c), body), 0) = y + c
    BY <1>4, <2>3
  <2>5. y + c = k * 65535 \/ y + c = (k + 1) * 65535
    <3>1. CASE Complement(OnesSum(y)) = 0
      <4>1. c = 1 * Ones /\ y + 0 = k * 65535
        BY <1>2, <2>1, <2>2, <3>1, OnesIn
      <4>2. 1 * Ones = 1 * 65535
        BY OnesTimes
      <4> QED
        BY <1>1, <2>1, <4>1, <4>2
    <3>2. CASE Complement(OnesSum(y)) # 0
      BY <1>2, <2>1, <2>2, <3>2
    <3> QED
      BY <3>1, <3>2
  <2>6. k + 1 \in Nat /\ k + 1 >= 1
    BY <2>1
  <2> DEFINE t == WordSum(PseudoHeader(src, dst, 8 + Len(body)), 0)
                   + WordSum(Segment(sport, dport, Bytes16(c), body), 0)
  <2>7. t = y + c
    BY <2>4
  <2> HIDE DEF t
  <2>8. \E n \in Nat : n >= 1 /\ t = n * 65535
    <3>1. CASE t = k * 65535
      BY <2>1, <3>1
    <3>2. CASE t = (k + 1) * 65535
      BY <2>6, <3>2
    <3> QED
      BY <2>5, <2>7, <3>1, <3>2
  <2> QED
    BY <2>8 DEF t
<1>9. c = UdpSum(src, dst, sport, dport, body, summed)
  BY DEF UdpSum, sum
<1> DEFINE s == Segment(sport, dport, Bytes16(c), body)
           t == WordSum(PseudoHeader(src, dst, 8 + Len(body)), 0) + WordSum(s, 0)
<1>10. ASSUME summed PROVE OnesSum(t) = Ones
  <2>1. PICK k \in Nat : k >= 1 /\ t = k * 65535
    BY <1>8, <1>10
  <2> HIDE DEF t
  <2>2. OnesSum(k * 65535) = Ones
    BY <2>1, OnesSumMultiple
  <2> QED
    BY <2>1, <2>2
<1> HIDE DEF c
<1> QED
  BY <1>3, <1>7, <1>9, <1>10

\* What the folds of the code come to when none loses a carry.
LEMMA FoldsAre ==
    ASSUME NEW p \in Nat, NEW s \in Nat,
           FoldsOnce(p), FoldsOnce(s), FoldsOnce(Fold(p) + Fold(s))
    PROVE  Fold(Fold(p) + Fold(s)) = OnesSum(p + s)
<1>1. Fold(p) = OnesSum(p) /\ Fold(s) = OnesSum(s)
  BY FoldIsOnesSum
<1>2. Fold(p) \in Nat /\ Fold(s) \in Nat
  <2>1. Fold(p) \in 0..Ones /\ Fold(s) \in 0..Ones
    BY FoldRange
  <2> QED
    BY <2>1, OnesIn
<1>3. Fold(Fold(p) + Fold(s)) = OnesSum(Fold(p) + Fold(s))
  <2>1. Fold(p) + Fold(s) \in Nat
    BY <1>2
  <2> QED
    BY <2>1, FoldIsOnesSum
<1> QED
  BY <1>1, <1>3, OnesSumParts

\* An ICMP message of any of the two sides: its type, its checksum and the rest.
IcmpMessage(type, c, rest) == (<<type, 0>> \o c) \o rest

\* What lies in it, and what the setters change.
LEMMA IcmpIs ==
    ASSUME NEW type \in Bytes, NEW c \in Fields(2), NEW rest \in Seq(Bytes)
    PROVE  /\ IcmpMessage(type, c, rest) \in Seq(Bytes)
           /\ Len(IcmpMessage(type, c, rest)) = 4 + Len(rest)
           /\ IcmpType(IcmpMessage(type, c, rest)) = type
           /\ \A new \in Bytes :
                 SetIcmpType(IcmpMessage(type, c, rest), new) = IcmpMessage(new, c, rest)
           /\ \A sum \in 0..Ones :
                 SetIcmpChecksum(IcmpMessage(type, c, rest), sum)
                   = IcmpMessage(type, Bytes16(sum), rest)
<1>1. \A x \in Bytes, b \in Fields(2) :
        /\ <<x, 0>> \o b = <<x, 0, b[1], b[2]>>
        /\ <<x, 0>> \o b \in Fields(4)
  <2> SUFFICES ASSUME NEW x \in Bytes, NEW b \in Fields(2)
               PROVE  /\ <<x, 0>> \o b = <<x, 0, b[1], b[2]>>
                      /\ <<x, 0>> \o b \in Fields(4)
    OBVIOUS
  <2> DEFINE a == <<x, 0>>
             ab == a \o b
  <2>1. a \in Seq(Bytes) /\ b \in Seq(Bytes)
    BY Sizes DEF Fields
  <2>2. Len(a) = 2 /\ Len(b) = 2 /\ a[1] = x /\ a[2] = 0
    BY DEF Fields
  <2> HIDE DEF a
  <2>3. ab \in Seq(Bytes) /\ Len(ab) = Len(a) + Len(b) /\ ab = Glue(a, b)
    BY <2>1, CatIs
  <2> HIDE DEF ab
  <2>4. ab \in Fields(4) /\ ab \in Seq(Bytes) /\ Len(ab) = 4
    BY <2>2, <2>3 DEF Fields
  <2>5. ab[1] = x /\ ab[2] = 0 /\ ab[3] = b[1] /\ ab[4] = b[2]
    BY <2>2, <2>3 DEF Glue
  <2>6. ab = <<x, 0, b[1], b[2]>>
    BY <2>4, <2>5
  <2> QED
    BY <2>4, <2>6 DEF ab, a
<1> DEFINE h == <<type, 0>> \o c
           m == h \o rest
<1>2. h \in Fields(4) /\ h = <<type, 0, c[1], c[2]>>
  BY <1>1
<1> HIDE DEF h
<1>3. h \in Seq(Bytes)
  BY <1>2 DEF Fields
<1>4. Len(h) = 4
  BY <1>2 DEF Fields
<1>5. m \in Seq(Bytes) /\ Len(m) = Len(h) + Len(rest) /\ \A i \in 1..Len(h) : m[i] = h[i]
  BY <1>3, Cat
<1>6. IcmpType(m) = type
  <2>1. m[1] = h[1] /\ h[1] = type
    BY <1>2, <1>4, <1>5
  <2> HIDE DEF m
  <2> QED
    BY <2>1 DEF IcmpType, Uint8
<1>7. ASSUME NEW v \in Seq(Bytes), NEW o \in Nat, o + Len(v) <= 4
      PROVE  Write(m, o, v) = Write(h, o, v) \o rest
  <2>1. o + Len(v) <= Len(h)
    BY <1>4, <1>7
  <2> QED
    BY <1>3, <2>1, WriteFront
<1>8. ASSUME NEW new \in Bytes PROVE SetIcmpType(m, new) = (<<new, 0>> \o c) \o rest
  <2> DEFINE v == <<new>>
  <2>1. v \in Seq(Bytes) /\ DOMAIN v = 1..1 /\ v[1] = new /\ 0 + Len(v) <= 4
    BY Sizes
  <2> HIDE DEF v
  <2>2. Write(m, 0, v) = Write(h, 0, v) \o rest
    BY <1>7, <2>1
  <2>3. Write(h, 0, v) = <<new, 0, c[1], c[2]>>
    BY <1>2, <2>1 DEF Write
  <2> QED
    BY <1>1, <2>2, <2>3 DEF SetIcmpType, v
<1>9. ASSUME NEW sum \in 0..Ones
      PROVE  SetIcmpChecksum(m, sum) = (<<type, 0>> \o Bytes16(sum)) \o rest
  <2> DEFINE v == Bytes16(sum)
  <2>1. v \in Fields(2)
    BY FieldsAre
  <2>2. SetIcmpChecksum(m, sum) = Write(m, 2, v)
    BY DEF SetIcmpChecksum
  <2> HIDE DEF v
  <2>3. v \in Seq(Bytes) /\ DOMAIN v = 1..2 /\ 2 + Len(v) <= 4
    <3>1. DOMAIN v = 1..2
      BY <2>1, FieldDomain
    <3>2. v \in Seq(Bytes) /\ Len(v) = 2
      BY <2>1 DEF Fields
    <3> QED
      BY <3>1, <3>2
  <2>4. Write(m, 2, v) = Write(h, 2, v) \o rest
    BY <1>7, <2>3
  <2>5. Write(h, 2, v) = <<type, 0, v[1], v[2]>>
    BY <1>2, <2>3 DEF Write
  <2>6. <<type, 0>> \o v = <<type, 0, v[1], v[2]>>
    BY <1>1, <2>1
  <2> QED
    BY <2>2, <2>4, <2>5, <2>6 DEF v
<1>10. IcmpMessage(type, c, rest) = m
  BY DEF IcmpMessage, h
<1> HIDE DEF m
<1> QED
  BY <1>4, <1>5, <1>6, <1>8, <1>9, <1>10 DEF IcmpMessage

\* The sum of an ICMP message.
LEMMA IcmpSum ==
    ASSUME NEW type \in Bytes, NEW c \in Fields(2), NEW rest \in Seq(Bytes)
    PROVE  /\ WordSum(IcmpMessage(type, c, rest), 0)
                = WordSum(<<type, 0>> \o rest, 0) + (c[1] * Byte + c[2])
           /\ <<type, 0>> \o rest \in Seq(Bytes) /\ Len(<<type, 0>> \o rest) = 2 + Len(rest)
<1> DEFINE f == <<type, 0>>
<1>1. f \in Fields(2)
  BY FieldsAre, Sizes
<1> HIDE DEF f
<1>2. PICK m \in Nat : m = 1
  OBVIOUS
<1>3. f \in Seq(Bytes) /\ c \in Seq(Bytes)
  BY <1>1 DEF Fields
<1>4. Len(f) = 2 * m /\ Len(c) = 2 * m
  BY <1>1, <1>2 DEF Fields
<1>5. 0 \in Bytes
  BY Sizes
<1>6. WordSum(f \o c \o rest, 0) = WordSum(f, 0) + WordSum(c, 0) + WordSum(rest, 0)
  BY <1>3, <1>4, <1>5, WordSumThree
<1>7. WordSum(f \o rest, 0) = WordSum(f, 0) + WordSum(rest, 0)
  BY <1>3, <1>4, <1>5, WordSumConcat
<1>8. WordSum(f, 0) \in Nat /\ WordSum(c, 0) \in Nat /\ WordSum(rest, 0) \in Nat
  BY <1>3, <1>5, WordSumBound
<1>9. WordSum(c, 0) = c[1] * Byte + c[2]
  BY <1>5, FieldSum
<1>10. WordSum(f \o c \o rest, 0) = WordSum(f \o rest, 0) + WordSum(c, 0)
  BY <1>6, <1>7, <1>8
<1>11. f \o rest \in Seq(Bytes) /\ Len(f \o rest) = Len(f) + Len(rest)
  BY <1>3, Cat
<1>12. Len(f) = 2
  BY <1>1 DEF Fields
<1> QED
  BY <1>9, <1>10, <1>11, <1>12 DEF IcmpMessage, f

\* The echo of a client is one, and its sum is right.
LEMMA RfcIcmpIs ==
    ASSUME NEW type \in Bytes, NEW rest \in Seq(Bytes), Fits(4, rest)
    PROVE  \E c \in 0..Ones :
              /\ c = RfcChecksum(<<type, 0>> \o rest)
              /\ RfcIcmp(type, rest) = IcmpMessage(type, Bytes16(c), rest)
              /\ CalculateChecksum(RfcIcmp(type, rest), 0) = Ones
<1> DEFINE x == <<type, 0>> \o rest
           c == RfcChecksum(x)
           y == WordSum(x, 0)
<1>1. c \in 0..Ones
  <2> DEFINE f == <<type, 0>>
  <2>1. f \in Seq(Bytes)
    BY Sizes
  <2> HIDE DEF f
  <2>2. f \o rest \in Seq(Bytes)
    BY <2>1, Cat
  <2>3. x \in Seq(Bytes)
    BY <2>2 DEF f
  <2> HIDE DEF x
  <2> QED
    BY <2>3, RfcChecksumRange
<1>2. Bytes16(c) \in Fields(2) /\ Bytes16(c)[1] * Byte + Bytes16(c)[2] = c
  <2> HIDE DEF c
  <2> QED
    BY <1>1, FieldsAre, Bytes16Is, Halves
<1>3. RfcIcmp(type, rest) = IcmpMessage(type, Bytes16(c), rest)
  BY DEF RfcIcmp, IcmpMessage
<1>4. c = Complement(OnesSum(y))
  BY DEF RfcChecksum
<1> HIDE DEF c
<1>5. WordSum(IcmpMessage(type, Bytes16(c), rest), 0) = y + c /\ x \in Seq(Bytes)
      /\ Len(x) = 2 + Len(rest)
  BY <1>2, IcmpSum
<1> HIDE DEF x
<1>6. y \in Nat /\ FewWords(y)
  <2>1. Len(x) <= 65535
    BY <1>5, LenProperties DEF Fits
  <2> QED
    BY <1>5, <2>1, SumSmall DEF FewWords
<1> HIDE DEF y
<1>7. PICK k \in Nat : k >= 1 /\ k <= 65536 /\ y + c = k * 65535
  BY <1>4, <1>6, Completed
<1>8. CalculateChecksum(RfcIcmp(type, rest), 0) = Ones
  BY <1>3, <1>5, <1>7, FoldFull DEF CalculateChecksum
<1> QED
  BY <1>1, <1>3, <1>8 DEF c, x

-----------------------------------------------------------------------------
(* The packets of the program. *)

\* The hosts of the model.
LEMMA Hosts ==
    /\ OurAddr \in Addresses /\ GatewayAddr \in Addresses /\ SubnetAddr \in Addresses
    /\ OurMac \in Fields(6) /\ GatewayMac \in Fields(6) /\ BroadcastMac \in Fields(6)
    /\ OurPort \in 0..Ones /\ OtherPort \in 0..Ones
<1>1. /\ 0 \in Bytes /\ 1 \in Bytes /\ 2 \in Bytes /\ 192 \in Bytes /\ 255 \in Bytes
      /\ 94 \in Bytes /\ 83 \in Bytes /\ 10 \in Bytes /\ 20 \in Bytes /\ 30 \in Bytes
      /\ 40 \in Bytes /\ 50 \in Bytes
  BY Sizes
<1>2. ASSUME NEW b1 \in Bytes, NEW b2 \in Bytes, NEW b3 \in Bytes, NEW b4 \in Bytes
      PROVE  Ipv4strToUint32(<<b1, b2, b3, b4>>) \in Addresses
  <2>1. b1 * Byte + b2 \in 0..Ones /\ b3 * Byte + b4 \in 0..Ones
    BY Joined
  <2>2. <<b1 * Byte + b2, b3 * Byte + b4>> \in Addresses
    BY <2>1 DEF Addresses
  <2> QED
    BY <2>2, AddressIs
<1>3. OurAddr \in Addresses /\ GatewayAddr \in Addresses /\ SubnetAddr \in Addresses
  BY <1>1, <1>2 DEF OurAddr, GatewayAddr, SubnetAddr
<1>4. OurMac \in Fields(6)
  BY <1>1 DEF OurMac, Fields
<1>5. GatewayMac \in Fields(6)
  BY <1>1 DEF GatewayMac, Fields
<1>6. BroadcastMac \in Fields(6)
  <2>1. Byte - 1 = 255
    BY OnesIn
  <2>2. BroadcastMac = [i \in 1..6 |-> 255]
    BY <2>1 DEF BroadcastMac
  <2> QED
    BY <1>1, <2>2 DEF Fields
<1>7. OurPort \in 0..Ones /\ OtherPort \in 0..Ones
  BY Sizes DEF OurPort, OtherPort
<1> QED
  BY <1>3, <1>4, <1>5, <1>6, <1>7

\* The frame of the program is the one of a client, filled up with zeros.
LEMMA FrameIs ==
    ASSUME NEW dst \in Fields(6), NEW src \in Fields(6), NEW type \in 0..Ones,
           NEW body \in Seq(Bytes)
    PROVE  /\ EtherFrame(dst, src, type, body) = RfcFrame(dst, src, type, body, 0)
           /\ EtherFrame(dst, src, type, body) \in Seq(Bytes)
BY EtherFrameIs DEF RfcFrame, Filled

\* The ARP packet of the program is the one of RFC 826.
LEMMA ArpIs ==
    ASSUME NEW op, NEW sm, NEW s, NEW tm, NEW t, op \in {1, 2}, sm \in Fields(6),
           s \in Addresses, tm \in Fields(6), t \in Addresses
    PROVE  /\ ArpData(op, sm, Bytes32(s), tm, Bytes32(t)) = RfcArp(op, sm, s, tm, t)
           /\ RfcArp(op, sm, s, tm, t) = ArpJoin(ArpFront(op), sm, Bytes32(s), tm, Bytes32(t))
           /\ RfcArp(op, sm, s, tm, t) \in Seq(Bytes)
<1> DEFINE sp == Bytes32(s)
           tp == Bytes32(t)
           f == ArpFront(op)
<1>1. sp \in Fields(4) /\ tp \in Fields(4)
  BY FieldsAre
<1>2. f \in Fields(8)
  <2>1. op \in Bytes /\ 0 \in Bytes /\ 1 \in Bytes /\ 8 \in Bytes /\ 6 \in Bytes /\ 4 \in Bytes
    BY Sizes
  <2> QED
    BY <2>1 DEF ArpFront, Fields
<1>3. RfcArp(op, sm, s, tm, t) = ArpJoin(f, sm, sp, tm, tp)
  BY DEF RfcArp, ArpJoin, ArpFront
<1> HIDE DEF sp, tp
<1>4. ArpData(op, sm, sp, tm, tp) = ArpJoin(f, sm, sp, tm, tp)
  BY <1>1, ArpDataIs
<1> HIDE DEF f
<1>5. ArpJoin(f, sm, sp, tm, tp) \in Seq(Bytes)
  BY <1>1, <1>2, ArpParts
<1> QED
  BY <1>3, <1>4, <1>5 DEF sp, tp, f

\* A checksum is written over the one that was there.
LEMMA SegmentWritten ==
    ASSUME NEW sport \in 0..Ones, NEW dport \in 0..Ones, NEW body \in Seq(Bytes),
           Fits(8, body), NEW c \in Fields(2), NEW e \in Fields(2)
    PROVE  Write(Segment(sport, dport, c, body), 6, e) = Segment(sport, dport, e, body)
<1> DEFINE f == UdpFront(sport, dport, body)
<1>1. f \in Fields(6)
  BY UdpFrontIs
<1>2. Segment(sport, dport, c, body) = f \o c \o body
      /\ Segment(sport, dport, e, body) = f \o e \o body
  BY DEF Segment
<1> HIDE DEF f
<1>3. f \in Seq(Bytes)
  BY <1>1 DEF Fields
<1>4. Write(f \o c \o body, Len(f), e) = f \o e \o body
  BY <1>3, WriteOver
<1>5. Len(f) = 6
  BY <1>1 DEF Fields
<1> QED
  BY <1>2, <1>4, <1>5

\* The ports, written into a header of zeros.
PortsGlue(a, b) == [k \in 1..8 |-> IF k <= 2 THEN a[k] ELSE IF k <= 4 THEN b[k - 2] ELSE 0]

\* They lie one behind the other.
LEMMA PortsWritten ==
    ASSUME NEW a \in Fields(2), NEW b \in Fields(2)
    PROVE  /\ Write(Write(Zeros(8), 0, a), 2, b) = PortsGlue(a, b)
           /\ Write(Write(Zeros(8), 0, a), 2, b) \in Fields(8)
<1>1. DOMAIN a = 1..2 /\ DOMAIN b = 1..2
  BY FieldDomain
<1> DEFINE p == Write(Write(Zeros(8), 0, a), 2, b)
<1>2. p = [k \in 1..8 |-> IF k <= 2 THEN a[k] ELSE IF k <= 4 THEN b[k - 2] ELSE 0]
  <2>1. Write(Zeros(8), 0, a) = [k \in 1..8 |-> IF k <= 2 THEN a[k] ELSE 0]
    BY <1>1 DEF Write, Zeros
  <2> DEFINE y == Write(Zeros(8), 0, a)
  <2>2. y = [k \in 1..8 |-> IF k <= 2 THEN a[k] ELSE 0]
    BY <2>1
  <2> HIDE DEF y
  <2>3. Write(y, 2, b) = [k \in 1..8 |-> IF k <= 2 THEN a[k] ELSE IF k <= 4 THEN b[k - 2] ELSE 0]
    BY <1>1, <2>2 DEF Write
  <2> QED
    BY <2>3 DEF y
<1> HIDE DEF p
<1>3. \A k \in 1..2 : a[k] \in Bytes /\ b[k] \in Bytes
  BY FieldBytes
<1>4. 0 \in Bytes
  BY Sizes
<1>5. \A k \in 1..8 : p[k] \in Bytes
  BY <1>2, <1>3, <1>4
<1>6. p \in [1..8 -> Bytes]
  BY <1>2, <1>5
<1>7. p \in Fields(8)
  <2>1. PICK n \in Nat : n = 8
    OBVIOUS
  <2> QED
    BY <1>6, <2>1, FieldOf
<1> QED
  BY <1>2, <1>7 DEF PortsGlue, p

\* And the length and no checksum, written into that.
FrontGlue(a, b, w) ==
    [k \in 1..6 |-> IF k <= 2 THEN a[k] ELSE IF k <= 4 THEN b[k - 2] ELSE w[k - 4]]

\* That is what a header begins with, and no checksum.
LEMMA LengthWritten ==
    ASSUME NEW a \in Fields(2), NEW b \in Fields(2), NEW w \in Fields(2), NEW z \in Fields(2),
           z[1] = 0, z[2] = 0, FrontGlue(a, b, w) \in Fields(6)
    PROVE  /\ Write(PortsGlue(a, b), 6, z) = PortsGlue(a, b)
           /\ Write(PortsGlue(a, b), 4, w) = FrontGlue(a, b, w) \o z
<1> DEFINE f == FrontGlue(a, b, w)
           p == PortsGlue(a, b)
<1>0. f = [k \in 1..6 |-> IF k <= 2 THEN a[k] ELSE IF k <= 4 THEN b[k - 2] ELSE w[k - 4]]
      /\ p = [k \in 1..8 |-> IF k <= 2 THEN a[k] ELSE IF k <= 4 THEN b[k - 2] ELSE 0]
      /\ f \in Fields(6)
  BY DEF FrontGlue, PortsGlue
<1> HIDE DEF f, p
<1>1. DOMAIN w = 1..2 /\ DOMAIN z = 1..2
  BY FieldDomain
<1>2. Write(p, 6, z) = p
  BY <1>0, <1>1 DEF Write
<1>3. Write(p, 4, w) = [k \in 1..8 |-> IF k <= 2 THEN a[k] ELSE IF k <= 4 THEN b[k - 2]
                                       ELSE IF k <= 6 THEN w[k - 4] ELSE 0]
  BY <1>0, <1>1 DEF Write
<1>4. f \in Seq(Bytes) /\ z \in Seq(Bytes)
  BY <1>0 DEF Fields
<1>5. f \o z = Glue(f, z)
  BY <1>4, CatIs
<1>6. Len(f) = 6 /\ Len(z) = 2
  BY <1>0 DEF Fields
<1>7. Glue(f, z) = [k \in 1..8 |-> IF k <= 2 THEN a[k] ELSE IF k <= 4 THEN b[k - 2]
                                   ELSE IF k <= 6 THEN w[k - 4] ELSE 0]
  <2>1. Glue(f, z) = [k \in 1..8 |-> IF k <= 6 THEN f[k] ELSE z[k - 6]]
    BY <1>6 DEF Glue
  <2>2. ASSUME NEW k \in 1..8
        PROVE  (IF k <= 6 THEN f[k] ELSE z[k - 6])
                 = IF k <= 2 THEN a[k] ELSE IF k <= 4 THEN b[k - 2]
                   ELSE IF k <= 6 THEN w[k - 4] ELSE 0
    BY <1>0
  <2> QED
    BY <2>1, <2>2
<1> QED
  BY <1>2, <1>3, <1>5, <1>7 DEF f, p

\* What udp_output lays out, before it sets the checksum.
LEMMA LaidOut ==
    ASSUME NEW sport \in 0..Ones, NEW dport \in 0..Ones, NEW body \in Seq(Bytes),
           Fits(8, body)
    PROVE  LET ports == WriteAll(Zeros(UdpHeaderSize),
                                 <<<<0, Bytes16(sport)>>, <<2, Bytes16(dport)>>>>)
               laid == SetUdpPayload(ports, body)
           IN  WriteAll(laid, <<<<6, <<0, 0>>>>, <<4, Bytes16(Len(laid))>>>>)
                 = Segment(sport, dport, <<0, 0>>, body)
<1> DEFINE a == Bytes16(sport)
           b == Bytes16(dport)
           ports == WriteAll(Zeros(UdpHeaderSize), <<<<0, a>>, <<2, b>>>>)
           laid == SetUdpPayload(ports, body)
           n == 8 + Len(body)
           w == Bytes16(n)
           z == <<0, 0>>
           f == UdpFront(sport, dport, body)
<1>1. n \in 0..Ones /\ n < Word
  <2>1. PICK l \in Nat : l = Len(body) /\ 8 + l <= 65535
    BY LenProperties DEF Fits
  <2> QED
    BY <2>1, Sizes DEF Word, Byte
<1>2. a \in Fields(2) /\ b \in Fields(2) /\ w \in Fields(2) /\ z \in Fields(2)
  BY <1>1, FieldsAre, Sizes
<1>3. f = FrontGlue(a, b, w) /\ f \in Fields(6)
  BY UdpFrontIs DEF FrontGlue
<1>4. z[1] = 0 /\ z[2] = 0
  OBVIOUS
<1>5. Segment(sport, dport, z, body) = f \o z \o body
  BY DEF Segment
<1>6. ports = Write(Write(Zeros(8), 0, a), 2, b)
  BY WriteAll2 DEF UdpHeaderSize
<1> HIDE DEF a, b, f, ports
<1>7. ports = PortsGlue(a, b) /\ ports \in Fields(8)
  BY <1>2, <1>6, PortsWritten
<1>8. laid = ports \o body
  <2>1. 8 + Len(body) < Word /\ ports \in Fields(8)
    BY <1>1, <1>7
  <2> QED
    BY <2>1, SetUdpPayloadIs
<1> HIDE DEF laid
<1>9. ports \in Seq(Bytes)
  BY <1>7 DEF Fields
<1>10. Len(ports) = 8
  BY <1>7 DEF Fields
<1>11. Len(laid) = n
  <2>1. Len(ports \o body) = Len(ports) + Len(body)
    BY <1>9, Cat
  <2> QED
    BY <1>8, <1>10, <2>1
<1> HIDE DEF n
<1>12. Bytes16(Len(laid)) = w
  BY <1>11
<1> HIDE DEF w, z
<1>13. WriteAll(laid, <<<<6, z>>, <<4, w>>>>) = Write(Write(laid, 6, z), 4, w)
  BY WriteAll2
<1>14. Write(ports, 6, z) = ports /\ Write(ports, 4, w) = f \o z
  <2>1. FrontGlue(a, b, w) \in Fields(6)
    BY <1>3
  <2>2. /\ Write(PortsGlue(a, b), 6, z) = PortsGlue(a, b)
        /\ Write(PortsGlue(a, b), 4, w) = FrontGlue(a, b, w) \o z
    BY <1>2, <1>4, <2>1, LengthWritten
  <2>3. ports = PortsGlue(a, b)
    BY <1>7
  <2>4. f = FrontGlue(a, b, w)
    BY <1>3
  <2>5. Write(ports, 6, z) = ports
    BY <2>2, <2>3
  <2>6. Write(ports, 4, w) = f \o z
    BY <2>2, <2>3, <2>4
  <2> QED
    BY <2>5, <2>6
<1>15. z \in Seq(Bytes) /\ w \in Seq(Bytes)
  BY <1>2 DEF Fields
<1>16. 6 \in Nat /\ 6 + Len(z) <= 8 /\ 4 \in Nat /\ 4 + Len(w) <= 8
  <2>1. Len(z) = 2 /\ Len(w) = 2
    BY <1>2 DEF Fields
  <2> QED
    BY <2>1
<1>17. ASSUME NEW o \in Nat, NEW x \in Seq(Bytes), o + Len(x) <= 8
       PROVE  Write(laid, o, x) = Write(ports, o, x) \o body
  <2>1. o + Len(x) <= Len(ports)
    BY <1>10, <1>17
  <2> QED
    BY <1>8, <1>9, <2>1, WriteFront
<1>18. Write(laid, 6, z) = laid
  <2>1. Write(laid, 6, z) = Write(ports, 6, z) \o body
    BY <1>15, <1>16, <1>17
  <2> QED
    BY <1>8, <1>14, <2>1
<1>19. Write(laid, 4, w) = (f \o z) \o body
  <2>1. Write(laid, 4, w) = Write(ports, 4, w) \o body
    BY <1>15, <1>16, <1>17
  <2> DEFINE fz == f \o z
             wr == Write(ports, 4, w)
  <2>2. wr = fz
    BY <1>14
  <2>3. Write(laid, 4, w) = wr \o body
    BY <2>1
  <2> HIDE DEF fz, wr
  <2>4. Write(laid, 4, w) = fz \o body
    BY <2>2, <2>3
  <2> QED
    BY <2>4 DEF fz
<1>20. WriteAll(laid, <<<<6, z>>, <<4, Bytes16(Len(laid))>>>>) = Segment(sport, dport, z, body)
  <2> DEFINE all == (f \o z) \o body
  <2>1. Segment(sport, dport, z, body) = all
    BY <1>5
  <2>2. Write(Write(laid, 6, z), 4, w) = all
    BY <1>18, <1>19
  <2> HIDE DEF all
  <2>3. <<<<6, z>>, <<4, Bytes16(Len(laid))>>>> = <<<<6, z>>, <<4, w>>>>
    BY <1>12
  <2> QED
    BY <1>13, <2>1, <2>2, <2>3
<1> QED
  BY <1>20 DEF laid, ports, a, b, z

\* The total length of a packet fits its field.
LEMMA TotalFits ==
    ASSUME NEW d \in Seq(Bytes), Fits(20, d)
    PROVE  20 + Len(d) \in 0..Ones /\ 20 + Len(d) < Word /\ (20 + Len(d)) % Word = 20 + Len(d)
<1>1. PICK l \in Nat : l = Len(d) /\ 20 + l <= 65535
  BY LenProperties DEF Fits
<1>2. 20 + l \in 0..Ones /\ 20 + l < Word
  BY <1>1, Sizes DEF Word, Byte
<1>3. (20 + l) % 65536 = 20 + l
  BY <1>1
<1>4. (20 + l) % Word = 20 + l
  BY <1>3, Values
<1> QED
  BY <1>1, <1>2, <1>4

\* The fields of a header.
LEMMA HeaderFields ==
    ASSUME NEW src \in Addresses, NEW dst \in Addresses, NEW p \in Bytes, NEW id \in 0..Ones,
           NEW ttl \in Bytes, NEW d \in Seq(Bytes), Fits(20, d)
    PROVE  /\ <<69, 0>> \in Fields(2) /\ <<0, 0>> \in Fields(2)
           /\ Bytes16(20 + Len(d)) \in Fields(2) /\ Bytes16(id) \in Fields(2)
           /\ <<0, 0, ttl, p>> \in Fields(4)
           /\ Bytes32(src) \in Fields(4) /\ Bytes32(dst) \in Fields(4)
<1>1. 0 \in Bytes /\ 69 \in Bytes
  BY Sizes
<1> DEFINE n == 20 + Len(d)
<1>2. n \in 0..Ones
  BY TotalFits
<1> HIDE DEF n
<1>3. Bytes16(n) \in Fields(2) /\ Bytes16(id) \in Fields(2)
  BY <1>2, FieldsAre
<1>4. <<69, 0>> \in Fields(2) /\ <<0, 0>> \in Fields(2) /\ <<0, 0, ttl, p>> \in Fields(4)
  BY <1>1, FieldsAre
<1>5. Bytes32(src) \in Fields(4) /\ Bytes32(dst) \in Fields(4)
  BY FieldsAre
<1> QED
  BY <1>3, <1>4, <1>5 DEF n

\* What lies where in it.
LEMMA HeaderParts ==
    ASSUME NEW src, NEW dst, NEW p, NEW id, NEW ttl, NEW d, NEW c,
           src \in Addresses, dst \in Addresses, p \in Bytes, id \in 0..Ones, ttl \in Bytes,
           d \in Seq(Bytes), Fits(20, d), c \in Fields(2)
    PROVE  /\ Header(src, dst, p, id, ttl, d, c) \in Fields(20)
           /\ Header(src, dst, p, id, ttl, d, c)[1] = 69
           /\ Header(src, dst, p, id, ttl, d, c)[3] * Byte + Header(src, dst, p, id, ttl, d, c)[4]
                = 20 + Len(d)
           /\ WordSum(Header(src, dst, p, id, ttl, d, c), 0)
                = WordSum(HeaderCovered(src, dst, p, id, ttl, d), 0) + WordSum(c, 0)
           /\ HeaderCovered(src, dst, p, id, ttl, d) \in Seq(Bytes)
           /\ \A e \in Fields(2) : Write(Header(src, dst, p, id, ttl, d, c), 10, e)
                                     = Header(src, dst, p, id, ttl, d, e)
<1> DEFINE v == <<69, 0>>
           n == 20 + Len(d)
           t == Bytes16(n)
           i == Bytes16(id)
           q == <<0, 0, ttl, p>>
           s == Bytes32(src)
           a == Bytes32(dst)
           h == Header(src, dst, p, id, ttl, d, c)
           x == HeaderCovered(src, dst, p, id, ttl, d)
<1>1. v \in Fields(2) /\ t \in Fields(2) /\ i \in Fields(2) /\ q \in Fields(4)
      /\ s \in Fields(4) /\ a \in Fields(4)
  BY HeaderFields
<1>2. v[1] = 69
  OBVIOUS
<1>3. t[1] * Byte + t[2] = n
  <2>1. n \in 0..Ones
    BY TotalFits
  <2> HIDE DEF n
  <2> QED
    BY <2>1, Bytes16Is, Halves
<1>4. h = IpJoin(v, t, i, q, c, s, a) /\ x = (v \o t \o i \o q) \o (s \o a)
  BY DEF Header, HeaderCovered
<1>5. ASSUME NEW e \in Fields(2)
      PROVE  Write(h, 10, e) = Header(src, dst, p, id, ttl, d, e)
  <2>1. Header(src, dst, p, id, ttl, d, e) = IpJoin(v, t, i, q, e, s, a)
    BY DEF Header
  <2> HIDE DEF v, t, i, q, s, a, h
  <2>2. Write(IpJoin(v, t, i, q, c, s, a), 10, e) = IpJoin(v, t, i, q, e, s, a)
    BY <1>1, IpSumWritten
  <2> QED
    BY <1>4, <2>1, <2>2
<1> HIDE DEF v, t, i, q, s, a, n, h, x
<1>6. h = IpGlue(v, t, i, q, c, s, a) /\ h \in Fields(20)
  BY <1>1, <1>4, IpParts
<1>7. h[1] = v[1] /\ h[3] = t[1] /\ h[4] = t[2]
  BY <1>6 DEF IpGlue
<1>8. WordSum(h, 0) = WordSum(x, 0) + WordSum(c, 0)
  <2>1. 0 \in Bytes
    BY Sizes
  <2> QED
    BY <1>1, <1>4, <2>1, IpSum
<1>9. x \in Seq(Bytes)
  <2> DEFINE f == v \o t \o i \o q
             b == s \o a
  <2>1. f \in Fields(10) /\ b \in Fields(8)
    BY <1>1, IpParts
  <2>2. x = f \o b
    BY <1>4
  <2> HIDE DEF f, b
  <2>3. f \in Seq(Bytes) /\ b \in Seq(Bytes)
    BY <2>1 DEF Fields
  <2>4. f \o b \in Seq(Bytes)
    BY <2>3, Cat
  <2> QED
    BY <2>2, <2>4
<1> QED
  BY <1>2, <1>3, <1>5, <1>6, <1>7, <1>8, <1>9 DEF h, x, n

\* It is what ipv4_output writes.
LEMMA HeaderWritten ==
    ASSUME NEW src, NEW dst, NEW p, NEW id, NEW d,
           src \in Addresses, dst \in Addresses, p \in Bytes, id \in 0..Ones,
           d \in Seq(Bytes), Fits(20, d)
    PROVE  WriteAll(NewIpv4Data,
                  <<<<1, <<0>>>>, <<2, Bytes16((20 + Len(d)) % Word)>>, <<4, Bytes16(id)>>,
                    <<6, <<0, 0>>>>, <<8, <<255>>>>, <<9, <<p>>>>, <<10, <<0, 0>>>>,
                    <<12, Bytes32(src)>>, <<16, Bytes32(dst)>>>>)
             = Header(src, dst, p, id, 255, d, <<0, 0>>)
<1> DEFINE n == 20 + Len(d)
           t == Bytes16(n)
           i == Bytes16(id)
           s == Bytes32(src)
           a == Bytes32(dst)
           v == <<69, 0>>
           q == <<0, 0, 255, p>>
           z == <<0, 0>>
<1>1. 255 \in Bytes
  BY Sizes
<1>2. v \in Fields(2) /\ t \in Fields(2) /\ i \in Fields(2) /\ q \in Fields(4) /\ z \in Fields(2)
      /\ s \in Fields(4) /\ a \in Fields(4)
  BY <1>1, HeaderFields
<1>3. n % Word = n
  BY TotalFits
<1>4. Header(src, dst, p, id, 255, d, z) = IpJoin(v, t, i, q, z, s, a)
  BY DEF Header
<1> HIDE DEF t, i, s, a
<1>5. WriteAll(NewIpv4Data, <<<<1, <<0>>>>, <<2, t>>, <<4, i>>, <<6, <<0, 0>>>>,
                              <<8, <<255>>>>, <<9, <<p>>>>, <<10, <<0, 0>>>>,
                              <<12, s>>, <<16, a>>>>)
        = IpGlue(v, t, i, q, z, s, a)
  BY <1>2, IpHeaderIs
<1>6. IpJoin(v, t, i, q, z, s, a) = IpGlue(v, t, i, q, z, s, a)
  <2> HIDE DEF v, q, z
  <2> QED
    BY <1>2, IpParts
<1>7. Bytes16(n % Word) = t
  BY <1>3 DEF t
<1> HIDE DEF n
<1> QED
  BY <1>4, <1>5, <1>6, <1>7 DEF n, i, s, a, z

\* ipv4_output sets the checksum RFC 791 asks for, unless it loses a carry.
SetSum(h) == Complement(CalculateChecksum(h, 0))

\* It is the header with that checksum, and RFC 791's if the sum of words loses no carry.
LEMMA SumIsSet ==
    ASSUME NEW src, NEW dst, NEW p, NEW id, NEW d,
           src \in Addresses, dst \in Addresses, p \in Bytes, id \in 0..Ones,
           d \in Seq(Bytes), Fits(20, d)
    PROVE  LET h == Header(src, dst, p, id, 255, d, <<0, 0>>)
               c == SetSum(h)
           IN  /\ c \in 0..Ones
               /\ SetCheckSum(h) = Header(src, dst, p, id, 255, d, Bytes16(c))
               /\ FoldsOnce(WordSum(h, 0))
                    => RfcIp(src, dst, p, id, 255, d)
                         = Header(src, dst, p, id, 255, d, Bytes16(c)) \o d
<1> DEFINE z == <<0, 0>>
           h == Header(src, dst, p, id, 255, d, z)
           x == HeaderCovered(src, dst, p, id, 255, d)
           s == WordSum(h, 0)
           c == Complement(CalculateChecksum(h, 0))
<1>1. 0 \in Bytes /\ 255 \in Bytes
  BY Sizes
<1>2. z \in Fields(2)
  BY <1>1, FieldsAre
<1>3. z[1] * Byte + z[2] = 0
  BY OnesIn
<1>4. /\ h \in Fields(20) /\ h[1] = 69 /\ Write(h, 10, z) = h
      /\ s = WordSum(x, 0) + WordSum(z, 0) /\ x \in Seq(Bytes)
      /\ \A e \in Fields(2) : Write(h, 10, e) = Header(src, dst, p, id, 255, d, e)
  <2> HIDE DEF z
  <2> QED
    BY <1>1, <1>2, HeaderParts
<1>5. SetCheckSum(h) = Write(h, 10, Bytes16(Complement(CalculateChecksum(
                          Write(Vector(h, 0, HeaderLengthByte(h)), 10, z), 0))))
  BY DEF SetCheckSum
<1> HIDE DEF z, x, h
<1>6. s = WordSum(x, 0) /\ s \in Nat
  <2>1. WordSum(z, 0) = 0
    BY <1>1, <1>2, <1>3, FieldSum
  <2>2. WordSum(x, 0) \in Nat
    BY <1>1, <1>4, WordSumBound
  <2> HIDE DEF s
  <2> QED
    BY <1>4, <2>1, <2>2
<1>7. c \in 0..Ones
  <2> DEFINE w == CalculateChecksum(h, 0)
  <2>1. w \in 0..Ones
    BY <1>6, FoldRange DEF CalculateChecksum
  <2> HIDE DEF w
  <2>2. Complement(w) \in 0..Ones
    BY <2>1, ComplementRange
  <2> QED
    BY <2>2 DEF w
<1>8. SetCheckSum(h) = Header(src, dst, p, id, 255, d, Bytes16(c))
  <2>1. HeaderLengthByte(h) = 20
    BY <1>4 DEF HeaderLengthByte, Uint8
  <2>2. Vector(h, 0, 20) = h
    <3>1. h \in Seq(Bytes) /\ Len(h) = 20
      BY <1>4 DEF Fields
    <3>2. 0 \in Nat /\ 0 + Len(h) <= Len(h) /\ \A k \in 1..Len(h) : h[0 + k] = h[k]
      BY <3>1
    <3>3. Vector(h, 0, Len(h)) = h
      BY <3>1, <3>2, VectorIs
    <3> QED
      BY <3>1, <3>3
  <2>3. SetCheckSum(h) = Write(h, 10, Bytes16(c))
    BY <1>4, <1>5, <2>1, <2>2
  <2> HIDE DEF c
  <2>4. Bytes16(c) \in Fields(2)
    BY <1>7, FieldsAre
  <2> QED
    BY <1>4, <2>3, <2>4
<1>9. ASSUME FoldsOnce(s)
      PROVE  RfcIp(src, dst, p, id, 255, d) = Header(src, dst, p, id, 255, d, Bytes16(c)) \o d
  <2>1. c = RfcChecksum(x)
    <3>1. c = Complement(Fold(s))
      BY DEF CalculateChecksum
    <3> HIDE DEF s
    <3>2. Fold(s) = OnesSum(s)
      BY <1>6, <1>9, FoldIsOnesSum
    <3> QED
      BY <1>6, <3>1, <3>2 DEF RfcChecksum
  <2>2. RfcIp(src, dst, p, id, 255, d)
          = Header(src, dst, p, id, 255, d, Bytes16(RfcChecksum(x))) \o d
    BY <1>1, HeaderIs DEF FullHeader, x
  <2> HIDE DEF c
  <2> QED
    BY <2>1, <2>2
<1> HIDE DEF c
<1> QED
  BY <1>7, <1>8, <1>9 DEF SetSum, h, s, z, c

\* A part of a frame is read where it lies, whatever follows it.
LEMMA PartOfFrame ==
    ASSUME NEW a \in Fields(14), NEW h \in Fields(20), NEW d \in Seq(Bytes), NEW pad \in Seq(Bytes)
    PROVE  Vector((a \o (h \o d)) \o pad, 14, 20) = h
<1>1. a \in Seq(Bytes) /\ h \in Seq(Bytes)
  BY DEF Fields
<1> DEFINE r == d \o pad
           f == (a \o (h \o d)) \o pad
<1>2. f = a \o h \o r
  <2> DEFINE hd == h \o d
  <2>1. hd \in Seq(Bytes)
    BY <1>1, Cat
  <2>2. (a \o hd) \o pad = a \o (hd \o pad)
    <3> HIDE DEF hd
    <3> QED
      BY <1>1, <2>1, CatAssociative
  <2>3. hd \o pad = h \o r
    BY <1>1, CatAssociative
  <2>4. r \in Seq(Bytes)
    BY Cat
  <2> HIDE DEF r, hd
  <2>5. (a \o h) \o r = a \o (h \o r)
    BY <1>1, <2>4, CatAssociative
  <2> QED
    BY <2>2, <2>3, <2>5 DEF hd
<1>3. r \in Seq(Bytes)
  BY Cat
<1> HIDE DEF r, f
<1>4. Vector(a \o h \o r, Len(a), Len(h)) = h
  BY <1>1, <1>3, VectorPart
<1>5. Len(a) = 14 /\ Len(h) = 20
  BY DEF Fields
<1> QED
  BY <1>2, <1>4, <1>5 DEF f

\* The header of a frame.
LEMMA FrameFront ==
    ASSUME NEW dst \in Fields(6), NEW src \in Fields(6), NEW type \in 0..Ones
    PROVE  dst \o src \o Bytes16(type) \in Fields(14)
<1> DEFINE t == Bytes16(type)
           a == dst \o src
<1>1. t \in Fields(2)
  BY FieldsAre
<1> HIDE DEF t
<1>2. a \in Fields(6 + 6)
  BY FieldCat
<1>3. a \in Fields(12)
  BY <1>2
<1> HIDE DEF a
<1>4. a \o t \in Fields(12 + 2)
  BY <1>1, <1>3, FieldCat
<1> QED
  BY <1>4 DEF a, t

\* What ipv4_output sends, by the RFCs, unless it loses a carry.
SentFrame(addr, id, p, d) ==
    EtherFrame(GatewayMac, OurMac, ETHER_TYPE_IP,
               SetIpPayload(SetCheckSum(Header(OurAddr, addr, p, id, 255, d, <<0, 0>>)), d))

\* It is the frame a client would have sent, byte for byte, when its header is right.
LEMMA SentIs ==
    ASSUME NEW addr \in Addresses, NEW p \in Bytes, NEW id \in 0..Ones, NEW d \in Seq(Bytes),
           Fits(20, d)
    PROVE  /\ SentFrame(addr, id, p, d) \in Seq(Bytes)
           /\ FoldsOnce(WordSum(Write(Vector(SentFrame(addr, id, p, d), EtherHeaderSize, 20),
                                      10, <<0, 0>>), 0))
                => SentFrame(addr, id, p, d)
                     = RfcFrame(GatewayMac, OurMac, 2048, RfcIp(OurAddr, addr, p, id, 255, d), 0)
<1> DEFINE z == <<0, 0>>
           h0 == Header(OurAddr, addr, p, id, 255, d, z)
           f == SentFrame(addr, id, p, d)
<1>1. /\ OurAddr \in Addresses /\ OurMac \in Fields(6) /\ GatewayMac \in Fields(6)
      /\ 255 \in Bytes /\ 2048 \in 0..Ones
  BY Hosts, Sizes
<1>2. z \in Fields(2)
  BY FieldsAre, Sizes
<1> DEFINE c == SetSum(h0)
<1>3. /\ c \in 0..Ones
      /\ SetCheckSum(h0) = Header(OurAddr, addr, p, id, 255, d, Bytes16(c))
      /\ FoldsOnce(WordSum(h0, 0))
           => RfcIp(OurAddr, addr, p, id, 255, d)
                = Header(OurAddr, addr, p, id, 255, d, Bytes16(c)) \o d
  BY <1>1, SumIsSet
<1> HIDE DEF c
<1> DEFINE h == Header(OurAddr, addr, p, id, 255, d, Bytes16(c))
           b == h \o d
           front == GatewayMac \o OurMac \o Bytes16(2048)
<1>4. h \in Fields(20) /\ h[1] = 69 /\ h[3] * Byte + h[4] = 20 + Len(d) /\ Write(h, 10, z) = h0
  <2> DEFINE w == Bytes16(c)
  <2>1. w \in Fields(2)
    BY <1>3, FieldsAre
  <2> HIDE DEF w, z
  <2> QED
    BY <1>1, <1>2, <2>1, HeaderParts DEF w
<1>5. f = EtherFrame(GatewayMac, OurMac, 2048, SetIpPayload(h, d))
  BY <1>3 DEF SentFrame, ETHER_TYPE_IP
<1> HIDE DEF h, h0, f, z
<1>6. SetIpPayload(h, d) = b
  <2>1. 20 + Len(d) < Word
    BY TotalFits
  <2> QED
    BY <1>4, <2>1, SetIpPayloadIs
<1>7. b \in Seq(Bytes)
  <2>1. h \in Seq(Bytes)
    BY <1>4 DEF Fields
  <2> QED
    BY <2>1, Cat
<1> HIDE DEF b
<1>8. f = RfcFrame(GatewayMac, OurMac, 2048, b, 0) /\ f \in Seq(Bytes)
  BY <1>1, <1>5, <1>6, <1>7, FrameIs
<1>9. \E pad \in Seq(Bytes) : f = (front \o b) \o pad
  <2> DEFINE bytes == front \o b
             n == FrameMinSize - Len(bytes)
             pad == [i \in 1..n |-> 0]
  <2>1. f = bytes \o pad
    BY <1>8 DEF RfcFrame
  <2>2. pad \in Seq(Bytes)
    <3>1. 0 \in Bytes
      BY Sizes
    <3>2. n \in Int
      <4>1. front \in Fields(14)
        BY <1>1, FrameFront
      <4> HIDE DEF front
      <4>2. front \in Seq(Bytes)
        BY <4>1 DEF Fields
      <4>3. bytes \in Seq(Bytes)
        BY <1>7, <4>2, Cat
      <4> HIDE DEF bytes
      <4>4. Len(bytes) \in Nat
        BY <4>3, LenProperties
      <4> QED
        BY <4>4 DEF FrameMinSize
    <3> HIDE DEF n
    <3> QED
      BY <3>1, <3>2
  <2> HIDE DEF pad, bytes, front
  <2>3. \E x \in Seq(Bytes) : f = bytes \o x
    BY <2>1, <2>2
  <2> QED
    BY <2>3 DEF bytes
<1>10. PICK pad \in Seq(Bytes) : f = (front \o b) \o pad
  BY <1>9
<1>11. Vector(f, EtherHeaderSize, 20) = h
  <2>1. front \in Fields(14)
    BY <1>1, FrameFront
  <2> HIDE DEF front
  <2>2. Vector((front \o (h \o d)) \o pad, 14, 20) = h
    BY <1>4, <2>1, PartOfFrame
  <2>3. f = (front \o (h \o d)) \o pad
    BY <1>10 DEF b
  <2> QED
    BY <2>2, <2>3 DEF EtherHeaderSize
<1>12. ASSUME FoldsOnce(WordSum(Write(Vector(f, EtherHeaderSize, 20), 10, z), 0))
       PROVE  f = RfcFrame(GatewayMac, OurMac, 2048, RfcIp(OurAddr, addr, p, id, 255, d), 0)
  <2>1. FoldsOnce(WordSum(h0, 0))
    BY <1>4, <1>11, <1>12
  <2>2. RfcIp(OurAddr, addr, p, id, 255, d) = b
    BY <1>3, <2>1 DEF b, h
  <2> QED
    BY <1>8, <2>2
<1> QED
  BY <1>8, <1>12 DEF f, z

-----------------------------------------------------------------------------
(* What the clients send. *)

\* A body that a frame has room for.
Short(b) == b \in Seq(Bytes) /\ Len(b) <= 1472

\* It leaves room for the headers, and for what recvFrom adds.
LEMMA Room ==
    ASSUME NEW b, Short(b)
    PROVE  /\ b \in Seq(Bytes) /\ Fits(4, b) /\ Fits(8, b)
           /\ b \o Zeros(8) \in Seq(Bytes) /\ Fits(8, b \o Zeros(8))
           /\ \A s \in Seq(Bytes) : Len(s) = 8 + Len(b) => Fits(20, s)
           /\ \A s \in Seq(Bytes) : Len(s) = 4 + Len(b) => Fits(20, s)
           /\ \A s \in Seq(Bytes) : Len(s) = 8 + Len(b \o Zeros(8)) => Fits(20, s)
<1>1. b \in Seq(Bytes)
  BY DEF Short
<1>2. PICK l \in Nat : l = Len(b) /\ l <= 1472
  BY LenProperties DEF Short
<1> DEFINE z == Zeros(8)
           bz == b \o z
<1>3. z \in Seq(Bytes)
  BY ZerosAre
<1>4. Len(z) = 8
  BY ZerosAre
<1> HIDE DEF z
<1>5. bz \in Seq(Bytes) /\ Len(bz) = Len(b) + Len(z)
  BY <1>1, <1>3, Cat
<1> HIDE DEF bz
<1>6. bz \in Seq(Bytes) /\ Fits(8, bz) /\ Len(bz) = l + 8
  BY <1>2, <1>4, <1>5 DEF Fits
<1>7. Fits(4, b) /\ Fits(8, b)
  BY <1>2 DEF Fits
<1>8. \A s \in Seq(Bytes) : Len(s) = 8 + Len(b) => Fits(20, s)
  BY <1>2 DEF Fits
<1>9. \A s \in Seq(Bytes) : Len(s) = 4 + Len(b) => Fits(20, s)
  BY <1>2 DEF Fits
<1>10. \A s \in Seq(Bytes) : Len(s) = 8 + Len(bz) => Fits(20, s)
  BY <1>2, <1>6 DEF Fits
<1> QED
  BY <1>1, <1>6, <1>7, <1>8, <1>9, <1>10 DEF bz, z

\* What a request is made of.
IsUdp(r) ==
    /\ r.addr \in Addresses /\ r.port \in 0..Ones /\ r.to \in Addresses /\ r.dport \in 0..Ones
    /\ Short(r.body) /\ r.summed \in BOOLEAN
IsEcho(r) == r.addr \in Addresses /\ r.to \in Addresses /\ Short(r.body)
IsArp(r) == r.addr = GatewayAddr /\ r.to \in Addresses /\ r.op \in {1, 2}

\* A request is made of these.
LEMMA RequestIs ==
    ASSUME NEW r \in Requests
    PROVE  /\ r.kind \in {"udp", "echo", "arp", "other"}
           /\ r.kind = "udp" => IsUdp(r)
           /\ r.kind = "echo" => IsEcho(r)
           /\ r.kind = "arp" => IsArp(r)
           /\ r.kind = "other" => r.body \in Seq(Bytes)
<1>1. /\ \A b \in Bodies \cup Echoes : Short(b) /\ b \in Seq(Bytes)
      /\ ClientPorts \subseteq 0..Ones /\ Clients \subseteq Addresses
  BY BytesAssumption DEF Short, Addresses
<1>2. /\ OurAddr \in Addresses /\ SubnetAddr \in Addresses /\ GatewayAddr \in Addresses
      /\ OurPort \in 0..Ones /\ OtherPort \in 0..Ones
  BY Hosts
<1>3. CASE r \in [kind : {"udp"}, addr : Clients, port : ClientPorts, to : {OurAddr, SubnetAddr},
                  dport : {OurPort, OtherPort}, body : Bodies, summed : BOOLEAN, filled : BOOLEAN]
  <2>1. r.kind = "udp" /\ r.addr \in Clients /\ r.port \in ClientPorts
        /\ r.to \in {OurAddr, SubnetAddr} /\ r.dport \in {OurPort, OtherPort}
        /\ r.body \in Bodies /\ r.summed \in BOOLEAN
    BY <1>3
  <2> QED
    BY <1>1, <1>2, <2>1 DEF IsUdp
<1>4. CASE r \in [kind : {"echo"}, addr : Clients, to : {OurAddr, SubnetAddr}, body : Echoes,
                  filled : BOOLEAN]
  <2>1. r.kind = "echo" /\ r.addr \in Clients /\ r.to \in {OurAddr, SubnetAddr}
        /\ r.body \in Echoes
    BY <1>4
  <2> QED
    BY <1>1, <1>2, <2>1 DEF IsEcho
<1>5. CASE r \in [kind : {"arp"}, addr : {GatewayAddr}, to : {OurAddr, GatewayAddr},
                  op : {OP_REQUEST, OP_REPLY}, filled : BOOLEAN]
  <2>1. r.kind = "arp" /\ r.addr = GatewayAddr /\ r.to \in {OurAddr, GatewayAddr}
        /\ r.op \in {1, 2}
    BY <1>5 DEF OP_REQUEST, OP_REPLY
  <2> QED
    BY <1>2, <2>1 DEF IsArp
<1>6. CASE r \in [kind : {"other"}, body : Bodies, filled : BOOLEAN]
  <2>1. r.kind = "other" /\ r.body \in Bodies
    BY <1>6
  <2> QED
    BY <1>1, <2>1
<1> QED
  BY <1>3, <1>4, <1>5, <1>6 DEF Requests

\* The datagram and the echo of a request.
UdpPacket(r) == RfcUdp(r.addr, r.port, r.to, r.dport, r.body, r.summed)
EchoPacket(r) == RfcIcmp(8, r.body)

\* The folds of a UDP checksum lose no carry.
Regular(src, dst, segment, x) ==
    LET pseudo == WordSum(PseudoHeader(src, dst, Len(segment)), 0)
        sum == WordSum(segment, x)
    IN  FoldsOnce(pseudo) /\ FoldsOnce(sum) /\ FoldsOnce(Fold(pseudo) + Fold(sum))

\* What UdpHandler finds in the datagram of a request.
LEMMA UdpPacketIs ==
    ASSUME NEW r, IsUdp(r)
    PROVE  /\ UdpPacket(r) \in Seq(Bytes) /\ Fits(20, UdpPacket(r))
           /\ SrcPort(UdpPacket(r)) = r.port /\ DstPort(UdpPacket(r)) = r.dport
           /\ UdpPayload(UdpPacket(r)) = r.body \o Zeros(8)
           /\ r.summed /\ Regular(r.addr, r.to, UdpPacket(r), 0)
                => UdpChecksum(r.addr, r.to, UdpPacket(r), 0) = Ones
<1> DEFINE src == r.addr
           dst == r.to
           sport == r.port
           dport == r.dport
           b == r.body
           summed == r.summed
           c == UdpSum(src, dst, sport, dport, b, summed)
           w == Bytes16(c)
           p == Segment(sport, dport, w, b)
           q == WordSum(PseudoHeader(src, dst, 8 + Len(b)), 0)
           s == WordSum(p, 0)
<1>1. /\ src \in Addresses /\ sport \in 0..Ones /\ dst \in Addresses /\ dport \in 0..Ones
      /\ Short(b) /\ summed \in BOOLEAN
  BY DEF IsUdp
<1>2. UdpPacket(r) = RfcUdp(src, sport, dst, dport, b, summed)
  BY DEF UdpPacket
<1> HIDE DEF src, dst, sport, dport, b, summed
<1>3. b \in Seq(Bytes) /\ Fits(8, b)
      /\ \A x \in Seq(Bytes) : Len(x) = 8 + Len(b) => Fits(20, x)
  BY <1>1, Room
<1>4. /\ c \in 0..Ones
      /\ RfcUdp(src, sport, dst, dport, b, summed) = p
      /\ summed => OnesSum(q + s) = Ones
  BY <1>1, <1>3, RfcUdpIs
<1>5. q \in Nat
  BY <1>1, <1>3, CoveredIs
<1> HIDE DEF c
<1>6. w \in Fields(2)
  BY <1>4, FieldsAre
<1> HIDE DEF w
<1>7. /\ p \in Seq(Bytes) /\ Len(p) = 8 + Len(b)
      /\ SrcPort(p) = sport /\ DstPort(p) = dport /\ UdpPayload(p) = b \o Zeros(8)
  BY <1>1, <1>3, <1>6, SegmentIs
<1> HIDE DEF p
<1>8. Fits(20, p)
  BY <1>3, <1>7
<1>9. ASSUME summed, Regular(src, dst, p, 0)
      PROVE  UdpChecksum(src, dst, p, 0) = Ones
  <2>1. WordSum(PseudoHeader(src, dst, Len(p)), 0) = q
    BY <1>7
  <2>2. s \in Nat
    <3>1. 0 \in Bytes
      BY Sizes
    <3> QED
      BY <1>7, <3>1, WordSumBound
  <2>3. FoldsOnce(q) /\ FoldsOnce(s) /\ FoldsOnce(Fold(q) + Fold(s))
    BY <1>9, <2>1 DEF Regular
  <2>4. UdpChecksum(src, dst, p, 0) = Fold(Fold(q) + Fold(s))
    BY <2>1 DEF UdpChecksum, CalculateChecksum
  <2> HIDE DEF q, s
  <2>5. Fold(Fold(q) + Fold(s)) = OnesSum(q + s)
    BY <1>5, <2>2, <2>3, FoldsAre
  <2> QED
    BY <1>4, <1>9, <2>4, <2>5
<1>10. UdpPacket(r) = p
  BY <1>2, <1>4
<1> QED
  BY <1>7, <1>8, <1>9, <1>10 DEF src, dst, sport, dport, b, summed

\* What IcmpHandler finds in the echo of a request.
LEMMA EchoPacketIs ==
    ASSUME NEW r, Short(r.body)
    PROVE  /\ EchoPacket(r) \in Seq(Bytes) /\ Fits(20, EchoPacket(r))
           /\ IcmpType(EchoPacket(r)) = 8
           /\ CalculateChecksum(EchoPacket(r), 0) = Ones
           /\ \E c \in Fields(2) : EchoPacket(r) = IcmpMessage(8, c, r.body)
<1> DEFINE b == r.body
           p == RfcIcmp(8, b)
<1>1. EchoPacket(r) = p
  BY DEF EchoPacket
<1>2. Short(b)
  OBVIOUS
<1> HIDE DEF b
<1>3. b \in Seq(Bytes) /\ Fits(4, b)
      /\ \A s \in Seq(Bytes) : Len(s) = 4 + Len(b) => Fits(20, s)
  BY <1>2, Room
<1>4. 8 \in Bytes
  BY Sizes
<1>5. PICK c \in 0..Ones : p = IcmpMessage(8, Bytes16(c), b) /\ CalculateChecksum(p, 0) = Ones
  BY <1>3, <1>4, RfcIcmpIs
<1> DEFINE w == Bytes16(c)
<1>6. w \in Fields(2)
  BY FieldsAre
<1>7. p = IcmpMessage(8, w, b)
  BY <1>5
<1> HIDE DEF w, p
<1>8. p \in Seq(Bytes) /\ Len(p) = 4 + Len(b) /\ IcmpType(p) = 8
  BY <1>3, <1>4, <1>6, <1>7, IcmpIs
<1>9. Fits(20, p)
  BY <1>3, <1>8
<1>10. \E x \in Fields(2) : p = IcmpMessage(8, x, b)
  BY <1>6, <1>7
<1> QED
  BY <1>1, <1>5, <1>8, <1>9, <1>10 DEF b

\* What the IP packet of a request carries, and of which protocol.
Carried(r) == IF r.kind = "udp" THEN UdpPacket(r) ELSE EchoPacket(r)
CarriedProtocol(r) == IF r.kind = "udp" THEN 17 ELSE 1

\* It is short enough.
LEMMA CarriedIs ==
    ASSUME NEW r \in Requests, r.kind \in {"udp", "echo"}
    PROVE  /\ Carried(r) \in Seq(Bytes) /\ Fits(20, Carried(r))
           /\ CarriedProtocol(r) \in Bytes
           /\ r.addr \in Addresses /\ r.to \in Addresses
           /\ ClientBody(r) = RfcIp(r.addr, r.to, CarriedProtocol(r), 1, 64, Carried(r))
<1>1. 17 \in Bytes /\ 1 \in Bytes
  BY Sizes
<1>2. CASE r.kind = "udp"
  <2>1. IsUdp(r)
    BY <1>2, RequestIs
  <2>2. UdpPacket(r) \in Seq(Bytes) /\ Fits(20, UdpPacket(r))
    BY <2>1, UdpPacketIs
  <2>3. ClientBody(r) = RfcIp(r.addr, r.to, 17, 1, 64, UdpPacket(r))
    BY <1>2 DEF ClientBody, UdpPacket
  <2> QED
    BY <1>1, <1>2, <2>1, <2>2, <2>3 DEF Carried, CarriedProtocol, IsUdp
<1>3. CASE r.kind = "echo"
  <2>1. IsEcho(r)
    BY <1>3, RequestIs
  <2>2. EchoPacket(r) \in Seq(Bytes) /\ Fits(20, EchoPacket(r))
    BY <2>1, EchoPacketIs DEF IsEcho
  <2>3. ClientBody(r) = RfcIp(r.addr, r.to, 1, 1, 64, EchoPacket(r))
    BY <1>3 DEF ClientBody, EchoPacket
  <2> QED
    BY <1>1, <1>3, <2>1, <2>2, <2>3 DEF Carried, CarriedProtocol, IsEcho
<1> QED
  BY <1>2, <1>3

\* What Ipv4ProtocolHandler finds in the IP packet of a request, whatever its frame is
\* filled up with.
LEMMA IpRequestRead ==
    ASSUME NEW r \in Requests, r.kind \in {"udp", "echo"}, NEW pad \in Seq(Bytes)
    PROVE  /\ ClientBody(r) \in Seq(Bytes)
           /\ VerifyHeader(ClientBody(r) \o pad)
           /\ IpSrc(ClientBody(r) \o pad) = r.addr /\ IpDst(ClientBody(r) \o pad) = r.to
           /\ Protocol(ClientBody(r) \o pad) = CarriedProtocol(r)
           /\ IpPayload(ClientBody(r) \o pad) = Carried(r)
<1> DEFINE src == r.addr
           dst == r.to
           p == Carried(r)
           t == CarriedProtocol(r)
           id == 1
           ttl == 64
           h == FullHeader(src, dst, t, id, ttl, p)
<1>1. /\ p \in Seq(Bytes) /\ Fits(20, p) /\ t \in Bytes
      /\ src \in Addresses /\ dst \in Addresses
      /\ ClientBody(r) = RfcIp(src, dst, t, id, ttl, p)
  BY CarriedIs
<1>2. ttl \in Bytes /\ id \in 0..Ones
  BY Sizes
<1> HIDE DEF src, dst, p, t, id, ttl
<1>3. /\ RfcIp(src, dst, t, id, ttl, p) = h \o p
      /\ h \in Fields(20)
      /\ h[1] = 69 /\ h[3] * Byte + h[4] = 20 + Len(p) /\ h[10] = t
      /\ Uint32(h, 12) = src /\ Uint32(h, 16) = dst
      /\ CalculateChecksum(h, 0) = Ones
  BY <1>1, <1>2, HeaderIs
<1> HIDE DEF h
<1> DEFINE d == h \o p \o pad
<1>4. /\ HeaderLengthByte(d) = 20 /\ Vector(d, 0, 20) = h /\ IpPayload(d) = p
      /\ Protocol(d) = h[10] /\ IpSrc(d) = Uint32(h, 12) /\ IpDst(d) = Uint32(h, 16)
  BY <1>1, <1>3, IpRead
<1>5. h \o p \in Seq(Bytes)
  <2>1. h \in Seq(Bytes)
    BY <1>3 DEF Fields
  <2> QED
    BY <1>1, <2>1, Cat
<1>6. ClientBody(r) = h \o p
  BY <1>1, <1>3
<1>7. ClientBody(r) \o pad = d
  BY <1>6
<1> HIDE DEF d
<1>8. VerifyHeader(d)
  BY <1>3, <1>4 DEF VerifyHeader
<1> QED
  BY <1>3, <1>4, <1>5, <1>6, <1>7, <1>8 DEF src, dst, p, t

\* What ArpProtocolHandler finds in the ARP packet of a request.
LEMMA ArpRequestRead ==
    ASSUME NEW r \in Requests, r.kind = "arp", NEW pad \in Seq(Bytes)
    PROVE  LET d == ClientBody(r) \o pad
           IN  /\ ClientBody(r) \in Seq(Bytes)
               /\ ProtocolLength(d) = 4 /\ Uint16(d, 2) = ETHER_TYPE_IP /\ OperationCode(d) = r.op
               /\ SenderHardwareAddress(d) = GatewayMac
               /\ SenderProtocolAddress(d) = Bytes32(r.addr)
               /\ Uint32(TargetProtocolAddress(d), 0) = r.to
<1> DEFINE op == r.op
           src == r.addr
           dst == r.to
           zeros == Zeros(6)
           sp == Bytes32(src)
           tp == Bytes32(dst)
           p == ArpJoin(ArpFront(op), GatewayMac, sp, zeros, tp)
           d == p \o pad
<1>1. op \in {1, 2} /\ src \in Addresses /\ dst \in Addresses /\ GatewayMac \in Fields(6)
  BY RequestIs, Hosts DEF IsArp
<1>2. zeros \in Fields(6)
  <2>1. zeros \in Seq(Bytes)
    BY ZerosAre
  <2>2. Len(zeros) = 6
    BY ZerosAre
  <2> QED
    BY <2>1, <2>2 DEF Fields
<1>3. ClientBody(r) = RfcArp(op, GatewayMac, src, zeros, dst)
  BY DEF ClientBody
<1> HIDE DEF op, src, dst, zeros
<1>4. RfcArp(op, GatewayMac, src, zeros, dst) = p /\ p \in Seq(Bytes)
  BY <1>1, <1>2, ArpIs
<1>5. sp \in Fields(4) /\ tp \in Fields(4) /\ Uint32(tp, 0) = dst
  BY <1>1, FieldsAre, AddressRead
<1> HIDE DEF sp, tp
<1>6. Begins(d, p)
  <2> HIDE DEF p
  <2> QED
    BY <1>4, BeginsIs
<1>7. ClientBody(r) = p
  BY <1>3, <1>4
<1>8. ClientBody(r) \o pad = d
  BY <1>7
<1> HIDE DEF d
<1>9. /\ ProtocolLength(d) = 4 /\ Uint16(d, 2) = ETHER_TYPE_IP /\ OperationCode(d) = op
      /\ SenderHardwareAddress(d) = GatewayMac /\ SenderProtocolAddress(d) = sp
      /\ TargetProtocolAddress(d) = tp
  BY <1>1, <1>2, <1>5, <1>6, ArpRead
<1> QED
  BY <1>4, <1>5, <1>7, <1>8, <1>9 DEF op, src, dst, sp

\* The type and the body of a client's frame.
LEMMA BodyIs ==
    ASSUME NEW r \in Requests
    PROVE  /\ ClientBody(r) \in Seq(Bytes) /\ ClientType(r) \in 0..Ones
           /\ r.kind \in {"udp", "echo"} <=> ClientType(r) = ETHER_TYPE_IP
           /\ r.kind = "arp" <=> ClientType(r) = ETHER_TYPE_ARP
<1>1. r.kind \in {"udp", "echo", "arp", "other"} /\ (r.kind = "other" => r.body \in Seq(Bytes))
  BY RequestIs
<1>2. ClientBody(r) \in Seq(Bytes)
  <2>1. CASE r.kind \in {"udp", "echo"}
    <3> DEFINE e == <<>>
    <3>1. e \in Seq(Bytes)
      OBVIOUS
    <3> HIDE DEF e
    <3> QED
      BY <2>1, <3>1, IpRequestRead
  <2>2. CASE r.kind = "arp"
    <3> DEFINE e == <<>>
    <3>1. e \in Seq(Bytes)
      OBVIOUS
    <3> HIDE DEF e
    <3> QED
      BY <2>2, <3>1, ArpRequestRead
  <2>3. CASE r.kind = "other"
    BY <1>1, <2>3 DEF ClientBody
  <2> QED
    BY <1>1, <2>1, <2>2, <2>3
<1>3. 2054 \in 0..Ones /\ 34525 \in 0..Ones /\ 2048 \in 0..Ones
  BY Sizes
<1> QED
  BY <1>1, <1>2, <1>3 DEF ClientType, ETHER_TYPE_IP, ETHER_TYPE_ARP

\* What a frame of a client holds; pad is what fills it up.
ClientFrame(r, pad) ==
    OurMac \o GatewayMac \o Bytes16(ClientType(r)) \o (ClientBody(r) \o pad)

\* The client's frame, filled up or not.
LEMMA FrameSent ==
    ASSUME NEW r \in Requests,
           NEW f, f = RfcFrame(OurMac, GatewayMac, ClientType(r), ClientBody(r), FillByte)
    PROVE  /\ \E pad \in Seq(Bytes) : f = ClientFrame(r, pad)
           /\ \E pad \in Seq(Bytes) : SubSeq(f, 1, 14 + Len(ClientBody(r))) = ClientFrame(r, pad)
<1> DEFINE b == ClientBody(r)
           front == OurMac \o GatewayMac \o Bytes16(ClientType(r))
           bytes == front \o b
           n == FrameMinSize - Len(bytes)
           fill == [i \in 1..n |-> FillByte]
<1>1. front \in Fields(14) /\ b \in Seq(Bytes)
  <2> DEFINE t == ClientType(r)
  <2>1. t \in 0..Ones
    BY BodyIs
  <2> HIDE DEF t
  <2>2. OurMac \o GatewayMac \o Bytes16(t) \in Fields(14)
    BY <2>1, Hosts, FrameFront
  <2> QED
    BY <2>2, BodyIs DEF t
<1>2. f = bytes \o fill
  BY DEF RfcFrame
<1>3. \A pad : ClientFrame(r, pad) = front \o (b \o pad)
  BY DEF ClientFrame
<1> HIDE DEF front, b
<1>4. front \in Seq(Bytes)
  BY <1>1 DEF Fields
<1>5. bytes \in Seq(Bytes) /\ Len(bytes) = Len(front) + Len(b)
  BY <1>1, <1>4, Cat
<1>6. fill \in Seq(Bytes)
  <2>1. FillByte \in Bytes
    BY BytesAssumption
  <2>2. n \in Int
    <3> HIDE DEF bytes
    <3> QED
      BY <1>5, LenProperties DEF FrameMinSize
  <2> HIDE DEF n
  <2> QED
    BY <2>1, <2>2
<1> HIDE DEF fill
<1>7. bytes \o fill = front \o (b \o fill)
  BY <1>1, <1>4, <1>6, CatAssociative
<1>8. \E pad \in Seq(Bytes) : f = ClientFrame(r, pad)
  BY <1>2, <1>3, <1>6, <1>7
<1>9. \E pad \in Seq(Bytes) : SubSeq(f, 1, 14 + Len(b)) = ClientFrame(r, pad)
  <2>1. Len(bytes) = 14 + Len(b)
    <3>1. Len(front) = 14
      BY <1>1 DEF Fields
    <3> QED
      BY <1>5, <3>1
  <2>2. Vector(bytes \o fill, 0, Len(bytes)) = bytes
    <3> HIDE DEF bytes
    <3> DEFINE d == bytes \o fill
    <3>0. bytes \in Seq(Bytes)
      BY <1>5
    <3>1. d \in Seq(Bytes) /\ Len(d) = Len(bytes) + Len(fill)
          /\ \A k \in 1..Len(bytes) : d[k] = bytes[k]
      BY <3>0, <1>6, Cat
    <3>2. Len(bytes) \in Nat /\ Len(fill) \in Nat
      BY <1>5, <1>6, LenProperties
    <3> HIDE DEF d
    <3>3. 0 \in Nat /\ 0 + Len(bytes) <= Len(d) /\ \A k \in 1..Len(bytes) : d[0 + k] = bytes[k]
      BY <3>1, <3>2
    <3>4. Vector(d, 0, Len(bytes)) = bytes
      BY <1>5, <3>1, <3>3, VectorIs
    <3> QED
      BY <3>4 DEF d
  <2>3. SubSeq(f, 1, 14 + Len(b)) = bytes
    <3> HIDE DEF bytes
    <3>1. Vector(f, 0, 14 + Len(b)) = bytes
      BY <1>2, <2>1, <2>2
    <3>2. Vector(f, 0, 14 + Len(b)) = SubSeq(f, 1, 14 + Len(b))
      <4>1. Len(b) \in Nat
        BY <1>1, LenProperties
      <4> QED
        BY <4>1 DEF Vector
    <3> QED
      BY <3>1, <3>2
  <2> DEFINE e == <<>>
  <2>4. e \in Seq(Bytes) /\ b \o e = b
    BY <1>1, CatEmpty
  <2>5. ClientFrame(r, e) = bytes
    BY <1>3, <2>4
  <2> HIDE DEF e, bytes
  <2> QED
    BY <2>3, <2>4, <2>5
<1> QED
  BY <1>8, <1>9 DEF b

\* What the device finds in it.
LEMMA FrameArrived ==
    ASSUME NEW r \in Requests, NEW pad \in Seq(Bytes)
    PROVE  /\ ClientFrame(r, pad) \in Seq(Bytes)
           /\ EtherType(ClientFrame(r, pad)) = ClientType(r)
           /\ Body(ClientFrame(r, pad)) = ClientBody(r) \o pad
           /\ ClientBody(r) \o pad \in Seq(Bytes)
<1> DEFINE t == ClientType(r)
           b == ClientBody(r)
           d == b \o pad
<1>1. t \in 0..Ones /\ b \in Seq(Bytes)
  BY BodyIs
<1>2. ClientFrame(r, pad) = OurMac \o GatewayMac \o Bytes16(t) \o d
  BY DEF ClientFrame
<1> HIDE DEF t, b
<1>3. d \in Seq(Bytes)
  BY <1>1, Cat
<1> HIDE DEF d
<1> DEFINE f == OurMac \o GatewayMac \o Bytes16(t) \o d
<1>4. f \in Seq(Bytes) /\ EtherType(f) = t /\ Body(f) = d
  BY <1>1, <1>3, Hosts, FrameRead
<1> HIDE DEF f
<1> QED
  BY <1>2, <1>3, <1>4 DEF f, t, b, d

-----------------------------------------------------------------------------
(* What the program answers. *)

\* The echo of a datagram, before its checksum is set, the checksum, and the echo; past
\* is the byte past the end.
AnswerLaid(port, payload) == Segment(OurPort, port, <<0, 0>>, payload)
AnswerSum(addr, port, payload, beyond) ==
    Complement(UdpChecksum(OurAddr, addr, AnswerLaid(port, payload), beyond))
Answer(addr, port, payload, beyond) ==
    Segment(OurPort, port, Bytes16(AnswerSum(addr, port, payload, beyond)), payload)

\* Its checksum is the one of RFC 768 unless a carry is lost or a foreign byte read.
LEMMA AnswerIs ==
    ASSUME NEW addr, NEW port, NEW payload, NEW beyond, addr \in Addresses, port \in 0..Ones,
           payload \in Seq(Bytes), Fits(8, payload),
           \A s \in Seq(Bytes) : Len(s) = 8 + Len(payload) => Fits(20, s), beyond \in Bytes
    PROVE  /\ Answer(addr, port, payload, beyond) \in Seq(Bytes)
           /\ Fits(20, Answer(addr, port, payload, beyond))
           /\ Write(AnswerLaid(port, payload), 6, Bytes16(AnswerSum(addr, port, payload, beyond)))
                = Answer(addr, port, payload, beyond)
           /\ Write(Answer(addr, port, payload, beyond), 6, <<0, 0>>) = AnswerLaid(port, payload)
           /\ beyond = 0 /\ Regular(OurAddr, addr, AnswerLaid(port, payload), beyond)
                => AnswerSum(addr, port, payload, beyond)
                     = RfcChecksum(Covered(OurAddr, addr, OurPort, port, payload))
<1> DEFINE z == <<0, 0>>
           laid == Segment(OurPort, port, z, payload)
           q == WordSum(PseudoHeader(OurAddr, addr, 8 + Len(payload)), 0)
           s == WordSum(laid, beyond)
           y == WordSum(Covered(OurAddr, addr, OurPort, port, payload), 0)
           c == AnswerSum(addr, port, payload, beyond)
           w == Bytes16(c)
           d == Segment(OurPort, port, w, payload)
<1>1. OurAddr \in Addresses /\ OurPort \in 0..Ones /\ z \in Fields(2) /\ 0 \in Bytes
  BY Hosts, FieldsAre, Sizes
<1>2. z[1] * Byte + z[2] = 0
  BY OnesIn
<1>3. AnswerLaid(port, payload) = laid
  BY DEF AnswerLaid
<1>4. Answer(addr, port, payload, beyond) = d
  BY DEF Answer
<1> HIDE DEF z
<1>5. laid \in Seq(Bytes) /\ Len(laid) = 8 + Len(payload)
  BY <1>1, SegmentIs
<1>6. /\ q \in Nat /\ y \in Nat
      /\ \A b \in Fields(2) : q + WordSum(Segment(OurPort, port, b, payload), 0)
                                = y + (b[1] * Byte + b[2])
  BY <1>1, CoveredIs
<1>7. q + WordSum(laid, 0) = y
  BY <1>1, <1>2, <1>6
<1> HIDE DEF laid, y
<1>8. s \in Nat
  BY <1>5, WordSumBound
<1>9. WordSum(PseudoHeader(OurAddr, addr, Len(laid)), 0) = q
  BY <1>5
<1>10. c = Complement(Fold(Fold(q) + Fold(s)))
  BY <1>3, <1>9 DEF AnswerSum, UdpChecksum, CalculateChecksum
<1> HIDE DEF c, q, s
<1>11. c \in 0..Ones
  <2>1. Fold(q) \in 0..Ones /\ Fold(s) \in 0..Ones
    BY <1>6, <1>8, FoldRange
  <2> DEFINE u == Fold(q) + Fold(s)
  <2>2. u \in Nat
    BY <2>1, OnesIn
  <2> HIDE DEF u
  <2> DEFINE v == Fold(u)
  <2>3. v \in 0..Ones
    BY <2>2, FoldRange
  <2> HIDE DEF v
  <2>4. Complement(v) \in 0..Ones
    BY <2>3, ComplementRange
  <2> QED
    BY <1>10, <2>4 DEF v, u
<1>12. w \in Fields(2)
  BY <1>11, FieldsAre
<1> HIDE DEF w
<1>13. d \in Seq(Bytes) /\ Len(d) = 8 + Len(payload)
  BY <1>1, <1>12, SegmentIs
<1>14. Write(d, 6, z) = laid /\ Write(laid, 6, w) = d
  BY <1>1, <1>12, SegmentWritten DEF laid
<1> HIDE DEF d
<1>15. Fits(20, d)
  BY <1>13
<1>16. ASSUME beyond = 0, Regular(OurAddr, addr, laid, beyond)
       PROVE  c = RfcChecksum(Covered(OurAddr, addr, OurPort, port, payload))
  <2>1. FoldsOnce(q) /\ FoldsOnce(s) /\ FoldsOnce(Fold(q) + Fold(s))
    BY <1>9, <1>16 DEF Regular, s
  <2>2. Fold(Fold(q) + Fold(s)) = OnesSum(q + s)
    BY <1>6, <1>8, <2>1, FoldsAre
  <2>3. q + s = y
    BY <1>7, <1>16 DEF s
  <2> QED
    BY <1>10, <2>2, <2>3 DEF RfcChecksum, y
<1> QED
  BY <1>3, <1>4, <1>13, <1>14, <1>15, <1>16 DEF c, w, z

\* The answer to an ICMP echo, before its checksum is set, the checksum, and the answer.
PongLaid(rest) == IcmpMessage(0, <<0, 0>>, rest)
PongSum(rest, beyond) == Complement(CalculateChecksum(PongLaid(rest), beyond))
Pong(rest, beyond) == IcmpMessage(0, Bytes16(PongSum(rest, beyond)), rest)

\* It is the one of RFC 792 unless a carry is lost or a foreign byte read.
LEMMA PongIs ==
    ASSUME NEW rest, NEW beyond, rest \in Seq(Bytes), beyond \in Bytes,
           \A s \in Seq(Bytes) : Len(s) = 4 + Len(rest) => Fits(20, s)
    PROVE  /\ PongSum(rest, beyond) \in 0..Ones
           /\ Pong(rest, beyond) \in Seq(Bytes) /\ Fits(20, Pong(rest, beyond))
           /\ SetIcmpChecksum(PongLaid(rest), PongSum(rest, beyond)) = Pong(rest, beyond)
           /\ Write(Pong(rest, beyond), 2, <<0, 0>>) = PongLaid(rest)
           /\ beyond = 0 /\ FoldsOnce(WordSum(PongLaid(rest), 0)) => Pong(rest, beyond) = RfcIcmp(0, rest)
<1> DEFINE z == <<0, 0>>
           laid == IcmpMessage(0, z, rest)
           s == WordSum(laid, beyond)
           x == <<0, 0>> \o rest
           c == PongSum(rest, beyond)
           w == Bytes16(c)
           d == IcmpMessage(0, w, rest)
<1>1. z \in Fields(2) /\ 0 \in Bytes /\ 0 \in 0..Ones
  BY FieldsAre, Sizes
<1>2. z[1] * Byte + z[2] = 0
  BY OnesIn
<1>3. Bytes16(0) = z
  BY OnesIn DEF Bytes16
<1>4. PongLaid(rest) = laid /\ Pong(rest, beyond) = d
  BY DEF PongLaid, Pong
<1>5. WordSum(laid, 0) = WordSum(x, 0) + (z[1] * Byte + z[2]) /\ x \in Seq(Bytes)
  <2> HIDE DEF z
  <2> QED
    BY <1>1, IcmpSum
<1>6. laid \in Seq(Bytes)
  <2> HIDE DEF z
  <2> QED
    BY <1>1, IcmpIs
<1> HIDE DEF z, laid, x
<1>7. s \in Nat /\ WordSum(x, 0) \in Nat
  BY <1>1, <1>5, <1>6, WordSumBound
<1>8. c = Complement(Fold(s))
  BY <1>4 DEF PongSum, CalculateChecksum
<1> HIDE DEF c
<1>9. c \in 0..Ones
  <2> HIDE DEF s
  <2> DEFINE v == Fold(s)
  <2>1. v \in 0..Ones
    BY <1>7, FoldRange
  <2> HIDE DEF v
  <2>2. Complement(v) \in 0..Ones
    BY <2>1, ComplementRange
  <2> QED
    BY <1>8, <2>2 DEF v
<1>10. w \in Fields(2)
  BY <1>9, FieldsAre
<1> HIDE DEF w
<1>11. d \in Seq(Bytes) /\ Len(d) = 4 + Len(rest)
       /\ SetIcmpChecksum(d, 0) = IcmpMessage(0, Bytes16(0), rest)
  BY <1>1, <1>10, IcmpIs
<1>12. Write(d, 2, z) = laid
  BY <1>3, <1>11 DEF SetIcmpChecksum, laid
<1>13. SetIcmpChecksum(laid, c) = d
  BY <1>1, <1>9, IcmpIs DEF laid, d, w
<1> HIDE DEF d
<1>14. Fits(20, d)
  BY <1>11
<1>15. ASSUME beyond = 0, FoldsOnce(WordSum(laid, 0))
       PROVE  d = RfcIcmp(0, rest)
  <2>1. s = WordSum(x, 0)
    BY <1>2, <1>5, <1>7, <1>15
  <2>2. Fold(s) = OnesSum(s)
    <3>1. FoldsOnce(s)
      BY <1>15
    <3> QED
      BY <1>7, <3>1, FoldIsOnesSum
  <2>3. c = RfcChecksum(x)
    BY <1>8, <2>1, <2>2 DEF RfcChecksum
  <2> QED
    BY <2>3 DEF RfcIcmp, IcmpMessage, d, w, x
<1> QED
  BY <1>4, <1>9, <1>11, <1>12, <1>14, <1>15, <1>13 DEF c, z

-----------------------------------------------------------------------------
(* The inductive invariant. *)

\* The packet is bytes that a frame may be filled up behind.
Padded(d, packet) == \E pad \in Seq(Bytes) : d = packet \o pad

\* The addresses the handlers find are part of one record.
PeerOK == peer \in [addr : Addresses, port : 0..Ones, mac : Seq(Bytes)]

\* What a request has become when it gets to a stage: nothing of it is lost on the way,
\* and nothing is taken for it that is not part of it.
Traced ==
    /\ stage = "arrived" => \E pad \in Seq(Bytes) : frame = ClientFrame(request, pad)
    /\ stage = "ip" => request.kind \in {"udp", "echo"} /\ Padded(data, ClientBody(request))
    /\ stage = "arp" => request.kind = "arp" /\ Padded(data, ClientBody(request))
    /\ stage = "udp" =>
          /\ request.kind = "udp" /\ request.to = OurAddr /\ peer.addr = request.addr
          /\ data = UdpPacket(request)
    /\ stage \in {"icmp", "reply"} =>
          /\ request.kind = "echo" /\ request.to = OurAddr /\ peer.addr = request.addr
          /\ data = EchoPacket(request)
    /\ stage = "received" =>
          /\ request.kind = "udp" /\ request.to = OurAddr /\ request.dport = OurPort
          /\ peer.addr = request.addr /\ peer.port = request.port
          /\ buf = request.body \o Zeros(8)
    /\ stage = "output" =>
          /\ request.kind \in {"udp", "echo"} /\ peer.addr = request.addr
          /\ request.kind = "udp" =>
                /\ buf = request.body \o Zeros(8)
                /\ data = Answer(request.addr, request.port, buf, past)
          /\ request.kind = "echo" => data = Pong(request.body, past)

IInv == /\ TypeOK /\ PeerOK /\ Traced
        /\ RegularAccepted /\ EchoAnswered /\ PingAnswered /\ ArpAnswered

\* The byte past the end is one of those the model knows.
LEMMA PastIs ==
    ASSUME NEW d, NEW x \in PastOf(d)
    PROVE  x \in PastBytes /\ x \in Bytes
BY BytesAssumption DEF PastOf

\* The invariant holds before anything is sent.
LEMMA IInvInit == Init => IInv
<1> SUFFICES ASSUME Init PROVE IInv
  OBVIOUS
<1>1. /\ stage = "new" /\ request \in Requests /\ frame = <<>> /\ data = <<>>
      /\ peer = [addr |-> <<0, 0>>, port |-> 0, mac |-> <<>>] /\ buf = <<>> /\ past = 0
  BY DEF Init, Nobody
<1>2. 0 \in 0..Ones
  BY Sizes
<1>3. PeerOK
  BY <1>1, <1>2 DEF PeerOK, Addresses
<1>4. TypeOK
  BY <1>1, <1>2, BytesAssumption DEF TypeOK
<1>5. Traced
  BY <1>1 DEF Traced
<1>6. RegularAccepted /\ EchoAnswered /\ PingAnswered /\ ArpAnswered
  BY <1>1 DEF RegularAccepted, EchoAnswered, PingAnswered, ArpAnswered
<1> QED
  BY <1>3, <1>4, <1>5, <1>6 DEF IInv

\* What the invariant says of the types, primed or not.
LEMMA Typed ==
    TypeOK /\ PeerOK <=>
        /\ stage \in {"new", "arrived", "ip", "udp", "icmp", "arp", "received", "reply", "output",
                      "sent", "asked", "passed", "thrown"}
        /\ request \in Requests
        /\ frame \in Seq(Bytes) /\ data \in Seq(Bytes) /\ buf \in Seq(Bytes)
        /\ past \in PastBytes
        /\ peer \in [addr : Addresses, port : 0..Ones, mac : Seq(Bytes)]
BY DEF TypeOK, PeerOK, Addresses

\* ClientSend puts the whole packet into the frame.
LEMMA ClientSendStep ==
    ASSUME IInv, ClientSend
    PROVE  IInv'
<1> DEFINE f == RfcFrame(OurMac, GatewayMac, ClientType(request), ClientBody(request), FillByte)
<1>1. request \in Requests /\ TypeOK /\ PeerOK
  BY DEF IInv, TypeOK
<1>2. /\ stage' = "arrived" /\ request' = request /\ data' = data /\ peer' = peer
      /\ buf' = buf /\ past' = past
      /\ frame' = f \/ frame' = SubSeq(f, 1, 14 + Len(ClientBody(request)))
  BY DEF ClientSend
<1>3. \E pad \in Seq(Bytes) : frame' = ClientFrame(request, pad)
  <2>1. /\ \E pad \in Seq(Bytes) : f = ClientFrame(request, pad)
        /\ \E pad \in Seq(Bytes) : SubSeq(f, 1, 14 + Len(ClientBody(request))) = ClientFrame(request, pad)
    BY <1>1, FrameSent
  <2> HIDE DEF f
  <2> QED
    BY <1>2, <2>1
<1>4. frame' \in Seq(Bytes)
  BY <1>1, <1>3, FrameArrived
<1>5. TypeOK' /\ PeerOK'
  BY <1>1, <1>2, <1>4, Typed DEF TypeOK, PeerOK
<1>6. Traced'
  BY <1>2, <1>3 DEF Traced
<1>7. (RegularAccepted /\ EchoAnswered /\ PingAnswered /\ ArpAnswered)'
  BY <1>2 DEF RegularAccepted, EchoAnswered, PingAnswered, ArpAnswered
<1> QED
  BY <1>5, <1>6, <1>7 DEF IInv

\* EtherDevice::handler takes the packet out of it, and finds its queue.
LEMMA DeviceReadStep ==
    ASSUME IInv, DeviceRead
    PROVE  IInv'
<1>1. request \in Requests /\ TypeOK /\ PeerOK /\ Traced
  BY DEF IInv, TypeOK
<1>2. PICK pad \in Seq(Bytes) : frame = ClientFrame(request, pad)
  BY <1>1 DEF Traced, DeviceRead
<1>3. /\ EtherType(frame) = ClientType(request) /\ Body(frame) = ClientBody(request) \o pad
      /\ ClientBody(request) \o pad \in Seq(Bytes)
  BY <1>1, <1>2, FrameArrived
<1>4. /\ request.kind \in {"udp", "echo"} <=> ClientType(request) = ETHER_TYPE_IP
      /\ request.kind = "arp" <=> ClientType(request) = ETHER_TYPE_ARP
  BY <1>1, BodyIs
<1> DEFINE d == ClientBody(request) \o pad
<1>5. /\ data' = d /\ d \in Seq(Bytes)
      /\ request' = request /\ frame' = frame /\ peer' = peer /\ buf' = buf /\ past' = past
      /\ \/ stage' = "ip" /\ request.kind \in {"udp", "echo"}
         \/ stage' = "arp" /\ request.kind = "arp"
         \/ stage' = "passed" /\ request.kind \notin {"udp", "echo", "arp"}
  BY <1>3, <1>4 DEF DeviceRead
<1>6. Padded(d, ClientBody(request))
  BY DEF Padded
<1> HIDE DEF d
<1>7. TypeOK' /\ PeerOK'
  BY <1>1, <1>5, Typed DEF TypeOK, PeerOK
<1>8. Traced'
  BY <1>5, <1>6 DEF Traced
<1>9. (RegularAccepted /\ EchoAnswered /\ PingAnswered /\ ArpAnswered)'
  BY <1>5 DEF RegularAccepted, EchoAnswered, PingAnswered, ArpAnswered
<1> QED
  BY <1>7, <1>8, <1>9 DEF IInv

\* Ipv4ProtocolHandler finds the header of every request right, throws only what is not
\* for this host, and hands on the datagram or the echo alone.
LEMMA IpHandleStep ==
    ASSUME IInv, IpHandle
    PROVE  IInv'
<1>1. request \in Requests /\ TypeOK /\ PeerOK /\ Traced
  BY DEF IInv, TypeOK
<1>2. request.kind \in {"udp", "echo"} /\ Padded(data, ClientBody(request))
  BY <1>1 DEF Traced, IpHandle
<1>3. PICK pad \in Seq(Bytes) : data = ClientBody(request) \o pad
  BY <1>2 DEF Padded
<1>4. /\ VerifyHeader(data)
      /\ IpSrc(data) = request.addr /\ IpDst(data) = request.to
      /\ Protocol(data) = CarriedProtocol(request) /\ IpPayload(data) = Carried(request)
  BY <1>1, <1>2, <1>3, IpRequestRead
<1>5. /\ Carried(request) \in Seq(Bytes)
      /\ request.addr \in Addresses
  BY <1>1, <1>2, CarriedIs
<1>6. request' = request /\ frame' = frame /\ buf' = buf /\ past' = past
  BY DEF IpHandle
<1>7. CASE request.to = OurAddr
  <2>1. /\ stage' = IF CarriedProtocol(request) = UDP_TYPE THEN "udp" ELSE "icmp"
        /\ peer' = [peer EXCEPT !.addr = request.addr]
        /\ data' = Carried(request)
    BY <1>4, <1>7 DEF IpHandle
  <2>2. /\ peer' \in [addr : Addresses, port : 0..Ones, mac : Seq(Bytes)]
        /\ peer'.addr = request.addr
    BY <1>1, <1>5, <2>1 DEF PeerOK
  <2>3. \/ stage' = "udp" /\ request.kind = "udp" /\ data' = UdpPacket(request)
        \/ stage' = "icmp" /\ request.kind = "echo" /\ data' = EchoPacket(request)
    BY <1>2, <2>1 DEF CarriedProtocol, Carried, UDP_TYPE
  <2>4. TypeOK' /\ PeerOK'
    BY <1>1, <1>5, <1>6, <2>1, <2>2, <2>3, Typed DEF TypeOK, PeerOK, Addresses
  <2>5. Traced'
    BY <1>6, <1>7, <2>2, <2>3 DEF Traced
  <2>6. (RegularAccepted /\ EchoAnswered /\ PingAnswered /\ ArpAnswered)'
    BY <2>3 DEF RegularAccepted, EchoAnswered, PingAnswered, ArpAnswered
  <2> QED
    BY <2>4, <2>5, <2>6 DEF IInv
<1>8. CASE request.to # OurAddr
  <2>1. stage' = "thrown" /\ peer' = peer /\ data' = data
    BY <1>4, <1>8 DEF IpHandle
  <2>2. TypeOK' /\ PeerOK'
    BY <1>1, <1>6, <2>1 DEF TypeOK, PeerOK
  <2>3. Traced'
    BY <2>1 DEF Traced
  <2>4. (RegularAccepted /\ EchoAnswered /\ PingAnswered /\ ArpAnswered)'
    BY <1>6, <1>8, <2>1 DEF RegularAccepted, EchoAnswered, PingAnswered, ArpAnswered
  <2> QED
    BY <2>2, <2>3, <2>4 DEF IInv
<1> QED
  BY <1>7, <1>8

\* UdpHandler throws a datagram with a checksum only when it loses a carry or reads a
\* foreign byte; what recvFrom returns is the body and eight zeros.
LEMMA UdpHandleStep ==
    ASSUME IInv, UdpHandle
    PROVE  IInv'
<1>1. request \in Requests /\ TypeOK /\ PeerOK /\ Traced
  BY DEF IInv, TypeOK
<1>2. /\ request.kind = "udp" /\ request.to = OurAddr /\ peer.addr = request.addr
      /\ data = UdpPacket(request)
  BY <1>1 DEF Traced, UdpHandle
<1>3. IsUdp(request)
  BY <1>1, <1>2, RequestIs
<1>4. /\ SrcPort(data) = request.port /\ DstPort(data) = request.dport
      /\ UdpPayload(data) = request.body \o Zeros(8)
      /\ request.summed /\ Regular(request.addr, OurAddr, data, 0)
           => UdpChecksum(request.addr, OurAddr, data, 0) = Ones
  BY <1>2, <1>3, UdpPacketIs
<1>5. request.port \in 0..Ones /\ request.summed \in BOOLEAN
  BY <1>3 DEF IsUdp
<1>6. request.body \o Zeros(8) \in Seq(Bytes)
  BY <1>3, Room DEF IsUdp
<1>7. request' = request /\ frame' = frame /\ data' = data
  BY DEF UdpHandle
<1>8. past' \in PastBytes /\ past' \in Bytes
  BY PastIs DEF UdpHandle
<1>9. CASE UdpChecksum(request.addr, OurAddr, data, past') # Ones
  <2>1. stage' = "thrown" /\ peer' = peer /\ buf' = buf
    BY <1>2, <1>9 DEF UdpHandle
  <2>2. TypeOK' /\ PeerOK'
    BY <1>1, <1>7, <1>8, <2>1 DEF TypeOK, PeerOK
  <2>3. Traced'
    BY <2>1 DEF Traced
  <2>4. UdpRegular(peer.addr, OurAddr, data)' <=> Regular(request.addr, OurAddr, data, past')
    BY <1>2, <1>7, <2>1 DEF UdpRegular, Regular
  <2>5. RegularAccepted'
    <3>1. past' # 0 \/ ~request.summed \/ ~Regular(request.addr, OurAddr, data, past')
      BY <1>4, <1>9
    <3> QED
      BY <1>2, <1>7, <2>4, <3>1 DEF RegularAccepted
  <2>6. (EchoAnswered /\ PingAnswered /\ ArpAnswered)'
    BY <2>1 DEF EchoAnswered, PingAnswered, ArpAnswered
  <2> QED
    BY <2>2, <2>3, <2>5, <2>6 DEF IInv
<1>10. CASE /\ UdpChecksum(request.addr, OurAddr, data, past') = Ones
            /\ request.dport = OurPort
  <2>1. /\ stage' = "received"
        /\ peer' = [peer EXCEPT !.port = request.port]
        /\ buf' = request.body \o Zeros(8)
    BY <1>2, <1>4, <1>10 DEF UdpHandle
  <2>2. /\ peer' \in [addr : Addresses, port : 0..Ones, mac : Seq(Bytes)]
        /\ peer'.addr = request.addr /\ peer'.port = request.port
    BY <1>1, <1>2, <1>5, <2>1 DEF PeerOK
  <2>3. buf' \in Seq(Bytes)
    BY <1>6, <2>1
  <2>4. TypeOK' /\ PeerOK'
    BY <1>1, <1>7, <1>8, <2>1, <2>2, <2>3 DEF TypeOK, PeerOK, Addresses
  <2>5. Traced'
    BY <1>2, <1>7, <1>10, <2>1, <2>2 DEF Traced
  <2>6. (RegularAccepted /\ EchoAnswered /\ PingAnswered /\ ArpAnswered)'
    BY <2>1 DEF RegularAccepted, EchoAnswered, PingAnswered, ArpAnswered
  <2> QED
    BY <2>4, <2>5, <2>6 DEF IInv
<1>11. CASE /\ UdpChecksum(request.addr, OurAddr, data, past') = Ones
            /\ request.dport # OurPort
  <2>1. stage' = "passed" /\ peer' = peer /\ buf' = buf
    BY <1>2, <1>4, <1>11 DEF UdpHandle
  <2>2. TypeOK' /\ PeerOK'
    BY <1>1, <1>7, <1>8, <2>1 DEF TypeOK, PeerOK
  <2>3. Traced'
    BY <2>1 DEF Traced
  <2>4. (RegularAccepted /\ EchoAnswered /\ PingAnswered /\ ArpAnswered)'
    BY <1>2, <1>7, <2>1 DEF RegularAccepted, EchoAnswered, PingAnswered, ArpAnswered
  <2> QED
    BY <2>2, <2>3, <2>4 DEF IInv
<1> QED
  BY <1>9, <1>10, <1>11

\* IcmpHandler throws an echo only when it reads a foreign byte.
LEMMA IcmpHandleStep ==
    ASSUME IInv, IcmpHandle
    PROVE  IInv'
<1>1. request \in Requests /\ TypeOK /\ PeerOK /\ Traced
  BY DEF IInv, TypeOK
<1>2. /\ request.kind = "echo" /\ request.to = OurAddr /\ peer.addr = request.addr
      /\ data = EchoPacket(request)
  BY <1>1 DEF Traced, IcmpHandle
<1>3. IcmpType(data) = TYPE_ECHO /\ CalculateChecksum(data, 0) = Ones
  <2>1. Short(request.body)
    BY <1>1, <1>2, RequestIs DEF IsEcho
  <2> QED
    BY <1>2, <2>1, EchoPacketIs DEF TYPE_ECHO
<1>4. /\ request' = request /\ frame' = frame /\ data' = data /\ peer' = peer /\ buf' = buf
      /\ stage' = IF CalculateChecksum(data, past') # Ones THEN "thrown" ELSE "reply"
  BY <1>3 DEF IcmpHandle
<1>5. past' \in PastBytes
  BY PastIs DEF IcmpHandle
<1>6. TypeOK' /\ PeerOK'
  BY <1>1, <1>4, <1>5 DEF TypeOK, PeerOK
<1>7. Traced'
  BY <1>2, <1>4 DEF Traced
<1>8. RegularAccepted'
  <2>1. stage' = "thrown" => past' # 0
    BY <1>3, <1>4
  <2> QED
    BY <2>1 DEF RegularAccepted
<1>9. (EchoAnswered /\ PingAnswered /\ ArpAnswered)'
  BY <1>4 DEF EchoAnswered, PingAnswered, ArpAnswered
<1> QED
  BY <1>6, <1>7, <1>8, <1>9 DEF IInv

\* The ARP packets of the program are those of RFC 826.
LEMMA ArpFrameIs ==
    ASSUME NEW op, NEW to, NEW mac, NEW addr, op \in {1, 2}, to \in Fields(6), mac \in Fields(6),
           addr \in Addresses
    PROVE  /\ EtherFrame(to, OurMac, ETHER_TYPE_ARP,
                         ArpData(op, OurMac, Bytes32(OurAddr), mac, Bytes32(addr)))
                = RfcFrame(to, OurMac, 2054, RfcArp(op, OurMac, OurAddr, mac, addr), 0)
           /\ RfcFrame(to, OurMac, 2054, RfcArp(op, OurMac, OurAddr, mac, addr), 0) \in Seq(Bytes)
<1>1. OurMac \in Fields(6) /\ OurAddr \in Addresses
  BY Hosts
<1> DEFINE type == 2054
           b == RfcArp(op, OurMac, OurAddr, mac, addr)
<1>2. type \in 0..Ones
  BY Sizes
<1>3. ArpData(op, OurMac, Bytes32(OurAddr), mac, Bytes32(addr)) = b /\ b \in Seq(Bytes)
  BY <1>1, ArpIs
<1> HIDE DEF b, type
<1>4. EtherFrame(to, OurMac, type, b) = RfcFrame(to, OurMac, type, b, 0)
      /\ EtherFrame(to, OurMac, type, b) \in Seq(Bytes)
  BY <1>1, <1>2, <1>3, FrameIs
<1> QED
  BY <1>3, <1>4 DEF ETHER_TYPE_ARP, type, b

\* ArpProtocolHandler caches whoever asks for this host, and tells it the address.
LEMMA ArpHandleStep ==
    ASSUME IInv, ArpHandle
    PROVE  IInv'
<1>1. request \in Requests /\ TypeOK /\ PeerOK /\ Traced
  BY DEF IInv, TypeOK
<1>2. request.kind = "arp" /\ Padded(data, ClientBody(request))
  BY <1>1 DEF Traced, ArpHandle
<1>3. PICK pad \in Seq(Bytes) : data = ClientBody(request) \o pad
  BY <1>2 DEF Padded
<1>4. /\ ProtocolLength(data) = 4 /\ Uint16(data, 2) = ETHER_TYPE_IP
      /\ OperationCode(data) = request.op
      /\ SenderHardwareAddress(data) = GatewayMac
      /\ SenderProtocolAddress(data) = Bytes32(request.addr)
      /\ Uint32(TargetProtocolAddress(data), 0) = request.to
  BY <1>1, <1>2, <1>3, ArpRequestRead
<1>5. request.addr \in Addresses /\ GatewayMac \in Fields(6)
  BY <1>1, <1>2, RequestIs, Hosts DEF IsArp
<1>6. Uint32(Bytes32(request.addr), 0) = request.addr
  BY <1>5, AddressRead
<1>7. request' = request /\ data' = data /\ buf' = buf /\ past' = past
  BY DEF ArpHandle
<1>8. CASE request.to = OurAddr
  <2> DEFINE f == RfcFrame(GatewayMac, OurMac, 2054,
                           RfcArp(2, OurMac, OurAddr, GatewayMac, request.addr), 0)
  <2>1. /\ peer' = [peer EXCEPT !.addr = request.addr, !.mac = GatewayMac]
        /\ \/ /\ stage' = "sent"
              /\ frame' = EtherFrame(GatewayMac, OurMac, ETHER_TYPE_ARP,
                              ArpData(OP_REPLY, OurMac, Bytes32(OurAddr), GatewayMac,
                                      Bytes32(request.addr)))
           \/ stage' = "passed" /\ frame' = frame
    BY <1>4, <1>6, <1>8 DEF ArpHandle
  <2>2. f \in Seq(Bytes)
        /\ EtherFrame(GatewayMac, OurMac, ETHER_TYPE_ARP,
               ArpData(2, OurMac, Bytes32(OurAddr), GatewayMac, Bytes32(request.addr))) = f
    BY <1>5, ArpFrameIs
  <2>3. frame' \in Seq(Bytes) /\ (stage' = "sent" => frame' = f) /\ stage' \in {"sent", "passed"}
    <3>1. frame \in Seq(Bytes)
      BY <1>1 DEF TypeOK
    <3> HIDE DEF f
    <3> QED
      BY <2>1, <2>2, <3>1 DEF OP_REPLY
  <2>4. /\ peer' \in [addr : Addresses, port : 0..Ones, mac : Seq(Bytes)]
        /\ peer'.addr = request.addr /\ peer'.mac = GatewayMac
    <3>1. GatewayMac \in Seq(Bytes)
      BY <1>5 DEF Fields
    <3> QED
      BY <1>1, <1>5, <2>1, <3>1 DEF PeerOK
  <2>5. TypeOK' /\ PeerOK'
    BY <1>1, <1>7, <2>3, <2>4 DEF TypeOK, PeerOK, Addresses
  <2>6. Traced'
    BY <2>3 DEF Traced
  <2>7. ArpAnswered'
    BY <1>7, <2>3, <2>4 DEF ArpAnswered
  <2>8. (RegularAccepted /\ EchoAnswered /\ PingAnswered)'
    BY <1>2, <1>7, <2>3 DEF RegularAccepted, EchoAnswered, PingAnswered
  <2> QED
    BY <2>5, <2>6, <2>7, <2>8 DEF IInv
<1>9. CASE request.to # OurAddr
  <2>1. stage' = "thrown" /\ peer' = peer /\ frame' = frame
    BY <1>4, <1>9 DEF ArpHandle
  <2>2. TypeOK' /\ PeerOK'
    BY <1>1, <1>7, <2>1 DEF TypeOK, PeerOK
  <2>3. Traced'
    BY <2>1 DEF Traced
  <2>4. (RegularAccepted /\ EchoAnswered /\ PingAnswered /\ ArpAnswered)'
    BY <1>7, <1>9, <2>1 DEF RegularAccepted, EchoAnswered, PingAnswered, ArpAnswered
  <2> QED
    BY <2>2, <2>3, <2>4 DEF IInv
<1> QED
  BY <1>8, <1>9

\* What is known of an answer before it is sent.
LEMMA AnswersAre ==
    ASSUME NEW r \in Requests, NEW x \in Bytes
    PROVE  /\ r.kind = "udp" =>
                LET b == r.body \o Zeros(8)
                IN  /\ Answer(r.addr, r.port, b, x) \in Seq(Bytes)
                    /\ Fits(20, Answer(r.addr, r.port, b, x))
                    /\ Write(AnswerLaid(r.port, b), 6, Bytes16(AnswerSum(r.addr, r.port, b, x)))
                         = Answer(r.addr, r.port, b, x)
                    /\ Write(Answer(r.addr, r.port, b, x), 6, <<0, 0>>) = AnswerLaid(r.port, b)
                    /\ x = 0 /\ Regular(OurAddr, r.addr, AnswerLaid(r.port, b), x)
                         => AnswerSum(r.addr, r.port, b, x)
                              = RfcChecksum(Covered(OurAddr, r.addr, OurPort, r.port, b))
           /\ r.kind = "echo" =>
                /\ Pong(r.body, x) \in Seq(Bytes)
                /\ Fits(20, Pong(r.body, x))
                /\ SetIcmpChecksum(PongLaid(r.body), PongSum(r.body, x)) = Pong(r.body, x)
                /\ Write(Pong(r.body, x), 2, <<0, 0>>) = PongLaid(r.body)
                /\ x = 0 /\ FoldsOnce(WordSum(PongLaid(r.body), 0))
                     => Pong(r.body, x) = RfcIcmp(0, r.body)
<1>1. ASSUME r.kind = "udp"
      PROVE  LET b == r.body \o Zeros(8)
             IN  /\ Answer(r.addr, r.port, b, x) \in Seq(Bytes)
                 /\ Fits(20, Answer(r.addr, r.port, b, x))
                 /\ Write(AnswerLaid(r.port, b), 6, Bytes16(AnswerSum(r.addr, r.port, b, x)))
                      = Answer(r.addr, r.port, b, x)
                 /\ Write(Answer(r.addr, r.port, b, x), 6, <<0, 0>>) = AnswerLaid(r.port, b)
                 /\ x = 0 /\ Regular(OurAddr, r.addr, AnswerLaid(r.port, b), x)
                      => AnswerSum(r.addr, r.port, b, x)
                           = RfcChecksum(Covered(OurAddr, r.addr, OurPort, r.port, b))
  <2> DEFINE addr == r.addr
             port == r.port
             b == r.body \o Zeros(8)
  <2>1. IsUdp(r)
    BY <1>1, RequestIs
  <2>2. addr \in Addresses /\ port \in 0..Ones /\ Short(r.body)
    BY <2>1 DEF IsUdp
  <2>3. b \in Seq(Bytes) /\ Fits(8, b)
        /\ \A s \in Seq(Bytes) : Len(s) = 8 + Len(b) => Fits(20, s)
    BY <2>2, Room
  <2> HIDE DEF addr, port, b
  <2>4. /\ Answer(addr, port, b, x) \in Seq(Bytes)
        /\ Fits(20, Answer(addr, port, b, x))
        /\ Write(AnswerLaid(port, b), 6, Bytes16(AnswerSum(addr, port, b, x))) = Answer(addr, port, b, x)
        /\ Write(Answer(addr, port, b, x), 6, <<0, 0>>) = AnswerLaid(port, b)
        /\ x = 0 /\ Regular(OurAddr, addr, AnswerLaid(port, b), x)
             => AnswerSum(addr, port, b, x) = RfcChecksum(Covered(OurAddr, addr, OurPort, port, b))
    BY <2>2, <2>3, AnswerIs
  <2> QED
    BY <2>4 DEF addr, port, b
<1>2. ASSUME r.kind = "echo"
      PROVE  /\ Pong(r.body, x) \in Seq(Bytes)
             /\ Fits(20, Pong(r.body, x))
             /\ SetIcmpChecksum(PongLaid(r.body), PongSum(r.body, x)) = Pong(r.body, x)
             /\ Write(Pong(r.body, x), 2, <<0, 0>>) = PongLaid(r.body)
             /\ x = 0 /\ FoldsOnce(WordSum(PongLaid(r.body), 0))
                  => Pong(r.body, x) = RfcIcmp(0, r.body)
  <2> DEFINE b == r.body
  <2>1. Short(b)
    BY <1>2, RequestIs DEF IsEcho
  <2> HIDE DEF b
  <2>2. b \in Seq(Bytes) /\ \A s \in Seq(Bytes) : Len(s) = 4 + Len(b) => Fits(20, s)
    BY <2>1, Room
  <2>3. /\ Pong(b, x) \in Seq(Bytes) /\ Fits(20, Pong(b, x))
        /\ SetIcmpChecksum(PongLaid(b), PongSum(b, x)) = Pong(b, x)
        /\ Write(Pong(b, x), 2, <<0, 0>>) = PongLaid(b)
        /\ x = 0 /\ FoldsOnce(WordSum(PongLaid(b), 0)) => Pong(b, x) = RfcIcmp(0, b)
    BY <2>2, PongIs
  <2> QED
    BY <2>3 DEF b
<1> QED
  BY <1>1, <1>2

\* replyIcmp turns an echo into its answer.
LEMMA EchoReplyIs ==
    ASSUME NEW r, Short(r.body)
    PROVE  SetIcmpChecksum(SetIcmpType(EchoPacket(r), TYPE_ECHO_REPLY), 0) = PongLaid(r.body)
<1> DEFINE b == r.body
           p == EchoPacket(r)
<1>1. PICK c \in Fields(2) : p = IcmpMessage(8, c, b)
  BY EchoPacketIs
<1>2. b \in Seq(Bytes)
  BY DEF Short
<1>3. 8 \in Bytes /\ 0 \in Bytes /\ 0 \in 0..Ones
  BY Sizes
<1>4. Bytes16(0) = <<0, 0>>
  BY OnesIn DEF Bytes16
<1> HIDE DEF b, p
<1>5. SetIcmpType(p, 0) = IcmpMessage(0, c, b)
  BY <1>1, <1>2, <1>3, IcmpIs
<1>6. SetIcmpChecksum(IcmpMessage(0, c, b), 0) = IcmpMessage(0, Bytes16(0), b)
  BY <1>2, <1>3, IcmpIs
<1> QED
  BY <1>4, <1>5, <1>6 DEF TYPE_ECHO_REPLY, PongLaid, p, b

\* main and udp_output lay out the echo of a datagram.
LEMMA EchoStep ==
    ASSUME IInv, Echo
    PROVE  IInv'
<1>1. request \in Requests /\ TypeOK /\ PeerOK /\ Traced
  BY DEF IInv, TypeOK
<1>2. /\ request.kind = "udp" /\ peer.addr = request.addr /\ peer.port = request.port
      /\ buf = request.body \o Zeros(8)
  BY <1>1 DEF Traced, Echo
<1> DEFINE addr == request.addr
           port == request.port
<1>3. /\ addr \in Addresses /\ port \in 0..Ones /\ Short(request.body)
  BY <1>1, <1>2, RequestIs DEF IsUdp
<1>4. buf \in Seq(Bytes) /\ Fits(8, buf)
  BY <1>2, <1>3, Room
<1>5. Ipv4strToUint32(Uint32ToIpv4str(peer.addr)) = addr
  BY <1>2, <1>3, AddressText
<1> DEFINE laid == SetUdpPayload(WriteAll(Zeros(UdpHeaderSize),
                                     <<<<0, Bytes16(OurPort)>>, <<2, Bytes16(peer.port)>>>>), buf)
           segment == WriteAll(laid, <<<<6, <<0, 0>>>>, <<4, Bytes16(Len(laid))>>>>)
<1>6. segment = AnswerLaid(port, buf)
  <2>1. peer.port = port
    BY <1>2
  <2> HIDE DEF port
  <2>2. OurPort \in 0..Ones
    BY Hosts
  <2> QED
    BY <1>3, <1>4, <2>1, <2>2, LaidOut DEF AnswerLaid
<1>7. /\ past' \in PastOf(segment)
      /\ data' = Write(segment, 6, Bytes16(Complement(UdpChecksum(OurAddr, addr, segment, past'))))
  BY <1>5 DEF Echo
<1> HIDE DEF segment
<1>8. past' \in PastBytes /\ past' \in Bytes
  BY <1>7, PastIs
<1>9. data' = Write(AnswerLaid(port, buf), 6, Bytes16(AnswerSum(addr, port, buf, past')))
  BY <1>6, <1>7 DEF AnswerSum
<1>10. data' = Answer(addr, port, buf, past') /\ data' \in Seq(Bytes)
  BY <1>1, <1>2, <1>8, <1>9, AnswersAre
<1>11. /\ stage' = "output" /\ request' = request /\ frame' = frame /\ peer' = peer /\ buf' = buf
  BY DEF Echo
<1>12. TypeOK' /\ PeerOK'
  BY <1>1, <1>8, <1>10, <1>11 DEF TypeOK, PeerOK
<1>13. Traced'
  BY <1>2, <1>10, <1>11 DEF Traced
<1>14. (RegularAccepted /\ EchoAnswered /\ PingAnswered /\ ArpAnswered)'
  BY <1>11 DEF RegularAccepted, EchoAnswered, PingAnswered, ArpAnswered
<1> QED
  BY <1>12, <1>13, <1>14 DEF IInv

\* replyIcmp lays out the answer to an echo.
LEMMA IcmpReplyStep ==
    ASSUME IInv, IcmpReply
    PROVE  IInv'
<1>1. request \in Requests /\ TypeOK /\ PeerOK /\ Traced
  BY DEF IInv, TypeOK
<1>2. request.kind = "echo" /\ peer.addr = request.addr /\ data = EchoPacket(request)
  BY <1>1 DEF Traced, IcmpReply
<1>3. Short(request.body)
  BY <1>1, <1>2, RequestIs DEF IsEcho
<1>4. EchoReply = PongLaid(request.body)
  BY <1>2, <1>3, EchoReplyIs DEF EchoReply
<1>5. past' \in PastBytes /\ past' \in Bytes
  BY PastIs DEF IcmpReply
<1>6. data' = SetIcmpChecksum(PongLaid(request.body), PongSum(request.body, past'))
  BY <1>4 DEF IcmpReply, PongSum
<1>7. data' = Pong(request.body, past') /\ data' \in Seq(Bytes)
  BY <1>1, <1>2, <1>5, <1>6, AnswersAre
<1>8. /\ stage' = "output" /\ request' = request /\ frame' = frame /\ peer' = peer /\ buf' = buf
  BY DEF IcmpReply
<1>9. TypeOK' /\ PeerOK'
  BY <1>1, <1>5, <1>7, <1>8 DEF TypeOK, PeerOK
<1>10. Traced'
  BY <1>2, <1>7, <1>8 DEF Traced
<1>11. (RegularAccepted /\ EchoAnswered /\ PingAnswered /\ ArpAnswered)'
  BY <1>8 DEF RegularAccepted, EchoAnswered, PingAnswered, ArpAnswered
<1> QED
  BY <1>9, <1>10, <1>11 DEF IInv

\* arpRequest asks for the gateway, and the answer is lost.
LEMMA ArpRequestStep ==
    ASSUME IInv, ArpRequest
    PROVE  IInv'
<1>1. request \in Requests /\ TypeOK /\ PeerOK /\ Traced
  BY DEF IInv, TypeOK
<1>2. request.kind \in {"udp", "echo"}
  BY <1>1 DEF Traced, ArpRequest
<1>3. /\ stage' = "asked" /\ request' = request /\ data' = data /\ peer' = peer /\ buf' = buf
      /\ past' = past
      /\ frame' = EtherFrame(BroadcastMac, OurMac, ETHER_TYPE_ARP,
                      ArpData(1, OurMac, Bytes32(OurAddr), Zeros(6), Bytes32(GatewayAddr)))
  BY DEF ArpRequest, OP_REQUEST
<1> DEFINE f == RfcFrame(BroadcastMac, OurMac, 2054,
                         RfcArp(1, OurMac, OurAddr, Zeros(6), GatewayAddr), 0)
<1>4. frame' = f /\ frame' \in Seq(Bytes)
  <2> DEFINE zeros == Zeros(6)
             op == 1
  <2>1. zeros \in Fields(6) /\ op \in {1, 2}
    <3>1. zeros \in Seq(Bytes)
      BY ZerosAre
    <3>2. Len(zeros) = 6
      BY ZerosAre
    <3> QED
      BY <3>1, <3>2 DEF Fields
  <2>2. BroadcastMac \in Fields(6) /\ GatewayAddr \in Addresses
    BY Hosts
  <2>3. frame' = EtherFrame(BroadcastMac, OurMac, ETHER_TYPE_ARP,
                      ArpData(op, OurMac, Bytes32(OurAddr), zeros, Bytes32(GatewayAddr)))
    BY <1>3
  <2>4. f = RfcFrame(BroadcastMac, OurMac, 2054, RfcArp(op, OurMac, OurAddr, zeros, GatewayAddr), 0)
    OBVIOUS
  <2> HIDE DEF zeros, op, f
  <2> QED
    BY <2>1, <2>2, <2>3, <2>4, ArpFrameIs
<1>5. TypeOK' /\ PeerOK'
  BY <1>1, <1>3, <1>4 DEF TypeOK, PeerOK
<1>6. Traced'
  BY <1>3 DEF Traced
<1>7. ArpAnswered'
  BY <1>2, <1>3, <1>4 DEF ArpAnswered
<1>8. (RegularAccepted /\ EchoAnswered /\ PingAnswered)'
  BY <1>3 DEF RegularAccepted, EchoAnswered, PingAnswered
<1> QED
  BY <1>5, <1>6, <1>7, <1>8 DEF IInv

\* What ipv4_output puts on the device.
LEMMA OutputIs ==
    ASSUME IInv, IpOutput
    PROVE  LET p == IF request.kind = "udp" THEN 17 ELSE 1
           IN  /\ frame' \in Seq(Bytes)
               /\ HeaderRegular' => frame' \in RfcAnswers(p, data)
<1> DEFINE addr == request.addr
           p == IF request.kind = "udp" THEN 17 ELSE 1
<1>1. request \in Requests /\ TypeOK /\ Traced
  BY DEF IInv, TypeOK
<1>2. /\ request.kind \in {"udp", "echo"} /\ peer.addr = addr
      /\ request.kind = "udp" =>
            buf = request.body \o Zeros(8) /\ data = Answer(addr, request.port, buf, past)
      /\ request.kind = "echo" => data = Pong(request.body, past)
  BY <1>1 DEF Traced, IpOutput
<1>3. past \in Bytes
  BY <1>1, BytesAssumption DEF TypeOK
<1>4. data \in Seq(Bytes) /\ Fits(20, data)
  BY <1>1, <1>2, <1>3, AnswersAre
<1>5. addr \in Addresses /\ OurAddr \in Addresses /\ p \in Bytes
  BY <1>1, <1>2, CarriedIs, Hosts, Sizes
<1>6. PICK id \in Ids :
        LET header == WriteAll(NewIpv4Data,
                  <<<<1, <<0>>>>, <<2, Bytes16((20 + Len(data)) % Word)>>, <<4, Bytes16(id)>>,
                    <<6, <<0, 0>>>>, <<8, <<255>>>>, <<9, <<p>>>>, <<10, <<0, 0>>>>,
                    <<12, Bytes32(OurAddr)>>, <<16, Bytes32(addr)>>>>)
        IN  frame' = EtherFrame(GatewayMac, OurMac, ETHER_TYPE_IP,
                                SetIpPayload(SetCheckSum(header), data))
  BY <1>2 DEF IpOutput, UDP_TYPE, ICMP_TYPE
<1>7. id \in 0..Ones
  BY BytesAssumption
<1> HIDE DEF addr, p
<1>8. frame' = SentFrame(addr, id, p, data)
  BY <1>4, <1>5, <1>6, <1>7, HeaderWritten DEF SentFrame
<1>9. /\ SentFrame(addr, id, p, data) \in Seq(Bytes)
      /\ FoldsOnce(WordSum(Write(Vector(SentFrame(addr, id, p, data), EtherHeaderSize, 20),
                                 10, <<0, 0>>), 0))
           => SentFrame(addr, id, p, data)
                = RfcFrame(GatewayMac, OurMac, 2048, RfcIp(OurAddr, addr, p, id, 255, data), 0)
  BY <1>4, <1>5, <1>7, SentIs
<1>10. HeaderRegular' <=>
         FoldsOnce(WordSum(Write(Vector(SentFrame(addr, id, p, data), EtherHeaderSize, 20),
                                 10, <<0, 0>>), 0))
  BY <1>8 DEF HeaderRegular
<1>11. HeaderRegular' => frame' \in RfcAnswers(p, data)
  BY <1>8, <1>9, <1>10 DEF RfcAnswers, addr
<1> QED
  BY <1>8, <1>9, <1>11 DEF p

\* The checksum of RFC 768, and zero when that is all ones.
LEMMA SumIsOneOf ==
    ASSUME NEW addr, NEW port, NEW payload,
           NEW c, c = RfcChecksum(Covered(OurAddr, addr, OurPort, port, payload))
    PROVE  LET sum == RfcUdpChecksum(OurAddr, addr, UdpFront(OurPort, port, payload), payload)
           IN  c \in IF sum = Ones THEN {0, Ones} ELSE {sum}
<1>1. RfcUdpChecksum(OurAddr, addr, UdpFront(OurPort, port, payload), payload)
        = IF c = 0 THEN Ones ELSE c
  BY DEF RfcUdpChecksum, Covered
<1> QED
  BY <1>1

\* ipv4_output and transmit send the answer that the RFCs ask for.
LEMMA IpOutputStep ==
    ASSUME IInv, IpOutput
    PROVE  IInv'
<1>1. request \in Requests /\ TypeOK /\ PeerOK /\ Traced
  BY DEF IInv, TypeOK
<1>2. /\ request.kind \in {"udp", "echo"} /\ peer.addr = request.addr
      /\ request.kind = "udp" =>
            buf = request.body \o Zeros(8) /\ data = Answer(request.addr, request.port, buf, past)
      /\ request.kind = "echo" => data = Pong(request.body, past)
  BY <1>1 DEF Traced, IpOutput
<1>3. past \in Bytes
  BY <1>1, BytesAssumption DEF TypeOK
<1>4. /\ stage' = "sent" /\ request' = request /\ data' = data /\ peer' = peer /\ buf' = buf
      /\ past' = past
  BY DEF IpOutput
<1>5. /\ frame' \in Seq(Bytes)
      /\ HeaderRegular' /\ request.kind = "udp" => frame' \in RfcAnswers(17, data)
      /\ HeaderRegular' /\ request.kind = "echo" => frame' \in RfcAnswers(1, data)
  BY OutputIs
<1>6. \A p, d : RfcAnswers(p, d)' = RfcAnswers(p, d)
  BY <1>4 DEF RfcAnswers
<1>7. TypeOK' /\ PeerOK'
  BY <1>1, <1>4, <1>5 DEF TypeOK, PeerOK
<1>8. Traced'
  BY <1>4 DEF Traced
<1>9. (RegularAccepted /\ ArpAnswered)'
  BY <1>2, <1>4 DEF RegularAccepted, ArpAnswered
<1>10. EchoAnswered'
  <2> DEFINE addr == request.addr
             port == request.port
             front == UdpFront(OurPort, port, buf)
             sum == RfcUdpChecksum(OurAddr, addr, front, buf)
             values == IF sum = Ones THEN {0, Ones} ELSE {sum}
             c == AnswerSum(addr, port, buf, past)
  <2>1. ASSUME request.kind = "udp", past = 0, HeaderRegular',
               UdpRegular(OurAddr, request.addr, Write(data, 6, <<0, 0>>))'
        PROVE  \E x \in values : frame' \in RfcAnswers(17, front \o Bytes16(x) \o buf)
    <3>1. /\ data = Answer(addr, port, buf, past)
          /\ Write(data, 6, <<0, 0>>) = AnswerLaid(port, buf)
          /\ past = 0 /\ Regular(OurAddr, addr, AnswerLaid(port, buf), past)
               => c = RfcChecksum(Covered(OurAddr, addr, OurPort, port, buf))
      BY <1>1, <1>2, <1>3, <2>1, AnswersAre
    <3>2. Regular(OurAddr, addr, AnswerLaid(port, buf), past)
      BY <1>4, <2>1, <3>1 DEF UdpRegular, Regular
    <3>3. c = RfcChecksum(Covered(OurAddr, addr, OurPort, port, buf))
      BY <2>1, <3>1, <3>2
    <3>4. data = front \o Bytes16(c) \o buf
      BY <3>1 DEF Answer, Segment
    <3>5. frame' \in RfcAnswers(17, data)
      BY <1>5, <2>1
    <3> HIDE DEF c
    <3>6. c \in values
      BY <3>3, SumIsOneOf
    <3> HIDE DEF values, front
    <3> QED
      BY <3>4, <3>5, <3>6
  <2> QED
    BY <1>4, <1>6, <2>1 DEF EchoAnswered
<1>11. PingAnswered'
  <2>1. ASSUME request.kind = "echo", past = 0, HeaderRegular',
               FoldsOnce(WordSum(Write(data, 2, <<0, 0>>), 0))
        PROVE  frame' \in RfcAnswers(1, RfcIcmp(0, request.body))
    <3>1. data = RfcIcmp(0, request.body)
      BY <1>1, <1>2, <1>3, <2>1, AnswersAre
    <3> QED
      BY <1>5, <2>1, <3>1
  <2> QED
    BY <1>4, <1>6, <2>1 DEF PingAnswered
<1> QED
  BY <1>7, <1>8, <1>9, <1>10, <1>11 DEF IInv

-----------------------------------------------------------------------------
(* Theorems. *)

\* Every step keeps the invariant.
LEMMA IInvNext == IInv /\ [Next]_vars => IInv'
<1> SUFFICES ASSUME IInv, [Next]_vars PROVE IInv'
  OBVIOUS
<1>1. CASE UNCHANGED vars
  <2>1. /\ stage' = stage /\ request' = request /\ frame' = frame /\ data' = data
        /\ peer' = peer /\ buf' = buf /\ past' = past
    BY <1>1 DEF vars
  <2>2. TypeOK' /\ PeerOK' /\ Traced'
    BY <2>1 DEF IInv, TypeOK, PeerOK, Traced
  <2>3. RegularAccepted'
    BY <2>1 DEF IInv, RegularAccepted, UdpRegular
  <2>4. EchoAnswered'
    BY <2>1 DEF IInv, EchoAnswered, HeaderRegular, UdpRegular, RfcAnswers
  <2>5. PingAnswered'
    BY <2>1 DEF IInv, PingAnswered, HeaderRegular, RfcAnswers
  <2>6. ArpAnswered'
    BY <2>1 DEF IInv, ArpAnswered
  <2> QED
    BY <2>2, <2>3, <2>4, <2>5, <2>6 DEF IInv
<1>2. CASE Next
  BY <1>2, ClientSendStep, DeviceReadStep, IpHandleStep, UdpHandleStep, IcmpHandleStep,
     ArpHandleStep, EchoStep, IcmpReplyStep, IpOutputStep, ArpRequestStep DEF Next
<1> QED
  BY <1>1, <1>2

\* The invariant holds in every state.
THEOREM Inductive == Spec => []IInv
BY IInvInit, IInvNext, PTL DEF Spec

\* Every variable keeps its type: whatever the program writes into a packet is a byte,
\* whatever a client sends (BinaryPayload's writes, resize and the length fields).
THEOREM TypeCorrect == Spec => []TypeOK
<1>1. IInv => TypeOK
  BY DEF IInv
<1> QED
  BY <1>1, Inductive, PTL

\* Ipv4ProtocolHandler, UdpHandler, IcmpHandler and ArpProtocolHandler throw a packet that
\* arrived intact only for the four reasons: never for the carries of an IP header or
\* for what a frame is filled up with.
THEOREM IntactAccepted == Spec => []RegularAccepted
<1>1. IInv => RegularAccepted
  BY DEF IInv
<1> QED
  BY <1>1, Inductive, PTL

\* What recvFrom returns is the body that was sent, and zeros behind it.
THEOREM BodyReceived == Spec => []ReceivedBegins
<1>1. IInv => ReceivedBegins
  <2> SUFFICES ASSUME IInv, stage = "received" PROVE ReceivedBegins
    BY DEF ReceivedBegins
  <2>1. /\ request \in Requests /\ request.kind = "udp" /\ request.to = OurAddr
        /\ request.dport = OurPort /\ peer.addr = request.addr /\ peer.port = request.port
        /\ buf = request.body \o Zeros(8)
    BY DEF IInv, TypeOK, Traced
  <2> DEFINE b == request.body
             z == Zeros(8)
  <2>2. b \in Seq(Bytes)
    BY <2>1, RequestIs DEF IsUdp, Short
  <2>3. z \in Seq(Bytes)
    BY ZerosAre
  <2>4. Len(z) = 8 /\ \A i \in 1..8 : z[i] = 0
    BY ZerosAre DEF Zeros
  <2> HIDE DEF b, z
  <2>5. buf \in Seq(Bytes) /\ Len(buf) = Len(b) + Len(z)
        /\ (\A i \in 1..Len(b) : buf[i] = b[i])
        /\ (\A i \in 1..Len(z) : buf[Len(b) + i] = z[i])
    <3>1. buf = b \o z
      BY <2>1 DEF b, z
    <3> QED
      BY <2>2, <2>3, <3>1, Cat
  <2>6. Len(b) \in Nat
    BY <2>2, LenProperties
  <2>7. SubSeq(buf, 1, Len(b)) = b
    <3>1. 0 \in Nat /\ 0 + Len(b) <= Len(buf) /\ \A k \in 1..Len(b) : buf[0 + k] = b[k]
      BY <2>4, <2>5, <2>6
    <3>2. Vector(buf, 0, Len(b)) = b
      BY <2>2, <2>5, <3>1, VectorIs
    <3>3. Vector(buf, 0, Len(b)) = SubSeq(buf, 1, Len(b))
      BY <2>6 DEF Vector
    <3> QED
      BY <3>2, <3>3
  <2>8. ASSUME NEW i \in (Len(b) + 1)..Len(buf) PROVE buf[i] = 0
    <3> DEFINE k == i - Len(b)
    <3>1. k \in 1..8 /\ Len(b) + k = i
      BY <2>4, <2>5, <2>6
    <3> HIDE DEF k
    <3> QED
      BY <2>4, <2>5, <3>1
  <2> QED
    BY <2>1, <2>7, <2>8 DEF ReceivedBegins, b
<1> QED
  BY <1>1, Inductive, PTL

\* The echo of a datagram is the packet RFC 768 and 791 ask for (main, udp_output,
\* ipv4_output, transmit), unless a carry is lost or a foreign byte read.
THEOREM DatagramEchoed == Spec => []EchoAnswered
<1>1. IInv => EchoAnswered
  BY DEF IInv
<1> QED
  BY <1>1, Inductive, PTL

\* So is the answer to an ICMP echo (replyIcmp), by RFC 792.
THEOREM PingEchoed == Spec => []PingAnswered
<1>1. IInv => PingAnswered
  BY DEF IInv
<1> QED
  BY <1>1, Inductive, PTL

\* ArpProtocolHandler answers and caches, and arpRequest asks, as RFC 826 has it.
THEOREM ArpFollowed == Spec => []ArpAnswered
<1>1. IInv => ArpAnswered
  BY DEF IInv
<1> QED
  BY <1>1, Inductive, PTL
=============================================================================
