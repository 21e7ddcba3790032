-------------------------------- MODULE Layout --------------------------------
(***************************************************************************)
(* Packets as bytes: the big-endian reads and writes of BinaryPayload, the *)
(* offsets and the payloads of EtherFrame, ArpData, Ipv4Data, UdpData,     *)
(* PseudoHeader and IcmpData, addresses as text, and the checksums of      *)
(* IpUtils.h.  Operators only; module Datagram moves packets with them.    *)
(*                                                                         *)
(* Offsets count from 0, as in the code.  A std::uint32_t, which is always *)
(* an IP address here, is the pair of its two words.                       *)
(***************************************************************************)
EXTENDS Integers, Sequences, SequencesExt

Byte == 256                 \* number of values of a std::uint8_t
Word == Byte * Byte         \* number of values of a std::uint16_t
Ones == Word - 1            \* 0xFFFF
Bytes == 0..(Byte - 1)

Zeros(n) == [i \in 1..n |-> 0]

\* std::vector::resize, which fills up with 0.
Resize(data, n) == [i \in 1..n |-> IF i <= Len(data) THEN data[i] ELSE 0]

-----------------------------------------------------------------------------
(* BinaryPayload. *)

Uint8(data, offset) == data[offset + 1]

Uint16(data, offset) == data[offset + 1] * Byte + data[offset + 2]
Uint32(data, offset) == <<Uint16(data, offset), Uint16(data, offset + 2)>>
Vector(data, offset, len) == SubSeq(data, offset + 1, offset + len)

Bytes16(w) == <<w \div Byte, w % Byte>>
Bytes32(addr) == Bytes16(addr[1]) \o Bytes16(addr[2])

\* writeUint8, writeUint16, writeUint32 and writeVector.
Write(data, offset, bytes) ==
    [i \in DOMAIN data |->
        IF i - offset \in DOMAIN bytes THEN bytes[i - offset] ELSE data[i]]

\* Several writes, each a pair of an offset and bytes, in their order.
WriteAll(data, writes) == FoldLeft(LAMBDA d, w : Write(d, w[1], w[2]), data, writes)

-----------------------------------------------------------------------------
(* Addresses as text: the numbers between the dots, each below Byte. *)

Uint32ToIpv4str(addr) == Bytes32(addr)

\* Each number is shifted in from the right.
Ipv4strToUint32(words) ==
    FoldLeft(LAMBDA a, w : <<(a[1] * Byte + a[2] \div Byte) % Word,
                             (a[2] % Byte) * Byte + w>>, <<0, 0>>, words)

-----------------------------------------------------------------------------
(* EtherFrame. *)

ETHER_TYPE_IP == 2048       \* 0x0800
ETHER_TYPE_ARP == 2054      \* 0x0806

EtherHeaderSize == 14
FrameMinSize == 60

EtherType(f) == Uint16(f, 12)

\* What follows the header, whatever the sender filled the frame up with included.
Body(f) == Vector(f, EtherHeaderSize, Len(f) - EtherHeaderSize)

SetBody(f, body) ==
    LET full == Write(Resize(f, EtherHeaderSize + Len(body)), EtherHeaderSize, body)
    IN  Resize(full, IF Len(full) < FrameMinSize THEN FrameMinSize ELSE Len(full))

EtherFrame(dst, src, type, body) ==
    SetBody(WriteAll(Zeros(EtherHeaderSize),
                     <<<<0, dst>>, <<6, src>>, <<12, Bytes16(type)>>>>), body)

-----------------------------------------------------------------------------
(* ArpData: two addresses of each kind, whose sizes the packet tells. *)

OP_REQUEST == 1
OP_REPLY == 2

HardwareLength(d) == Uint8(d, 4)
ProtocolLength(d) == Uint8(d, 5)
OperationCode(d) == Uint16(d, 6)

SenderHardwareOffset(d) == 8
SenderProtocolOffset(d) == 8 + HardwareLength(d)
TargetHardwareOffset(d) == 8 + HardwareLength(d) + ProtocolLength(d)

\* Mutant: the target's addresses in the other order.
TargetProtocolOffsetSwapped(d) == TargetHardwareOffset(d)

TargetProtocolOffset(d) == 8 + HardwareLength(d) * 2 + ProtocolLength(d)

SenderHardwareAddress(d) == Vector(d, SenderHardwareOffset(d), HardwareLength(d))
SenderProtocolAddress(d) == Vector(d, SenderProtocolOffset(d), ProtocolLength(d))
TargetProtocolAddress(d) == Vector(d, TargetProtocolOffset(d), ProtocolLength(d))

\* arpDataFactory, for Ethernet and IP.
ArpDataFactory(op) ==
    WriteAll(Zeros(8 + 2 * 6 + 2 * 4),
             <<<<0, Bytes16(1)>>, <<2, Bytes16(ETHER_TYPE_IP)>>, <<4, <<6>>>>, <<5, <<4>>>>,
               <<6, Bytes16(op)>>>>)

ArpData(op, senderHw, senderIp, targetHw, targetIp) ==
    LET d == ArpDataFactory(op)
    IN  WriteAll(d, <<<<SenderHardwareOffset(d), senderHw>>,
                      <<SenderProtocolOffset(d), senderIp>>,
                      <<TargetHardwareOffset(d), targetHw>>,
                      <<TargetProtocolOffset(d), targetIp>>>>)

-----------------------------------------------------------------------------
(* Ipv4Data. *)

ICMP_TYPE == 1
UDP_TYPE == 17

HeaderLengthByte(d) == (Uint8(d, 0) % 16) * 4
TotalLength(d) == Uint16(d, 2)
Protocol(d) == Uint8(d, 9)
IpSrc(d) == Uint32(d, 12)
IpDst(d) == Uint32(d, 16)

\* The constructor: version 4, a header of five times four bytes.
NewIpv4Data == Write(Zeros(20), 0, <<4 * 16 + 5>>)

\* Mutant: everything that follows the header.
IpPayloadToEnd(d) == Vector(d, HeaderLengthByte(d), Len(d) - HeaderLengthByte(d))

\* payload(): up to totalLength, so without what filled up the frame.
IpPayload(d) == Vector(d, HeaderLengthByte(d), TotalLength(d) - HeaderLengthByte(d))

\* payload(d), which also sets the total length, a std::uint16_t.
SetIpPayload(d, payload) ==
    LET total == (HeaderLengthByte(d) + Len(payload)) % Word
    IN  Write(Resize(Write(d, 2, Bytes16(total)), total), HeaderLengthByte(d), payload)

-----------------------------------------------------------------------------
(* UdpData, PseudoHeader and IcmpData. *)

UdpHeaderSize == 8
SrcPort(d) == Uint16(d, 0)
DstPort(d) == Uint16(d, 2)
UdpLength(d) == Uint16(d, 4)

\* Mutant: the bytes are copied to where they lie in the segment.
UdpPayloadShifted(d) ==
    Zeros(UdpHeaderSize) \o Vector(d, UdpHeaderSize, Len(d) - UdpHeaderSize)

\* payload(): a vector of length() bytes, which counts the header, with what
\* follows the header copied to its front.
UdpPayload(d) == Resize(Vector(d, UdpHeaderSize, Len(d) - UdpHeaderSize), UdpLength(d))

\* payload(d); the size is a std::uint16_t.
SetUdpPayload(d, payload) ==
    Write(Resize(d, (UdpHeaderSize + Len(payload)) % Word), UdpHeaderSize, payload)

PseudoHeader(src, dst, length) ==
    WriteAll(Zeros(12), <<<<0, Bytes32(src)>>, <<4, Bytes32(dst)>>, <<9, <<UDP_TYPE>>>>,
                          <<10, Bytes16(length)>>>>)

TYPE_ECHO_REPLY == 0
TYPE_ECHO == 8

IcmpType(d) == Uint8(d, 0)
SetIcmpType(d, type) == Write(d, 0, <<type>>)
SetIcmpChecksum(d, sum) == Write(d, 2, Bytes16(sum))

-----------------------------------------------------------------------------
(* Checksums. *)

\* The loop of calculateChecksum steps by two bytes and reads both: of a vector
\* of odd length it reads one byte past the end.
WordSum(data, past) ==
    LET byte(i) == IF i \in DOMAIN data THEN data[i] ELSE past
        sum[i \in 0..((Len(data) + 1) \div 2)] ==
            IF i = 0 THEN 0 ELSE sum[i - 1] + byte(2 * i - 1) * Byte + byte(2 * i)
    IN  sum[(Len(data) + 1) \div 2]

\* (sum + (sum >> 16)) & 0xFFFF: the carry is added once, and its own is lost.
Fold(sum) == (sum + (sum \div Word)) % Word

CalculateChecksum(data, past) == Fold(WordSum(data, past))

\* ~, of a std::uint16_t.
Complement(w) == Ones - w

\* No carry is lost when the sum is folded.
FoldsOnce(sum) == (sum % Word) + (sum \div Word) < Word
=============================================================================
