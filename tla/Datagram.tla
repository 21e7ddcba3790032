------------------------------- MODULE Datagram -------------------------------
(***************************************************************************)
(* One frame through the whole program, as bytes (module Layout): a client *)
(* sends a datagram, an ICMP echo or an ARP packet; EtherDevice::handler,  *)
(* Ipv4ProtocolHandler, UdpHandler, IcmpHandler and ArpProtocolHandler     *)
(* take it apart; main, udp_output, replyIcmp, reply, ipv4_output and      *)
(* EtherDevice::transmit make the answer.                                  *)
(*                                                                         *)
(* The client's side is external and follows the RFCs: it puts bytes one   *)
(* after the other and knows nothing of the offsets of the code.  Its      *)
(* packets are all in order; some are not for this host.                   *)
(***************************************************************************)
EXTENDS Layout

CONSTANTS
    Clients,        \* addresses of clients
    ClientPorts,    \* their ports
    Bodies,         \* what they send in a datagram
    Echoes,         \* identifier, sequence number and data of their ICMP echoes
    Ids,            \* bound: identifications of ipv4_output
    PastBytes,      \* bound: what may lie past the end of a vector
    FillByte        \* what a frame from outside is filled up with

ASSUME BytesAssumption ==
    /\ Bodies \cup Echoes \subseteq Seq(Bytes)
    /\ \A b \in Bodies \cup Echoes : Len(b) <= 1472      \* fits a frame, whole
    /\ PastBytes \cup {FillByte} \subseteq Bytes
    /\ 0 \in PastBytes
    /\ ClientPorts \cup Ids \subseteq 0..Ones
    /\ Clients \subseteq (0..Ones) \X (0..Ones)

OurAddr == Ipv4strToUint32(<<192, 0, 2, 2>>)
GatewayAddr == Ipv4strToUint32(<<192, 0, 2, 1>>)
SubnetAddr == Ipv4strToUint32(<<192, 0, 2, 255>>)
OurPort == 5555
OtherPort == 45845        \* the bytes of OurPort, swapped
OurMac == <<0, 0, 94, 0, 83, 1>>            \* 00:00:5e:00:53:01
GatewayMac == <<2, 10, 20, 30, 40, 50>>
BroadcastMac == [i \in 1..6 |-> Byte - 1]

\* A frame may come filled up; a client may send no UDP checksum (RFC 768), or to
\* everyone on the subnet; the gateway may ask for its own address.
Requests ==
    [kind : {"udp"}, addr : Clients, port : ClientPorts, to : {OurAddr, SubnetAddr},
     dport : {OurPort, OtherPort}, body : Bodies, summed : BOOLEAN, filled : BOOLEAN]
    \cup [kind : {"echo"}, addr : Clients, to : {OurAddr, SubnetAddr}, body : Echoes,
          filled : BOOLEAN]
    \cup [kind : {"arp"}, addr : {GatewayAddr}, to : {OurAddr, GatewayAddr},
          op : {OP_REQUEST, OP_REPLY}, filled : BOOLEAN]
    \cup [kind : {"other"}, body : Bodies, filled : BOOLEAN]

VARIABLES
    stage,          \* where the frame is
    request,        \* what the client sends
    frame,          \* the frame on the device, first the client's, then the answer
    data,           \* the bytes one handler passes to the next
    peer,           \* address, port and hardware address the handlers found
    buf,            \* what recvFrom copied to main
    past            \* the byte past the end of the vector read last

vars == <<stage, request, frame, data, peer, buf, past>>

Nobody == [addr |-> <<0, 0>>, port |-> 0, mac |-> <<>>]

Init ==
    /\ stage = "new"
    /\ request \in Requests
    /\ frame = <<>>
    /\ data = <<>>
    /\ peer = Nobody
    /\ buf = <<>>
    /\ past = 0

-----------------------------------------------------------------------------
(* The client's kernel. *)

\* What a sum of words comes to in one's complement arithmetic (RFC 1071), where
\* every carry is added until none is left.
OnesSum(sum) == IF sum = 0 THEN 0 ELSE ((sum - 1) % Ones) + 1

RfcChecksum(bytes) == Complement(OnesSum(WordSum(bytes, 0)))

RfcFrame(dst, src, type, body, fill) ==
    LET bytes == dst \o src \o Bytes16(type) \o body
    IN  bytes \o [i \in 1..(FrameMinSize - Len(bytes)) |-> fill]

RfcIp(src, dst, protocol, id, ttl, payload) ==
    LET front == <<69, 0>> \o Bytes16(20 + Len(payload)) \o Bytes16(id) \o <<0, 0, ttl, protocol>>
        addrs == Bytes32(src) \o Bytes32(dst)
    IN  front \o Bytes16(RfcChecksum(front \o addrs)) \o addrs \o payload

\* All zeros is sent as all ones, since zero says that there is no checksum.
RfcUdpChecksum(src, dst, front, body) ==
    LET sum == RfcChecksum(Bytes32(src) \o Bytes32(dst) \o <<0, 17>>
                           \o Bytes16(8 + Len(body)) \o front \o body)
    IN  IF sum = 0 THEN Ones ELSE sum

UdpFront(sport, dport, body) == Bytes16(sport) \o Bytes16(dport) \o Bytes16(8 + Len(body))

RfcUdp(src, sport, dst, dport, body, summed) ==
    LET front == UdpFront(sport, dport, body)
    IN  front \o Bytes16(IF summed THEN RfcUdpChecksum(src, dst, front, body) ELSE 0) \o body

RfcIcmp(type, rest) == <<type, 0>> \o Bytes16(RfcChecksum(<<type, 0>> \o rest)) \o rest

RfcArp(op, senderMac, sender, targetMac, target) ==
    <<0, 1, 8, 0, 6, 4, 0, op>> \o senderMac \o Bytes32(sender) \o targetMac \o Bytes32(target)

ClientType(r) ==
    CASE r.kind = "arp" -> 2054
      [] r.kind = "other" -> 34525              \* IPv6
      [] OTHER -> 2048

ClientBody(r) ==
    CASE r.kind = "udp" ->
            RfcIp(r.addr, r.to, 17, 1, 64, RfcUdp(r.addr, r.port, r.to, r.dport, r.body, r.summed))
      [] r.kind = "echo" -> RfcIp(r.addr, r.to, 1, 1, 64, RfcIcmp(8, r.body))
      [] r.kind = "arp" -> RfcArp(r.op, GatewayMac, r.addr, Zeros(6), r.to)
      [] OTHER -> r.body

ClientSend ==
    /\ stage = "new"
    /\ stage' = "arrived"
    /\ frame' = LET f == RfcFrame(OurMac, GatewayMac, ClientType(request), ClientBody(request),
                                  FillByte)
                IN  IF request.filled THEN f
                    ELSE SubSeq(f, 1, 14 + Len(ClientBody(request)))
    /\ UNCHANGED <<request, data, peer, buf, past>>

-----------------------------------------------------------------------------
(* Mutants of what follows. *)

\* The two checksums are added as std::uint16_t.
UdpChecksumNarrow(src, dst, segment, beyond) ==
    (CalculateChecksum(PseudoHeader(src, dst, Len(segment)), 0)
        + CalculateChecksum(segment, beyond)) % Word

\* The sum of the two is not folded again.
UdpChecksumUnfolded(src, dst, segment, beyond) ==
    CalculateChecksum(PseudoHeader(src, dst, Len(segment)), 0)
        + CalculateChecksum(segment, beyond)

\* replyIcmp computes the checksum with the request's still in its place.
EchoReplyStale == SetIcmpType(data, TYPE_ECHO_REPLY)

-----------------------------------------------------------------------------
(* Input. *)

\* The frame is read whole: the buffer holds the longest there is.  A type without
\* a queue is passed over.
DeviceRead ==
    /\ stage = "arrived"
    /\ data' = Body(frame)
    /\ stage' = CASE EtherType(frame) = ETHER_TYPE_IP -> "ip"
                  [] EtherType(frame) = ETHER_TYPE_ARP -> "arp"
                  [] OTHER -> "passed"
    /\ UNCHANGED <<request, frame, peer, buf, past>>

VerifyHeader(d) == CalculateChecksum(Vector(d, 0, HeaderLengthByte(d)), 0) = Ones

\* Ipv4ProtocolHandler::handle
IpHandle ==
    /\ stage = "ip"
    /\ IF VerifyHeader(data) /\ IpDst(data) = OurAddr
       THEN /\ stage' = IF Protocol(data) = UDP_TYPE THEN "udp" ELSE "icmp"
            /\ peer' = [peer EXCEPT !.addr = IpSrc(data)]
            /\ data' = IpPayload(data)
       ELSE /\ stage' = "thrown"
            /\ UNCHANGED <<peer, data>>
    /\ UNCHANGED <<request, frame, buf, past>>

\* The byte past the end of a vector: any, if one is read.
PastOf(d) == IF Len(d) % 2 = 1 THEN PastBytes ELSE {0}

\* The sum of two checksums that UdpHandler and udp_output fold again.
UdpChecksum(src, dst, segment, beyond) ==
    Fold(CalculateChecksum(PseudoHeader(src, dst, Len(segment)), 0)
            + CalculateChecksum(segment, beyond))

\* UdpHandler::handle, and recvFrom: the payload goes to main, to no socket, or an
\* exception nobody catches is thrown.
UdpHandle ==
    /\ stage = "udp"
    /\ past' \in PastOf(data)
    /\ IF UdpChecksum(peer.addr, OurAddr, data, past') = Ones
       THEN \/ /\ DstPort(data) = OurPort
               /\ stage' = "received"
               /\ peer' = [peer EXCEPT !.port = SrcPort(data)]
               /\ buf' = UdpPayload(data)
            \/ /\ DstPort(data) # OurPort
               /\ stage' = "passed"
               /\ UNCHANGED <<peer, buf>>
       ELSE /\ stage' = "thrown"
            /\ UNCHANGED <<peer, buf>>
    /\ UNCHANGED <<request, frame, data>>

\* IcmpHandler::handle
IcmpHandle ==
    /\ stage = "icmp"
    /\ past' \in PastOf(data)
    /\ stage' = IF CalculateChecksum(data, past') # Ones THEN "thrown"
                ELSE IF IcmpType(data) = TYPE_ECHO THEN "reply" ELSE "passed"
    /\ UNCHANGED <<request, frame, data, peer, buf>>

\* ArpProtocolHandler::handle and reply.  The sender goes into the cache; an ARP
\* reply is passed over otherwise.
ArpHandle ==
    /\ stage = "arp"
    /\ IF /\ ProtocolLength(data) = 4 /\ Uint16(data, 2) = ETHER_TYPE_IP
          /\ Uint32(TargetProtocolAddress(data), 0) = OurAddr
       THEN /\ peer' = [peer EXCEPT !.addr = Uint32(SenderProtocolAddress(data), 0),
                                    !.mac = SenderHardwareAddress(data)]
            /\ IF OperationCode(data) = OP_REQUEST
               THEN /\ frame' = EtherFrame(SenderHardwareAddress(data), OurMac, ETHER_TYPE_ARP,
                                    ArpData(OP_REPLY, OurMac, Bytes32(OurAddr),
                                            SenderHardwareAddress(data),
                                            SenderProtocolAddress(data)))
                    /\ stage' = "sent"
               ELSE stage' = "passed" /\ UNCHANGED frame
       ELSE stage' = "thrown" /\ UNCHANGED <<peer, frame>>
    /\ UNCHANGED <<request, data, buf, past>>

-----------------------------------------------------------------------------
(* Output. *)

\* main echoes what it received; the client's address goes through its text form.
\* udp_output lays out the payload and sets the checksum.
Echo ==
    /\ stage = "received"
    /\ LET dst == Ipv4strToUint32(Uint32ToIpv4str(peer.addr))
           ports == WriteAll(Zeros(UdpHeaderSize),
                             <<<<0, Bytes16(OurPort)>>, <<2, Bytes16(peer.port)>>>>)
           laid == SetUdpPayload(ports, buf)
           segment == WriteAll(laid, <<<<6, <<0, 0>>>>, <<4, Bytes16(Len(laid))>>>>)
       IN  /\ past' \in PastOf(segment)
           /\ data' = Write(segment, 6,
                            Bytes16(Complement(UdpChecksum(OurAddr, dst, segment, past'))))
    /\ stage' = "output"
    /\ UNCHANGED <<request, frame, peer, buf>>

EchoReply == SetIcmpChecksum(SetIcmpType(data, TYPE_ECHO_REPLY), 0)

\* replyIcmp
IcmpReply ==
    /\ stage = "reply"
    /\ past' \in PastOf(data)
    /\ data' = SetIcmpChecksum(EchoReply, Complement(CalculateChecksum(EchoReply, past')))
    /\ stage' = "output"
    /\ UNCHANGED <<request, frame, peer, buf>>

SetCheckSum(d) ==
    Write(d, 10, Bytes16(Complement(
        CalculateChecksum(Write(Vector(d, 0, HeaderLengthByte(d)), 10, <<0, 0>>), 0))))

\* ipv4_output and transmit, for a gateway that is in the cache.
IpOutput ==
    /\ stage = "output"
    /\ \E id \in Ids :
          LET protocol == IF request.kind = "udp" THEN UDP_TYPE ELSE ICMP_TYPE
              header == WriteAll(NewIpv4Data,
                  <<<<1, <<0>>>>, <<2, Bytes16((20 + Len(data)) % Word)>>, <<4, Bytes16(id)>>,
                    <<6, <<0, 0>>>>, <<8, <<255>>>>, <<9, <<protocol>>>>, <<10, <<0, 0>>>>,
                    <<12, Bytes32(OurAddr)>>, <<16, Bytes32(peer.addr)>>>>)
          IN  frame' = EtherFrame(GatewayMac, OurMac, ETHER_TYPE_IP,
                                  SetIpPayload(SetCheckSum(header), data))
    /\ stage' = "sent"
    /\ UNCHANGED <<request, data, peer, buf, past>>

\* arpRequest, for a gateway that is not: the packet is lost.
ArpRequest ==
    /\ stage = "output"
    /\ frame' = EtherFrame(BroadcastMac, OurMac, ETHER_TYPE_ARP,
                    ArpData(OP_REQUEST, OurMac, Bytes32(OurAddr), Zeros(6), Bytes32(GatewayAddr)))
    /\ stage' = "asked"
    /\ UNCHANGED <<request, data, peer, buf, past>>

Next ==
    \/ ClientSend
    \/ DeviceRead \/ IpHandle \/ UdpHandle \/ IcmpHandle \/ ArpHandle
    \/ Echo \/ IcmpReply \/ IpOutput \/ ArpRequest

Spec == Init /\ [][Next]_vars

-----------------------------------------------------------------------------
(* Properties. *)

\* Every variable has its type: whatever was written is a byte.
TypeOK ==
    /\ stage \in {"new", "arrived", "ip", "udp", "icmp", "arp", "received", "reply", "output",
                  "sent", "asked", "passed", "thrown"}
    /\ request \in Requests
    /\ frame \in Seq(Bytes)
    /\ data \in Seq(Bytes)
    /\ peer.addr \in (0..Ones) \X (0..Ones) /\ peer.port \in 0..Ones /\ peer.mac \in Seq(Bytes)
    /\ buf \in Seq(Bytes)
    /\ past \in PastBytes

\* The three folds of a UDP checksum lose no carry.
UdpRegular(src, dst, segment) ==
    LET pseudo == WordSum(PseudoHeader(src, dst, Len(segment)), 0)
        sum == WordSum(segment, past)
    IN  FoldsOnce(pseudo) /\ FoldsOnce(sum) /\ FoldsOnce(Fold(pseudo) + Fold(sum))

\* A packet that arrived intact is rejected, and the process ended, for one of
\* four reasons: it is for somebody else, the byte past an odd end is not 0,
\* UdpHandler loses a carry, or the datagram has no checksum.  An IP header and an
\* ICMP echo of even length never are, whatever carries their sums have and
\* whatever their frames were filled up with.
RegularAccepted ==
    stage = "thrown" =>
        \/ request.to # OurAddr
        \/ past # 0
        \/ request.kind = "udp" /\ ~request.summed
        \/ request.kind = "udp" /\ ~UdpRegular(peer.addr, OurAddr, data)

\* What recvFrom returns begins with what was sent and ends with zeros: no byte
\* that filled up the frame shows, the sender is who sent it, and it was sent here.
ReceivedBegins ==
    stage = "received" =>
        /\ SubSeq(buf, 1, Len(request.body)) = request.body
        /\ \A i \in (Len(request.body) + 1)..Len(buf) : buf[i] = 0
        /\ peer.addr = request.addr /\ peer.port = request.port
        /\ request.to = OurAddr /\ request.dport = OurPort

\* The IP header of the answer lost no carry when its checksum was set.
HeaderRegular ==
    FoldsOnce(WordSum(Write(Vector(frame, EtherHeaderSize, 20), 10, <<0, 0>>), 0))

\* Frames of the server to the client, by the RFCs, for some identification.
RfcAnswers(protocol, payload) ==
    {RfcFrame(GatewayMac, OurMac, 2048, RfcIp(OurAddr, request.addr, protocol, id, 255, payload), 0) :
        id \in Ids}

\* The echo of a datagram is, byte for byte, the packet RFC 768 and 791 ask for,
\* from the port the client sent to back to its own, unless a carry is lost or a
\* foreign byte read.  A checksum of zero stands for none.
EchoAnswered ==
    /\ stage = "sent" /\ request.kind = "udp"
    /\ past = 0 /\ HeaderRegular
    /\ UdpRegular(OurAddr, request.addr, Write(data, 6, <<0, 0>>))
    => LET front == UdpFront(OurPort, request.port, buf)
           sum == RfcUdpChecksum(OurAddr, request.addr, front, buf)
       IN  \E c \in IF sum = Ones THEN {0, Ones} ELSE {sum} :
              frame \in RfcAnswers(17, front \o Bytes16(c) \o buf)

\* An ICMP echo is answered with its identifier, sequence number and data, and a
\* checksum the client finds right, unless a carry is lost or a foreign byte read.
PingAnswered ==
    /\ stage = "sent" /\ request.kind = "echo"
    /\ past = 0 /\ HeaderRegular
    /\ FoldsOnce(WordSum(Write(data, 2, <<0, 0>>), 0))
    => frame \in RfcAnswers(1, RfcIcmp(0, request.body))

\* Whoever asks for this host is told its hardware address and is cached with its
\* own, an ARP reply is cached too, and the server asks for the gateway as RFC 826
\* has it.
ArpAnswered ==
    /\ request.kind = "arp" /\ stage \in {"sent", "passed"} =>
          peer.addr = request.addr /\ peer.mac = GatewayMac
    /\ request.kind = "arp" /\ stage = "sent" =>
          frame = RfcFrame(GatewayMac, OurMac, 2054,
                           RfcArp(2, OurMac, OurAddr, GatewayMac, request.addr), 0)
    /\ stage = "asked" =>
          frame = RfcFrame(BroadcastMac, OurMac, 2054,
                           RfcArp(1, OurMac, OurAddr, Zeros(6), GatewayAddr), 0)

\* UdpHandler's "udp checksum error invalid payload": a datagram it says that of
\* has a checksum that is wrong; those here all have the one RFC 768 asks for.
ValidAccepted ==
    stage = "thrown" /\ request.kind = "udp" /\ request.summed => request.to # OurAddr

\* The echo server answers a datagram with the same datagram.
EchoSame == stage = "received" => buf = request.body
=============================================================================
