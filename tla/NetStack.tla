------------------------------ MODULE NetStack ------------------------------
(***************************************************************************)
(* Frames in and packets out: ArpProtocolHandler and the ARP cache         *)
(* (lib/Arp.cpp, lib/ArpCache.h), Ipv4ProtocolHandler and ipv4_output      *)
(* (lib/Ipv4.cpp), IcmpHandler (lib/Icmp.cpp).  The interrupt thread       *)
(* handles one frame at a time; callers of sendTo enter ipv4_output in     *)
(* threads of their own.                                                   *)
(*                                                                         *)
(* An address, hardware or IP, is a model value.  Checksums are right or   *)
(* wrong (module Datagram computes them); UdpHandler's table is in module  *)
(* UdpSocket.  Every route leads to the gateway, lookup returns the first. *)
(***************************************************************************)
EXTENDS Integers, Sequences

CONSTANTS
    Callers,        \* threads that send
    IntrThread,     \* the interrupt thread
    OurIp,          \* unicast address of the interface
    Gateway,        \* gateway of the only route
    OtherIps,       \* further IP addresses of the network
    Macs,           \* hardware addresses of the network
    BroadcastMac,   \* where ARP requests go
    IdRange,        \* number of values of a std::uint16_t
    FirstId,        \* what the identification counter starts with (128)
    MaxFrames,      \* bound: frames the network sends
    MaxOutputs      \* bound: packets the callers send

ASSUME AddressAssumption ==
    /\ Gateway # OurIp
    /\ {Gateway, OurIp} \cap OtherIps = {}
    /\ BroadcastMac \notin Macs

ASSUME ThreadAssumption == IntrThread \notin Callers

ASSUME BoundAssumption ==
    /\ IdRange \in Nat \ {0}
    /\ FirstId \in 0..(IdRange - 1)
    /\ MaxFrames \in Nat
    /\ MaxOutputs \in Nat

Threads == Callers \cup {IntrThread}
Hosts == OtherIps \cup {Gateway}

\* What the network sends: ARP packets, of a host about its own address or for
\* any target, and IP packets with a checksum that holds or not.
ArpFrames == [kind : {"arp"}, op : {"request", "reply"}, ip : Hosts, mac : Macs,
              target : Hosts \cup {OurIp}]
IpFrames == [kind : {"ip"}, proto : {"echo", "echo_reply", "udp", "tcp"},
             dst : Hosts \cup {OurIp}, headerOk : BOOLEAN, bodyOk : BOOLEAN]

VARIABLES
    running,        \* no exception has left the interrupt thread
    cache,          \* arpCache.cache: pairs of an IP and a hardware address
    nextId,         \* the static id of ip_gen_id
    given,          \* history: how often ip_gen_id returned
    pc,             \* where each thread is
    frame,          \* interrupt thread: the frame it handles, or ended with
    packetId,       \* identification of the packet a thread sends
    sent,           \* history: frames transmitted
    frames,         \* how many frames the network sent
    outputs,        \* how many packets the callers sent
    knew            \* history: threads that found the gateway cached when
                    \* they entered ipv4_output

vars == <<running, cache, nextId, given, pc, frame, packetId, sent, frames, outputs, knew>>

NoFrame == [kind |-> "none"]

Init ==
    /\ running = TRUE
    /\ cache = <<>>
    /\ nextId = FirstId
    /\ given = 0
    /\ pc = [t \in Threads |-> "idle"]
    /\ frame = NoFrame
    /\ packetId = [t \in Threads |-> 0]
    /\ sent = <<>>
    /\ frames = 0
    /\ outputs = 0
    /\ knew = {}

-----------------------------------------------------------------------------
(* ArpCache. *)

\* Mutant: the predicate of find_if holds for every entry.
EntriesAny(ip) == DOMAIN cache

\* ArpCache::select: the first entry of an address.
Entries(ip) == {i \in DOMAIN cache : cache[i].ip = ip}
Cached(ip) == Entries(ip) # {}
CachedMac(ip) == cache[CHOOSE i \in Entries(ip) : \A j \in Entries(ip) : i <= j].mac

Goto(t, label) == pc' = [pc EXCEPT ![t] = label]

\* An exception leaves a handler: nothing in the interrupt thread catches it.
Throw ==
    /\ running' = FALSE
    /\ Goto(IntrThread, "idle")

\* EtherDevice::transmit
Transmit(f) == sent' = Append(sent, f)

-----------------------------------------------------------------------------
(* Mutants: a plausible mistake in the handler each is named for. *)

\* ArpProtocolHandler pushes the sender without ArpCache::create's look.
ArpHandleBlind(f) ==
    /\ running /\ pc[IntrThread] = "idle" /\ frames < MaxFrames
    /\ f \in ArpFrames /\ f.target = OurIp
    /\ frames' = frames + 1
    /\ frame' = f
    /\ Goto(IntrThread, "arp_create")
    /\ UNCHANGED <<running, cache, nextId, given, packetId, sent, outputs, knew>>

\* ip_gen_id forgets to increment, or counts in a wider type.
GenIdStuck(t) ==
    /\ running /\ pc[t] = "gen_id"
    /\ packetId' = [packetId EXCEPT ![t] = nextId]
    /\ given' = given + 1
    /\ Goto(t, "resolve")
    /\ UNCHANGED <<running, cache, nextId, frame, sent, frames, outputs, knew>>

GenIdWide(t) ==
    /\ running /\ pc[t] = "gen_id"
    /\ packetId' = [packetId EXCEPT ![t] = nextId]
    /\ nextId' = nextId + 1
    /\ given' = given + 1
    /\ Goto(t, "resolve")
    /\ UNCHANGED <<running, cache, frame, sent, frames, outputs, knew>>

\* arpResolve looks at the first entry only.
ResolveFirst(t) ==
    /\ running /\ pc[t] = "resolve"
    /\ Goto(t, IF cache # <<>> /\ cache[1].ip = Gateway THEN "transmit" ELSE "request")
    /\ UNCHANGED <<running, cache, nextId, given, frame, packetId, sent, frames, outputs, knew>>

\* The main loop does not catch ArpResolveException.
SendRequestUncaught(t) ==
    /\ running /\ pc[t] = "request"
    /\ running' = FALSE
    /\ Goto(t, "idle")
    /\ UNCHANGED <<cache, nextId, given, frame, packetId, sent, frames, outputs, knew>>

-----------------------------------------------------------------------------
(* ArpProtocolHandler::handle. *)

\* The target is compared first, then ArpCache::create looks for the sender.
ArpHandle(f) ==
    /\ running /\ pc[IntrThread] = "idle" /\ frames < MaxFrames
    /\ f \in ArpFrames
    /\ frames' = frames + 1
    /\ frame' = f
    /\ \/ /\ f.target # OurIp
          /\ Throw
       \/ /\ f.target = OurIp
          /\ Goto(IntrThread, IF Cached(f.ip) THEN "arp_reply" ELSE "arp_create")
          /\ UNCHANGED running
    /\ UNCHANGED <<cache, nextId, given, packetId, sent, outputs, knew>>

\* The second half of create, which has released the cache's mutex between.
ArpCreate ==
    /\ running /\ pc[IntrThread] = "arp_create"
    /\ cache' = Append(cache, [ip |-> frame.ip, mac |-> frame.mac])
    /\ Goto(IntrThread, "arp_reply")
    /\ UNCHANGED <<running, nextId, given, frame, packetId, sent, frames, outputs, knew>>

\* A request is answered.
ArpReply ==
    /\ running /\ pc[IntrThread] = "arp_reply"
    /\ \/ /\ frame.op = "request"
          /\ Transmit([kind |-> "arp_reply", mac |-> frame.mac, ip |-> frame.ip])
       \/ /\ frame.op # "request"
          /\ UNCHANGED sent
    /\ frame' = NoFrame
    /\ Goto(IntrThread, "idle")
    /\ UNCHANGED <<running, cache, nextId, given, packetId, frames, outputs, knew>>

-----------------------------------------------------------------------------
(* Ipv4ProtocolHandler::handle and the handlers it calls. *)

\* Ipv4ProtocolHandler, IcmpHandler and UdpHandler throw for any other packet;
\* nobody looks at the body of a protocol without a handler.
WellFormed(f) ==
    /\ f.headerOk
    /\ f.dst = OurIp
    /\ f.proto = "tcp" \/ f.bodyOk

\* The next IP packet, which the interrupt thread has in its hands.
IpArrives(f) ==
    /\ running /\ pc[IntrThread] = "idle" /\ frames < MaxFrames
    /\ f \in IpFrames
    /\ frames' = frames + 1

IpReject(f) ==
    /\ IpArrives(f)
    /\ ~WellFormed(f)
    /\ Throw
    /\ frame' = f
    /\ UNCHANGED <<cache, nextId, given, packetId, sent, outputs, knew>>

\* IcmpHandler passes an echo on to replyIcmp and so to ipv4_output.
IcmpEcho(f) ==
    /\ IpArrives(f)
    /\ WellFormed(f) /\ f.proto = "echo"
    /\ Goto(IntrThread, "gen_id")
    /\ frame' = f
    /\ knew' = IF Cached(Gateway) THEN knew \cup {IntrThread} ELSE knew
    /\ UNCHANGED <<running, cache, nextId, given, packetId, sent, outputs>>

\* A datagram goes to UdpHandler, an echo reply to the log, a protocol without a
\* handler nowhere.
IpConsume(f) ==
    /\ IpArrives(f)
    /\ WellFormed(f) /\ f.proto # "echo"
    /\ UNCHANGED <<running, cache, nextId, given, pc, frame, packetId, sent, outputs, knew>>

-----------------------------------------------------------------------------
(* ipv4_output. *)

\* A caller's sendTo.  The source is OurIp, the address of the route: the tests
\* of the source do not throw.
OutputBegin(t) ==
    /\ running /\ pc[t] = "idle" /\ t \in Callers
    /\ outputs < MaxOutputs
    /\ outputs' = outputs + 1
    /\ Goto(t, "gen_id")
    /\ knew' = IF Cached(Gateway) THEN knew \cup {t} ELSE knew
    /\ UNCHANGED <<running, cache, nextId, given, frame, packetId, sent, frames>>

\* ip_gen_id: a uint16_t that wraps, under a mutex of its own.
GenId(t) ==
    /\ running /\ pc[t] = "gen_id"
    /\ packetId' = [packetId EXCEPT ![t] = nextId]
    /\ nextId' = (nextId + 1) % IdRange
    /\ given' = given + 1
    /\ Goto(t, "resolve")
    /\ UNCHANGED <<running, cache, frame, sent, frames, outputs, knew>>

\* arpResolve: the gateway's hardware address, or a miss.
Resolve(t) ==
    /\ running /\ pc[t] = "resolve"
    /\ Goto(t, IF Cached(Gateway) THEN "transmit" ELSE "request")
    /\ UNCHANGED <<running, cache, nextId, given, frame, packetId, sent, frames, outputs, knew>>

\* The call ends and its locals are gone.
End(t) ==
    /\ packetId' = [packetId EXCEPT ![t] = 0]
    /\ knew' = knew \ {t}

\* The address found is a copy: entries do not change, so it is that of the
\* entry still.  The interrupt thread is done with its echo.
SendPacket(t) ==
    /\ running /\ pc[t] = "transmit"
    /\ Transmit([kind |-> "ip", mac |-> CachedMac(Gateway), id |-> packetId[t]])
    /\ Goto(t, "idle")
    /\ End(t)
    /\ frame' = IF t = IntrThread THEN NoFrame ELSE frame
    /\ UNCHANGED <<running, cache, nextId, given, frames, outputs>>

\* arpRequest, then ArpResolveException.  The main loop catches it, and the
\* packet is lost; replyIcmp, unlike sendIcmp, does not.
SendRequest(t) ==
    /\ running /\ pc[t] = "request"
    /\ Transmit([kind |-> "arp_request", mac |-> BroadcastMac, ip |-> Gateway])
    /\ IF t = IntrThread THEN Throw ELSE Goto(t, "idle") /\ UNCHANGED running
    /\ End(t)
    /\ UNCHANGED <<cache, nextId, given, frame, frames, outputs>>

-----------------------------------------------------------------------------
Output(t) == OutputBegin(t) \/ GenId(t) \/ Resolve(t) \/ SendPacket(t) \/ SendRequest(t)

Next ==
    \/ \E f \in ArpFrames : ArpHandle(f)
    \/ \E f \in IpFrames : IpReject(f) \/ IcmpEcho(f) \/ IpConsume(f)
    \/ ArpCreate \/ ArpReply
    \/ \E t \in Threads : Output(t)

Spec == Init /\ [][Next]_vars

-----------------------------------------------------------------------------
(* Properties. *)

Labels == {"idle", "arp_create", "arp_reply", "gen_id", "resolve", "transmit", "request"}
Entry == [ip : Hosts, mac : Macs]

\* What EtherDevice::transmit is given.
Packets ==
    [kind : {"arp_reply", "arp_request"}, mac : Macs \cup {BroadcastMac}, ip : Hosts]
    \cup [kind : {"ip"}, mac : Macs, id : 0..(IdRange - 1)]

\* Every variable has its type.
TypeOK ==
    /\ running \in BOOLEAN
    /\ cache \in Seq(Entry)
    /\ nextId \in 0..(IdRange - 1)
    /\ given \in Nat
    /\ pc \in [Threads -> Labels]
    /\ frame \in ArpFrames \cup IpFrames \cup {NoFrame}
    /\ packetId \in [Threads -> 0..(IdRange - 1)]
    /\ sent \in Seq(Packets)
    /\ frames \in 0..MaxFrames
    /\ outputs \in 0..MaxOutputs
    /\ knew \subseteq Threads

\* ArpCache::create looks and inserts in two critical sections: there is still
\* one entry for an address, since one thread alone inserts.
OneEntryEach ==
    \A i, j \in DOMAIN cache : cache[i].ip = cache[j].ip => i = j

\* A thread that found the gateway cached when it entered ipv4_output never
\* loses its packet to an ARP request.
KnownIsSent == \A t \in knew : pc[t] # "request"

\* arpResolve finds an entry by its IP address alone: whatever other hosts are
\* in the cache, a packet leaves for a hardware address given for the gateway.
NextHopIsGateway ==
    \A i \in DOMAIN sent : sent[i].kind = "ip" =>
        \E j \in DOMAIN cache : cache[j] = [ip |-> Gateway, mac |-> sent[i].mac]

\* Until ip_gen_id has given each of its values once, no two packets carry the
\* same identification: neither two that were sent, nor one that was sent and
\* one a thread still holds, nor two held by threads that send at the same time.
IdsDiffer ==
    given <= IdRange =>
        /\ \A i, j \in DOMAIN sent :
              sent[i].kind = "ip" /\ sent[j].kind = "ip" /\ i # j => sent[i].id # sent[j].id
        /\ \A t \in Threads : pc[t] \in {"resolve", "transmit"} =>
              /\ \A i \in DOMAIN sent : sent[i].kind = "ip" => sent[i].id # packetId[t]
              /\ \A u \in Threads \ {t} :
                    pc[u] \in {"resolve", "transmit"} => packetId[u] # packetId[t]

\* Of the packets that pass the code's own tests only an ICMP echo can end the
\* process, and that only as long as the gateway is in nobody's ARP packet: a
\* datagram and a caller's ARP miss, which has no frame to blame, never do.
\* The code's test of a checksum fails for some packets that are in order, too:
\* module Datagram has those.
OnlyEchoMissEnds ==
    ~running =>
        \/ frame \in ArpFrames /\ frame.target # OurIp
        \/ frame \in IpFrames /\ ~WellFormed(frame)
        \/ frame \in IpFrames /\ frame.proto = "echo" /\ ~Cached(Gateway)

\* ArpProtocolHandler throws "not support protocol address size": the packet it
\* says that of has addresses of a size that is not supported.  Those here all
\* have four bytes, so none of them should end the process.
AddressSizeError == ~running => frame \notin ArpFrames
=============================================================================
