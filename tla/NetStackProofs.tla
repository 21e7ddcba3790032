--------------------------- MODULE NetStackProofs ---------------------------
(***************************************************************************)
(* Proofs about NetStack, for every set of callers, hosts and hardware     *)
(* addresses, every number of identifications, and every bound on frames   *)
(* and packets.                                                            *)
(***************************************************************************)
EXTENDS NetStack, SequenceTheorems, TLAPS

ArpLabels == {"arp_create", "arp_reply"}
OutputLabels == {"gen_id", "resolve", "transmit", "request"}

SentTyped == sent \in Seq(Packets)

\* The interrupt thread alone handles ARP packets.  Between the two halves of
\* create the sender is not in the cache, and while ipv4_output runs in this
\* thread an echo is what it answers.
FrameInHand ==
    /\ \A t \in Callers : pc[t] \notin ArpLabels
    /\ pc[IntrThread] \in ArpLabels => frame \in ArpFrames
    /\ pc[IntrThread] = "arp_create" => ~Cached(frame.ip)
    /\ pc[IntrThread] \in OutputLabels => frame \in IpFrames /\ frame.proto = "echo"

\* What arpResolve or the entry of ipv4_output saw of the cache is still so:
\* no entry is ever removed, and none is added by a thread that sends.
LookedUp ==
    /\ knew # {} => Cached(Gateway)
    /\ \A t \in Threads : pc[t] = "transmit" => Cached(Gateway)
    /\ pc[IntrThread] = "request" => ~Cached(Gateway)

\* The k-th value ip_gen_id returns, counted from 0, in the first round.
Given(k) == IF FirstId + k < IdRange THEN FirstId + k ELSE FirstId + k - IdRange
GivenBefore(g) == {Given(k) : k \in 0..(g - 1)}

Holding == {t \in Threads : pc[t] \in {"resolve", "transmit"}}

\* The counter stands after the identifications given out, and all in use are
\* among those.
IdsGiven ==
    /\ nextId = Given(given)
    /\ \A i \in DOMAIN sent : sent[i].kind = "ip" => sent[i].id \in GivenBefore(given)
    /\ \A t \in Holding : packetId[t] \in GivenBefore(given)

IdsInUse == given <= IdRange => IdsGiven

IInv ==
    /\ TypeOK
    /\ SentTyped
    /\ FrameInHand
    /\ LookedUp
    /\ OneEntryEach
    /\ KnownIsSent
    /\ NextHopIsGateway
    /\ OnlyEchoMissEnds
    /\ IdsInUse
    /\ IdsDiffer

-----------------------------------------------------------------------------
\* The frames of the network, and none at all, can be told apart.
LEMMA FrameKinds ==
    /\ \A f \in ArpFrames : f \notin IpFrames /\ f.ip \in Hosts /\ f.mac \in Macs
    /\ NoFrame \notin ArpFrames /\ NoFrame \notin IpFrames
BY DEF ArpFrames, IpFrames, NoFrame

\* While no address has two entries, select finds the entry there is.
LEMMA FoundEntry ==
    ASSUME TypeOK, OneEntryEach, NEW ip, Cached(ip)
    PROVE  \E j \in DOMAIN cache : cache[j] = [ip |-> ip, mac |-> CachedMac(ip)]
<1>1. PICK j \in DOMAIN cache : cache[j].ip = ip
  BY DEF Cached, Entries
<1>2. Entries(ip) = {j}
  BY <1>1 DEF OneEntryEach, Entries
<1>3. j \in Int /\ cache[j] \in Entry
  BY ElementOfSeq, LenProperties DEF TypeOK
<1>4. (CHOOSE i \in Entries(ip) : \A k \in Entries(ip) : i <= k) = j
  BY <1>2, <1>3
<1>5. cache[j] = [ip |-> ip, mac |-> CachedMac(ip)]
  BY <1>1, <1>3, <1>4 DEF CachedMac, Entry
<1> QED
  BY <1>5

\* What an append leaves in place, and where it puts the new element.
LEMMA Appended ==
    ASSUME NEW S, NEW s \in Seq(S), NEW e \in S
    PROVE  /\ Append(s, e) \in Seq(S)
           /\ DOMAIN Append(s, e) = DOMAIN s \cup {Len(s) + 1}
           /\ \A i \in DOMAIN s : i \in 1..Len(s) /\ i # Len(s) + 1 /\ Append(s, e)[i] = s[i]
           /\ Append(s, e)[Len(s) + 1] = e
BY AppendProperties, LenProperties

\* create's second half adds one entry and takes none away.
LEMMA CreateEffect ==
    ASSUME TypeOK, FrameInHand, ArpCreate
    PROVE  /\ cache' \in Seq(Entry)
           /\ DOMAIN cache' = DOMAIN cache \cup {Len(cache) + 1}
           /\ \A i \in DOMAIN cache : i # Len(cache) + 1 /\ cache'[i] = cache[i]
           /\ cache'[Len(cache) + 1] = [ip |-> frame.ip, mac |-> frame.mac]
           /\ \A ip : Cached(ip)' <=> Cached(ip) \/ ip = frame.ip
<1> DEFINE e == [ip |-> frame.ip, mac |-> frame.mac]
<1>1. e \in Entry
  BY FrameKinds DEF ArpCreate, FrameInHand, ArpLabels, Entry
<1>2. cache' = Append(cache, e) /\ cache \in Seq(Entry)
  BY DEF ArpCreate, TypeOK
<1> HIDE DEF e
<1>3. /\ cache' \in Seq(Entry)
      /\ DOMAIN cache' = DOMAIN cache \cup {Len(cache) + 1}
      /\ \A i \in DOMAIN cache : i # Len(cache) + 1 /\ cache'[i] = cache[i]
      /\ cache'[Len(cache) + 1] = e
  BY <1>1, <1>2, Appended
<1>4. \A ip : Cached(ip)' <=> Cached(ip) \/ ip = e.ip
  BY <1>3 DEF Cached, Entries
<1> QED
  BY <1>3, <1>4 DEF e

\* Every other step leaves the cache alone.
LEMMA CacheStep ==
    ASSUME [Next]_vars, ~ArpCreate
    PROVE  UNCHANGED cache
BY DEF Next, Output, vars, ArpHandle, ArpReply, IpReject, IcmpEcho, IpConsume, IpArrives,
   OutputBegin, GenId, Resolve, SendPacket, SendRequest

\* The constructor's empty cache satisfies the invariant.
LEMMA InitIInv == Init => IInv
<1> SUFFICES ASSUME Init PROVE IInv
  OBVIOUS
<1> USE DEF Init
<1>1. TypeOK /\ SentTyped
  BY BoundAssumption DEF TypeOK, SentTyped, Labels
<1>2. FrameInHand /\ LookedUp
  BY DEF FrameInHand, LookedUp, ArpLabels, OutputLabels, Threads
<1>3. OneEntryEach /\ KnownIsSent /\ NextHopIsGateway /\ OnlyEchoMissEnds
  BY DEF OneEntryEach, KnownIsSent, NextHopIsGateway, OnlyEchoMissEnds
<1>4. IdsDiffer
  BY DEF IdsDiffer
<1>5. Holding = {}
  BY DEF Holding
<1>6. IdsGiven
  BY <1>5, BoundAssumption DEF IdsGiven, Given
<1>7. IdsInUse
  BY <1>6 DEF IdsInUse
<1> QED
  BY <1>1, <1>2, <1>3, <1>4, <1>7 DEF IInv

\* Every step keeps every variable in its type.
LEMMA TypeStep == TypeOK /\ SentTyped' /\ FrameInHand /\ [Next]_vars => TypeOK'
<1> SUFFICES ASSUME TypeOK, SentTyped', FrameInHand, [Next]_vars PROVE TypeOK'
  OBVIOUS
<1> USE ThreadAssumption, BoundAssumption DEF TypeOK, SentTyped, Goto, Throw, Labels, Threads
<1>1. ASSUME NEW f \in ArpFrames, ArpHandle(f) PROVE TypeOK'
  <2>1. running' \in BOOLEAN
    BY <1>1 DEF ArpHandle
  <2>2. pc' \in [Threads -> Labels]
    BY <1>1 DEF ArpHandle
  <2> QED
    BY <1>1, <2>1, <2>2 DEF ArpHandle
<1>2. CASE ArpCreate
  BY <1>2, CreateEffect DEF ArpCreate
<1>3. CASE ArpReply
  BY <1>3 DEF ArpReply
<1>4. ASSUME NEW f \in IpFrames, IpReject(f) \/ IcmpEcho(f) \/ IpConsume(f) PROVE TypeOK'
  <2>1. running' \in BOOLEAN
    BY <1>4 DEF IpReject, IcmpEcho, IpConsume, IpArrives
  <2>2. pc' \in [Threads -> Labels]
    BY <1>4 DEF IpReject, IcmpEcho, IpConsume, IpArrives
  <2> QED
    BY <1>4, <2>1, <2>2 DEF IpReject, IcmpEcho, IpConsume, IpArrives
<1>5. ASSUME NEW t \in Threads, OutputBegin(t) PROVE TypeOK'
  BY <1>5 DEF OutputBegin
<1>6. ASSUME NEW t \in Threads, GenId(t) PROVE TypeOK'
  BY <1>6 DEF GenId
<1>7. ASSUME NEW t \in Threads, Resolve(t) PROVE TypeOK'
  BY <1>7 DEF Resolve
<1>8. ASSUME NEW t \in Threads, SendPacket(t) PROVE TypeOK'
  BY <1>8 DEF SendPacket, End
<1>9. ASSUME NEW t \in Threads, SendRequest(t) PROVE TypeOK'
  <2>1. running' \in BOOLEAN
    BY <1>9 DEF SendRequest
  <2>2. pc' \in [Threads -> Labels]
    BY <1>9 DEF SendRequest
  <2> QED
    BY <1>9, <2>1, <2>2 DEF SendRequest, End
<1>10. CASE UNCHANGED vars
  BY <1>10 DEF vars
<1> QED
  BY <1>1, <1>2, <1>3, <1>4, <1>5, <1>6, <1>7, <1>8, <1>9, <1>10 DEF Next, Output

\* A frame stays in the interrupt thread's hands until it is answered.
LEMMA FrameStep == TypeOK /\ FrameInHand /\ [Next]_vars => FrameInHand'
<1> SUFFICES ASSUME TypeOK, FrameInHand, [Next]_vars PROVE FrameInHand'
  OBVIOUS
<1> USE ThreadAssumption, FrameKinds
    DEF TypeOK, FrameInHand, Goto, Throw, Labels, Threads, ArpLabels, OutputLabels
<1>1. ASSUME NEW f \in ArpFrames, ArpHandle(f) PROVE FrameInHand'
  <2>1. Cached(f.ip)' <=> Cached(f.ip)
    BY <1>1 DEF ArpHandle, Cached, Entries
  <2>2. pc'[IntrThread] = "arp_create" => ~Cached(f.ip)
    BY <1>1 DEF ArpHandle
  <2>3. frame' = f /\ \A t \in Callers : pc'[t] = pc[t]
    BY <1>1 DEF ArpHandle
  <2>4. pc'[IntrThread] \notin OutputLabels
    BY <1>1 DEF ArpHandle
  <2> HIDE DEF OutputLabels
  <2> QED
    BY <1>1, <2>1, <2>2, <2>3, <2>4
<1>2. CASE ArpCreate
  BY <1>2 DEF ArpCreate
<1>3. CASE ArpReply
  BY <1>3 DEF ArpReply
<1>4. ASSUME NEW f \in IpFrames, IpReject(f) \/ IcmpEcho(f) \/ IpConsume(f) PROVE FrameInHand'
  <2>1. /\ pc'[IntrThread] \notin ArpLabels
        /\ \A t \in Callers : pc'[t] = pc[t]
    BY <1>4 DEF IpReject, IcmpEcho, IpConsume, IpArrives
  <2>2. pc'[IntrThread] \in OutputLabels => frame' \in IpFrames /\ frame'.proto = "echo"
    BY <1>4 DEF IpReject, IcmpEcho, IpConsume, IpArrives
  <2> QED
    BY <2>1, <2>2
<1>5. ASSUME NEW t \in Threads, OutputBegin(t) PROVE FrameInHand'
  BY <1>5 DEF OutputBegin, Cached, Entries
<1>6. ASSUME NEW t \in Threads, GenId(t) PROVE FrameInHand'
  BY <1>6 DEF GenId, Cached, Entries
<1>7. ASSUME NEW t \in Threads, Resolve(t) PROVE FrameInHand'
  BY <1>7 DEF Resolve, Cached, Entries
<1>8. ASSUME NEW t \in Threads, SendPacket(t) PROVE FrameInHand'
  BY <1>8 DEF SendPacket, Cached, Entries
<1>9. ASSUME NEW t \in Threads, SendRequest(t) PROVE FrameInHand'
  BY <1>9 DEF SendRequest, Cached, Entries
<1>10. CASE UNCHANGED vars
  BY <1>10 DEF vars, Cached, Entries
<1> QED
  BY <1>1, <1>2, <1>3, <1>4, <1>5, <1>6, <1>7, <1>8, <1>9, <1>10 DEF Next, Output

\* The second half of create finds the cache as the first half saw it.
LEMMA EntryStep ==
    TypeOK /\ FrameInHand /\ OneEntryEach /\ [Next]_vars => OneEntryEach'
<1> SUFFICES ASSUME TypeOK, FrameInHand, OneEntryEach, [Next]_vars PROVE OneEntryEach'
  OBVIOUS
<1>1. CASE ArpCreate
  <2>1. \A i \in DOMAIN cache : cache[i].ip # frame.ip
    BY <1>1 DEF ArpCreate, FrameInHand, Cached, Entries
  <2> QED
    BY <1>1, <2>1, CreateEffect DEF OneEntryEach
<1>2. CASE ~ArpCreate
  BY <1>2, CacheStep DEF OneEntryEach
<1> QED
  BY <1>1, <1>2

\* The gateway is looked up once and found, or not found by the only thread
\* that could add it.
LEMMA LookedUpStep ==
    TypeOK /\ FrameInHand /\ LookedUp /\ [Next]_vars => LookedUp'
<1> SUFFICES ASSUME TypeOK, FrameInHand, LookedUp, [Next]_vars PROVE LookedUp'
  OBVIOUS
<1> USE ThreadAssumption DEF TypeOK, LookedUp, Goto, Throw, Labels, Threads
<1>1. CASE ArpCreate
  <2>1. Cached(Gateway) => Cached(Gateway)'
    BY <1>1, CreateEffect
  <2> QED
    BY <1>1, <2>1 DEF ArpCreate
<1>2. CASE ~ArpCreate
  <2>1. Cached(Gateway)' <=> Cached(Gateway)
    BY <1>2, CacheStep DEF Cached, Entries
  <2> HIDE DEF Threads
  <2>a. IntrThread \in Threads
    BY DEF Threads
  <2>2. ASSUME NEW f \in ArpFrames, ArpHandle(f) PROVE LookedUp'
    BY <2>a, <2>1, <2>2 DEF ArpHandle
  <2>3. CASE ArpReply
    BY <2>a, <2>1, <2>3 DEF ArpReply
  <2>4. ASSUME NEW f \in IpFrames, IpReject(f) PROVE LookedUp'
    BY <2>a, <2>1, <2>4 DEF IpReject, IpArrives
  <2>5. ASSUME NEW f \in IpFrames, IcmpEcho(f) PROVE LookedUp'
    BY <2>a, <2>1, <2>5 DEF IcmpEcho, IpArrives
  <2>6. ASSUME NEW f \in IpFrames, IpConsume(f) PROVE LookedUp'
    BY <2>1, <2>6 DEF IpConsume, IpArrives
  <2>7. ASSUME NEW t \in Threads, OutputBegin(t) PROVE LookedUp'
    BY <2>1, <2>7 DEF OutputBegin
  <2>8. ASSUME NEW t \in Threads, GenId(t) PROVE LookedUp'
    BY <2>1, <2>8 DEF GenId
  <2>9. ASSUME NEW t \in Threads, Resolve(t) PROVE LookedUp'
    BY <2>1, <2>9 DEF Resolve
  <2>10. ASSUME NEW t \in Threads, SendPacket(t) PROVE LookedUp'
    BY <2>1, <2>10 DEF SendPacket, End
  <2>11. ASSUME NEW t \in Threads, SendRequest(t) PROVE LookedUp'
    BY <2>a, <2>1, <2>11 DEF SendRequest, End
  <2>12. CASE UNCHANGED vars
    BY <2>1, <2>12 DEF vars
  <2> QED
    BY <1>2, <2>2, <2>3, <2>4, <2>5, <2>6, <2>7, <2>8, <2>9, <2>10, <2>11, <2>12 DEF Next, Output
<1> QED
  BY <1>1, <1>2

\* A thread that knows the gateway takes the other branch of arpResolve.
LEMMA KnownStep ==
    TypeOK /\ LookedUp /\ KnownIsSent /\ [Next]_vars => KnownIsSent'
<1> SUFFICES ASSUME TypeOK, LookedUp, KnownIsSent, [Next]_vars PROVE KnownIsSent'
  OBVIOUS
<1> USE ThreadAssumption DEF TypeOK, LookedUp, KnownIsSent, Goto, Throw
<1>a. IntrThread \in Threads
  BY DEF Threads
<1>1. ASSUME NEW f \in ArpFrames, ArpHandle(f) PROVE KnownIsSent'
  BY <1>a, <1>1 DEF ArpHandle
<1>2. CASE ArpCreate \/ ArpReply
  BY <1>a, <1>2 DEF ArpCreate, ArpReply
<1>3. ASSUME NEW f \in IpFrames, IpReject(f) \/ IcmpEcho(f) \/ IpConsume(f) PROVE KnownIsSent'
  BY <1>a, <1>3 DEF IpReject, IcmpEcho, IpConsume, IpArrives
<1>4. ASSUME NEW t \in Threads, OutputBegin(t) PROVE KnownIsSent'
  BY <1>4 DEF OutputBegin
<1>5. ASSUME NEW t \in Threads, GenId(t) PROVE KnownIsSent'
  BY <1>5 DEF GenId
<1>6. ASSUME NEW t \in Threads, Resolve(t) PROVE KnownIsSent'
  BY <1>6 DEF Resolve
<1>7. ASSUME NEW t \in Threads, SendPacket(t) \/ SendRequest(t) PROVE KnownIsSent'
  BY <1>7 DEF SendPacket, SendRequest, End
<1>8. CASE UNCHANGED vars
  BY <1>8 DEF vars
<1> QED
  BY <1>1, <1>2, <1>3, <1>4, <1>5, <1>6, <1>7, <1>8 DEF Next, Output

\* What a step transmits: an IP packet goes to an address given for the gateway.
LEMMA SentEffect ==
    ASSUME TypeOK, SentTyped, FrameInHand, LookedUp, OneEntryEach, [Next]_vars
    PROVE  \/ UNCHANGED sent
           \/ \E p \in Packets :
                 /\ sent' = Append(sent, p)
                 /\ p.kind = "ip" =>
                      \E j \in DOMAIN cache : cache[j] = [ip |-> Gateway, mac |-> p.mac]
<1> USE DEF Transmit
<1>1. CASE ArpReply
  <2>1. frame \in ArpFrames
    BY <1>1 DEF ArpReply, FrameInHand, ArpLabels
  <2>2. [kind |-> "arp_reply", mac |-> frame.mac, ip |-> frame.ip] \in Packets
    BY <2>1, FrameKinds DEF Packets
  <2> QED
    BY <1>1, <2>2 DEF ArpReply
<1>2. ASSUME NEW t \in Threads, SendPacket(t)
      PROVE  \E p \in Packets :
                 /\ sent' = Append(sent, p)
                 /\ p.kind = "ip" =>
                      \E j \in DOMAIN cache : cache[j] = [ip |-> Gateway, mac |-> p.mac]
  <2>1. PICK j \in DOMAIN cache : cache[j] = [ip |-> Gateway, mac |-> CachedMac(Gateway)]
    BY <1>2, FoundEntry DEF SendPacket, LookedUp
  <2>2. CachedMac(Gateway) \in Macs
    BY <2>1, ElementOfSeq, LenProperties DEF TypeOK, Entry
  <2>3. [kind |-> "ip", mac |-> CachedMac(Gateway), id |-> packetId[t]] \in Packets
    BY <2>2 DEF Packets, TypeOK
  <2> QED
    BY <1>2, <2>1, <2>3 DEF SendPacket
<1>3. ASSUME NEW t \in Threads, SendRequest(t)
      PROVE  \E p \in Packets : sent' = Append(sent, p) /\ p.kind # "ip"
  <2>1. [kind |-> "arp_request", mac |-> BroadcastMac, ip |-> Gateway] \in Packets
    BY DEF Packets, Hosts
  <2> QED
    BY <1>3, <2>1 DEF SendRequest
<1>4. CASE ~ArpReply /\ \A t \in Threads : ~SendPacket(t) /\ ~SendRequest(t)
  BY <1>4 DEF Next, Output, vars, ArpHandle, ArpCreate, IpReject, IcmpEcho, IpConsume,
     IpArrives, OutputBegin, GenId, Resolve
<1> QED
  BY <1>1, <1>2, <1>3, <1>4

\* What is in the cache once stays there.
LEMMA EntriesStay ==
    ASSUME TypeOK, FrameInHand, [Next]_vars, NEW e, \E j \in DOMAIN cache : cache[j] = e
    PROVE  \E j \in DOMAIN cache' : cache'[j] = e
<1>1. CASE ArpCreate
  BY <1>1, CreateEffect
<1>2. CASE ~ArpCreate
  BY <1>2, CacheStep
<1> QED
  BY <1>1, <1>2

\* A packet is sent to an address of the cache, and stays sent to one of it.
LEMMA SentStep ==
    TypeOK /\ SentTyped /\ FrameInHand /\ LookedUp /\ OneEntryEach /\ NextHopIsGateway
      /\ [Next]_vars => SentTyped' /\ NextHopIsGateway'
<1> SUFFICES ASSUME TypeOK, SentTyped, FrameInHand, LookedUp, OneEntryEach, NextHopIsGateway,
                    [Next]_vars
             PROVE  SentTyped' /\ NextHopIsGateway'
  OBVIOUS
<1>1. SentTyped' /\ \A i \in DOMAIN sent' :
         \/ i \in DOMAIN sent /\ sent'[i] = sent[i]
         \/ sent'[i].kind # "ip"
         \/ \E j \in DOMAIN cache : cache[j] = [ip |-> Gateway, mac |-> sent'[i].mac]
  <2>1. CASE UNCHANGED sent
    BY <2>1 DEF SentTyped
  <2>2. ASSUME NEW p \in Packets, sent' = Append(sent, p),
               p.kind = "ip" => \E j \in DOMAIN cache : cache[j] = [ip |-> Gateway, mac |-> p.mac]
        PROVE  <1>1
    <3>1. /\ sent' \in Seq(Packets)
          /\ \A i \in DOMAIN sent' : sent'[i] = p \/ (i \in DOMAIN sent /\ sent'[i] = sent[i])
      <4>1. /\ Append(sent, p) \in Seq(Packets)
            /\ DOMAIN Append(sent, p) = DOMAIN sent \cup {Len(sent) + 1}
            /\ \A i \in DOMAIN sent : Append(sent, p)[i] = sent[i]
            /\ Append(sent, p)[Len(sent) + 1] = p
        BY <2>2, Appended DEF SentTyped
      <4>2. sent' \in Seq(Packets)
        BY <2>2, <4>1
      <4>3. \A i \in DOMAIN sent' : sent'[i] = p \/ (i \in DOMAIN sent /\ sent'[i] = sent[i])
        BY <2>2, <4>1
      <4> QED
        BY <4>2, <4>3
    <3> QED
      BY <2>2, <3>1 DEF SentTyped
  <2> QED
    BY <2>1, <2>2, SentEffect
<1>2. ASSUME NEW i \in DOMAIN sent', sent'[i].kind = "ip"
      PROVE  \E j \in DOMAIN cache' : cache'[j] = [ip |-> Gateway, mac |-> sent'[i].mac]
  <2>1. \E j \in DOMAIN cache : cache[j] = [ip |-> Gateway, mac |-> sent'[i].mac]
    BY <1>1, <1>2 DEF NextHopIsGateway
  <2> QED
    BY <2>1, EntriesStay
<1> QED
  BY <1>1, <1>2 DEF NextHopIsGateway

\* An exception leaves a handler with the frame it is about.
LEMMA EndStep ==
    TypeOK /\ FrameInHand /\ LookedUp /\ OnlyEchoMissEnds /\ [Next]_vars => OnlyEchoMissEnds'
<1> SUFFICES ASSUME TypeOK, FrameInHand, LookedUp, OnlyEchoMissEnds, [Next]_vars,
                    ~running'
             PROVE  OnlyEchoMissEnds'
  BY DEF OnlyEchoMissEnds
<1> USE DEF Throw, OnlyEchoMissEnds
<1>1. ASSUME NEW f \in ArpFrames, ArpHandle(f) PROVE OnlyEchoMissEnds'
  BY <1>1 DEF ArpHandle
<1>2. ASSUME NEW f \in IpFrames, IpReject(f) PROVE OnlyEchoMissEnds'
  BY <1>2 DEF IpReject, IpArrives, WellFormed
<1>3. ASSUME NEW t \in Threads, SendRequest(t) PROVE OnlyEchoMissEnds'
  <2>1. t = IntrThread /\ pc[t] = "request"
    BY <1>3 DEF SendRequest
  <2>2. frame' \in IpFrames /\ frame'.proto = "echo"
    BY <1>3, <2>1 DEF SendRequest, FrameInHand, OutputLabels
  <2>3. ~Cached(Gateway)'
    BY <1>3, <2>1 DEF SendRequest, LookedUp, Cached, Entries
  <2> QED
    BY <2>2, <2>3
<1>4. ASSUME \A f \in ArpFrames : ~ArpHandle(f), \A f \in IpFrames : ~IpReject(f),
             \A t \in Threads : ~SendRequest(t)
      PROVE  UNCHANGED running
  BY <1>4 DEF Next, Output, vars, ArpCreate, ArpReply, IcmpEcho, IpConsume,
     IpArrives, OutputBegin, GenId, Resolve, SendPacket
<1>5. CASE UNCHANGED running
  <2>1. UNCHANGED vars
    BY <1>5 DEF Next, Output, ArpHandle, ArpCreate, ArpReply, IpReject, IcmpEcho, IpConsume,
       IpArrives, OutputBegin, GenId, Resolve, SendPacket, SendRequest
  <2> QED
    BY <2>1 DEF vars, WellFormed, Cached, Entries
<1> QED
  BY <1>1, <1>2, <1>3, <1>4, <1>5

-----------------------------------------------------------------------------
(* Identifications. *)

\* The counter returns all its values before it returns one again.
LEMMA GivenFresh ==
    ASSUME NEW g \in 0..(IdRange - 1)
    PROVE  /\ Given(g) \notin GivenBefore(g)
           /\ GivenBefore(g + 1) = GivenBefore(g) \cup {Given(g)}
           /\ (Given(g) + 1) % IdRange = Given(g + 1)
<1> USE BoundAssumption DEF Given, GivenBefore
<1>1. Given(g) \notin GivenBefore(g)
  OBVIOUS
<1>2. GivenBefore(g + 1) = GivenBefore(g) \cup {Given(g)}
  <2>1. 0..((g + 1) - 1) = 0..(g - 1) \cup {g}
    OBVIOUS
  <2> HIDE DEF Given
  <2> QED
    BY <2>1, Zenon
<1>3. (Given(g) + 1) % IdRange = Given(g + 1)
  <2>1. \A n \in 0..(IdRange - 1) : (n + 1) % IdRange = IF n + 1 = IdRange THEN 0 ELSE n + 1
    OBVIOUS
  <2>2. Given(g) \in 0..(IdRange - 1)
    OBVIOUS
  <2>3. Given(g + 1) = IF Given(g) + 1 = IdRange THEN 0 ELSE Given(g) + 1
    OBVIOUS
  <2> QED
    BY <2>1, <2>2, <2>3
<1> QED
  BY <1>1, <1>2, <1>3

\* What IdsDiffer says until the counter has come round.
IdsApart ==
    /\ \A i, j \in DOMAIN sent :
          sent[i].kind = "ip" /\ sent[j].kind = "ip" /\ i # j => sent[i].id # sent[j].id
    /\ \A t \in Holding :
          \A i \in DOMAIN sent : sent[i].kind = "ip" => sent[i].id # packetId[t]
    /\ \A t, u \in Holding : t # u => packetId[t] # packetId[u]

\* What is to be shown while the counter has not come round yet.
LEMMA IdsDifferParts ==
    /\ IdsDiffer <=> (given <= IdRange => IdsApart)
    /\ IdsDiffer' <=> (given' <= IdRange => IdsApart')
BY DEF IdsDiffer, IdsApart, Holding

\* A step that gives out no identification and sends no packet.
KeepsIds ==
    /\ UNCHANGED <<nextId, given>>
    /\ Holding' \subseteq Holding
    /\ \A t \in Holding' : packetId'[t] = packetId[t]
    /\ UNCHANGED sent \/ \E p \in Packets : sent' = Append(sent, p) /\ p.kind # "ip"

\* Such a step keeps the identifications apart.
LEMMA IdsKept ==
    ASSUME SentTyped, IdsApart, IdsGiven, KeepsIds
    PROVE  IdsGiven' /\ IdsApart'
<1>1. \A i \in DOMAIN sent' : sent'[i].kind = "ip" => i \in DOMAIN sent /\ sent'[i] = sent[i]
  <2>1. CASE UNCHANGED sent
    BY <2>1
  <2>2. ASSUME NEW p \in Packets, sent' = Append(sent, p), p.kind # "ip"
        PROVE  <1>1
    <3>1. /\ DOMAIN Append(sent, p) = DOMAIN sent \cup {Len(sent) + 1}
          /\ \A i \in DOMAIN sent : Append(sent, p)[i] = sent[i]
          /\ Append(sent, p)[Len(sent) + 1] = p
      BY <2>2, Appended DEF SentTyped
    <3> QED
      BY <2>2, <3>1
  <2> QED
    BY <2>1, <2>2 DEF KeepsIds
<1>2. IdsGiven'
  BY <1>1 DEF IdsGiven, GivenBefore, Given, KeepsIds
<1>3. IdsApart'
  BY <1>1 DEF IdsApart, KeepsIds
<1> QED
  BY <1>2, <1>3

\* ip_gen_id returns a value not in use.
LEMMA IdsGenerated ==
    ASSUME TypeOK, IdsApart, IdsGiven, given \in 0..(IdRange - 1),
           NEW t \in Threads, GenId(t)
    PROVE  IdsGiven' /\ IdsApart'
<1> USE BoundAssumption
<1>1. t \notin Holding /\ Holding' = Holding \cup {t}
  BY DEF GenId, Goto, Holding, TypeOK, Labels
<1>2. /\ Given(given) \notin GivenBefore(given)
      /\ GivenBefore(given + 1) = GivenBefore(given) \cup {Given(given)}
      /\ (Given(given) + 1) % IdRange = Given(given + 1)
  BY GivenFresh
<1>3. /\ nextId = Given(given) /\ nextId' = Given(given + 1) /\ given' = given + 1
      /\ packetId'[t] = Given(given)
      /\ \A u \in Threads \ {t} : packetId'[u] = packetId[u]
      /\ UNCHANGED sent
  BY <1>2 DEF GenId, IdsGiven, TypeOK
<1>4. /\ \A i \in DOMAIN sent : sent[i].kind = "ip" => sent[i].id \in GivenBefore(given)
      /\ \A u \in Holding : u \in Threads /\ packetId[u] \in GivenBefore(given)
  BY DEF IdsGiven, Holding
<1>5. \A u \in Holding' : packetId'[u] \in GivenBefore(given + 1)
  BY <1>1, <1>2, <1>3, <1>4
<1>6. \A u, v \in Holding' : u # v => packetId'[u] # packetId'[v]
  BY <1>1, <1>2, <1>3, <1>4 DEF IdsApart
<1>7. IdsGiven'
  BY <1>2, <1>3, <1>4, <1>5 DEF IdsGiven, Given, GivenBefore
<1>8. IdsApart'
  BY <1>1, <1>2, <1>3, <1>4, <1>6 DEF IdsApart
<1> QED
  BY <1>7, <1>8

\* The identification of a packet passes from the thread to what is sent.
LEMMA IdsSent ==
    ASSUME TypeOK, SentTyped, SentTyped', IdsApart, IdsGiven,
           NEW t \in Threads, SendPacket(t)
    PROVE  IdsGiven' /\ IdsApart'
<1>1. t \in Holding /\ Holding' = Holding \ {t}
  BY DEF SendPacket, Goto, Holding, TypeOK, Labels
<1>2. UNCHANGED <<nextId, given>> /\ \A u \in Holding' : packetId'[u] = packetId[u]
  BY <1>1 DEF SendPacket, End, TypeOK, Holding
<1> DEFINE p == [kind |-> "ip", mac |-> CachedMac(Gateway), id |-> packetId[t]]
<1>3. /\ DOMAIN sent' = DOMAIN sent \cup {Len(sent) + 1}
      /\ \A i \in DOMAIN sent : sent'[i] = sent[i]
      /\ sent'[Len(sent) + 1] = p
  <2>1. sent' = Append(sent, p)
    BY DEF SendPacket, Transmit
  <2> HIDE DEF p
  <2>2. Len(sent) \in Nat /\ DOMAIN sent = 1..Len(sent)
    BY LenProperties DEF SentTyped
  <2> QED
    BY <2>1, <2>2, AppendProperties DEF SentTyped
<1>4. p.id = packetId[t]
  OBVIOUS
<1> HIDE DEF p
<1>5. /\ \A i \in DOMAIN sent : sent[i].kind = "ip" => sent[i].id \in GivenBefore(given)
      /\ \A u \in Holding : packetId[u] \in GivenBefore(given)
  BY DEF IdsGiven
<1>6. \A i \in DOMAIN sent' : sent'[i].kind = "ip" => sent'[i].id \in GivenBefore(given)
  BY <1>1, <1>3, <1>4, <1>5
<1>7. IdsGiven'
  BY <1>1, <1>2, <1>5, <1>6 DEF IdsGiven, Given, GivenBefore
<1>8. IdsApart'
  BY <1>1, <1>2, <1>3, <1>4 DEF IdsApart
<1> QED
  BY <1>7, <1>8

\* Every other action gives out no identification and sends no packet.
LEMMA OtherIds ==
    ASSUME TypeOK, SentTyped, FrameInHand, [Next]_vars,
           \A t \in Threads : ~GenId(t) /\ ~SendPacket(t)
    PROVE  KeepsIds
<1>1. IntrThread \in Threads /\ pc \in [Threads -> Labels]
  BY DEF TypeOK, Threads
<1> USE <1>1 DEF Goto, Throw, Labels, Holding, Transmit, KeepsIds
<1>2. ASSUME NEW f \in ArpFrames, ArpHandle(f) PROVE KeepsIds
  <2>1. Holding' = Holding
    BY <1>2 DEF ArpHandle
  <2> HIDE DEF Holding
  <2> QED
    BY <1>2, <2>1 DEF ArpHandle
<1>3. CASE ArpCreate
  BY <1>3 DEF ArpCreate
<1>4. CASE ArpReply
  <2>1. frame \in ArpFrames
    BY <1>4 DEF ArpReply, FrameInHand, ArpLabels
  <2>2. [kind |-> "arp_reply", mac |-> frame.mac, ip |-> frame.ip] \in Packets
    BY <2>1, FrameKinds DEF Packets
  <2> QED
    BY <1>4, <2>2 DEF ArpReply
<1>5. ASSUME NEW f \in IpFrames, IpReject(f) PROVE KeepsIds
  BY <1>5 DEF IpReject, IpArrives
<1>6. ASSUME NEW f \in IpFrames, IcmpEcho(f) PROVE KeepsIds
  BY <1>6 DEF IcmpEcho, IpArrives
<1>7. ASSUME NEW f \in IpFrames, IpConsume(f) PROVE KeepsIds
  BY <1>7 DEF IpConsume, IpArrives
<1>8. ASSUME NEW t \in Threads, OutputBegin(t) PROVE KeepsIds
  BY <1>8 DEF OutputBegin
<1>9. ASSUME NEW t \in Threads, Resolve(t) PROVE KeepsIds
  BY <1>9 DEF Resolve
<1>10. ASSUME NEW t \in Threads, SendRequest(t) PROVE KeepsIds
  <2>1. [kind |-> "arp_request", mac |-> BroadcastMac, ip |-> Gateway] \in Packets
    BY DEF Packets, Hosts
  <2>2. packetId' = [packetId EXCEPT ![t] = 0] /\ t \notin Holding'
    BY <1>10 DEF SendRequest, End
  <2>3. packetId \in [Threads -> 0..(IdRange - 1)]
    BY DEF TypeOK
  <2>4. Holding' \subseteq Holding
    BY <1>10 DEF SendRequest
  <2> QED
    BY <1>10, <2>1, <2>2, <2>3, <2>4 DEF SendRequest
<1>11. CASE UNCHANGED vars
  BY <1>11 DEF vars
<1> QED
  BY <1>2, <1>3, <1>4, <1>5, <1>6, <1>7, <1>8, <1>9, <1>10, <1>11 DEF Next, Output

\* No step lets two packets in use carry the same identification.
LEMMA IdsStep ==
    TypeOK /\ SentTyped /\ SentTyped' /\ FrameInHand /\ IdsInUse /\ IdsDiffer
      /\ [Next]_vars => IdsInUse' /\ IdsDiffer'
<1> SUFFICES ASSUME TypeOK, SentTyped, SentTyped', FrameInHand, IdsInUse, IdsDiffer,
                    [Next]_vars, given' <= IdRange
             PROVE  IdsGiven' /\ IdsApart'
  BY IdsDifferParts DEF IdsInUse
<1>1. given \in Nat
  BY DEF TypeOK
<1>2. ASSUME given <= IdRange PROVE IdsGiven /\ IdsApart
  BY <1>2, IdsDifferParts DEF IdsInUse
<1>3. ASSUME NEW t \in Threads, GenId(t) PROVE IdsGiven' /\ IdsApart'
  <2>1. given \in 0..(IdRange - 1)
    BY <1>1, <1>3, BoundAssumption DEF GenId
  <2>2. IdsGiven /\ IdsApart
    BY <1>2, <2>1, BoundAssumption
  <2> QED
    BY <1>3, <2>1, <2>2, IdsGenerated
<1>4. ASSUME NEW t \in Threads, SendPacket(t) PROVE IdsGiven' /\ IdsApart'
  <2>1. given' = given
    BY <1>4 DEF SendPacket
  <2> QED
    BY <1>2, <1>4, <2>1, IdsSent
<1>5. CASE \A t \in Threads : ~GenId(t) /\ ~SendPacket(t)
  <2>1. KeepsIds
    BY <1>5, OtherIds
  <2>2. given' = given
    BY <2>1 DEF KeepsIds
  <2> QED
    BY <1>2, <2>1, <2>2, IdsKept
<1> QED
  BY <1>3, <1>4, <1>5

-----------------------------------------------------------------------------
\* The invariant is inductive: every part of it is kept by the lemma of its name.
LEMMA NextIInv == IInv /\ [Next]_vars => IInv'
BY TypeStep, SentStep, FrameStep, LookedUpStep, EntryStep, KnownStep, EndStep, IdsStep DEF IInv

\* It holds of every reachable state.
THEOREM Inductive == Spec => []IInv
<1> QED
  BY InitIInv, NextIInv, PTL DEF Spec

\* Every variable of the stack keeps its type: the counter of ip_gen_id that of
\* a std::uint16_t, a cache entry that of a host and a hardware address.
THEOREM TypeCorrect == Spec => []TypeOK
<1>1. IInv => TypeOK
  BY DEF IInv
<1> QED
  BY <1>1, Inductive, PTL

\* ArpCache::create never adds a second entry for an address, though it lets go
\* of the cache's mutex between its look and its push_back: whatever frames come.
THEOREM EntriesUnique == Spec => []OneEntryEach
<1>1. IInv => OneEntryEach
  BY DEF IInv
<1> QED
  BY <1>1, Inductive, PTL

\* A caller of ipv4_output who could have seen the gateway in the cache does not
\* get an ArpResolveException, however many threads send and ARP packets come.
THEOREM KnownGatewayResolves == Spec => []KnownIsSent
<1>1. IInv => KnownIsSent
  BY DEF IInv
<1> QED
  BY <1>1, Inductive, PTL

\* Every IP packet that ipv4_output transmits goes to a hardware address some
\* ARP packet gave for the gateway, whoever else is in the cache.
THEOREM PacketsGoToGateway == Spec => []NextHopIsGateway
<1>1. IInv => NextHopIsGateway
  BY DEF IInv
<1> QED
  BY <1>1, Inductive, PTL

\* ip_gen_id gives every packet an identification of its own until its counter
\* has gone round, for any number of threads and any width of the counter.
THEOREM IdentificationsUnique == Spec => []IdsDiffer
<1>1. IInv => IdsDiffer
  BY DEF IInv
<1> QED
  BY <1>1, Inductive, PTL

\* The frame a handler's exception is about is malformed, not for this host, or
\* an echo request that finds the gateway missing from the cache.
THEOREM EndsWithCause == Spec => []OnlyEchoMissEnds
<1>1. IInv => OnlyEchoMissEnds
  BY DEF IInv
<1> QED
  BY <1>1, Inductive, PTL
=============================================================================
