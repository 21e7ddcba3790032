--------------------------- MODULE EchoServerProofs ---------------------------
(***************************************************************************)
(* Proofs about EchoServer, for every number of frames, set of hosts and   *)
(* port: what its network layers keep is what NetStackProofs shows of them,*)
(* and the whole implements EchoService.                                   *)
(***************************************************************************)
EXTENDS EchoServer, SequenceTheorems, TLAPS

NSP == INSTANCE NetStackProofs WITH Callers <- {Main}

Labels == {"open", "bind", "check", "recv", "send", "output", "ended", "exited"}

\* main is in sendTo while ipv4_output runs in its thread.
MainSends == mainPc = "output" <=> pc[Main] # "idle"

\* No datagram is ahead of the count of those that arrived.
UpTo(s, n) == \A i \in DOMAIN s : s[i] <= n
AllArrived ==
    /\ UpTo(box[Socket], arrived) /\ UpTo(answered, arrived) /\ UpTo(lost, arrived)
    /\ holding <= arrived

IInv ==
    /\ NSP!IInv
    /\ TypeOK
    /\ MainSends
    /\ AllArrived

-----------------------------------------------------------------------------
(* The network layers are NetStack, and its invariant is theirs. *)

\* Two names of one module.
LEMMA NetSteps == [NS!Next]_(NS!vars) => [NSP!Next]_(NSP!vars)
BY DEF NS!Next, NSP!Next, NS!vars, NSP!vars, NS!Output, NSP!Output, NS!ArpFrames,
     NSP!ArpFrames, NS!IpFrames, NSP!IpFrames, NS!Threads, NSP!Threads, NS!ArpHandle,
     NSP!ArpHandle, NS!IpReject, NSP!IpReject, NS!IcmpEcho, NSP!IcmpEcho, NS!IpConsume,
     NSP!IpConsume, NS!IpArrives, NSP!IpArrives, NS!ArpCreate, NSP!ArpCreate,
     NS!ArpReply, NSP!ArpReply, NS!OutputBegin, NSP!OutputBegin, NS!GenId, NSP!GenId,
     NS!Resolve, NSP!Resolve, NS!SendPacket, NSP!SendPacket, NS!SendRequest,
     NSP!SendRequest, NS!WellFormed, NSP!WellFormed, NS!End, NSP!End, NS!Transmit,
     NSP!Transmit, NS!Throw, NSP!Throw, NS!Goto, NSP!Goto, NS!Cached, NSP!Cached,
     NS!CachedMac, NSP!CachedMac, NS!Entries, NSP!Entries, NS!NoFrame, NSP!NoFrame,
     NS!Hosts, NSP!Hosts

\* A state of the right types for one is of the right types for the other.
LEMMA NetTypes == (NS!TypeOK <=> NSP!TypeOK) /\ (NS!TypeOK' <=> NSP!TypeOK')
BY DEF NS!TypeOK, NSP!TypeOK, NS!Threads, NSP!Threads, NS!Labels, NSP!Labels, NS!Entry,
     NSP!Entry, NS!Hosts, NSP!Hosts, NS!ArpFrames, NSP!ArpFrames, NS!IpFrames,
     NSP!IpFrames, NS!NoFrame, NSP!NoFrame, NS!Packets, NSP!Packets

\* Their initial states are the same.
LEMMA NetInits == NS!Init => NSP!Init
BY DEF NS!Init, NSP!Init, NS!Threads, NSP!Threads, NS!NoFrame, NSP!NoFrame

\* NetStack's assumptions hold of the server.
LEMMA NetAssumptions == NSP!AddressAssumption /\ NSP!ThreadAssumption /\ NSP!BoundAssumption
BY NetAssumption

\* What the server does to the network layers is a step of theirs.
LEMMA StepsOfNet == [Next]_vars => [NS!Next]_(NS!vars)
<1>1. Main \in NS!Threads /\ IntrThread \in NS!Threads
  BY DEF NS!Threads
<1>2. CASE UNCHANGED netVars
  BY <1>2 DEF netVars, NS!vars
<1>3. CASE Send \/ SendStep \/ SendDone \/ SendMiss
  BY <1>1, <1>3 DEF Send, SendStep, SendDone, SendMiss, NS!Next, NS!Output
<1>4. ASSUME NEW f \in NS!IpFrames, NEW port \in Ports, DatagramArrives(f, port)
      PROVE  NS!Next
  BY <1>4 DEF DatagramArrives, NS!Next
<1>5. CASE OtherFrame
  BY <1>5 DEF OtherFrame, NS!Next
<1>6. CASE FrameStep
  BY <1>1, <1>6 DEF FrameStep, NS!Next
<1> QED
  BY <1>2, <1>3, <1>4, <1>5, <1>6 DEF Next, MainStep, OpenSocket, BindSocket, CheckTerminate,
     Receive, ReceiveNone, Shutdown, Event, OnSignal, vars

\* The invariant of NetStackProofs is kept by every step of the server.
LEMMA NetStep == NSP!IInv /\ [Next]_vars => NSP!IInv'
BY StepsOfNet, NetSteps, NetAssumptions, NSP!NextIInv

\* What is in the cache stays there, and an exception is the end of it.
LEMMA NetMonotone ==
    ASSUME NSP!IInv, [NS!Next]_(NS!vars)
    PROVE  /\ NS!Cached(Gateway) => NS!Cached(Gateway)'
           /\ running' # running => ~running' /\ UNCHANGED cache
<1>1. NSP!TypeOK /\ NSP!FrameInHand /\ [NSP!Next]_(NSP!vars)
  BY NetSteps DEF NSP!IInv
<1>2. NSP!Cached(Gateway) => NSP!Cached(Gateway)'
  <2>1. CASE NSP!ArpCreate
    BY <1>1, <2>1, NetAssumptions, NSP!CreateEffect
  <2>2. CASE ~NSP!ArpCreate
    BY <1>1, <2>2, NetAssumptions, NSP!CacheStep DEF NSP!Cached, NSP!Entries
  <2> QED
    BY <2>1, <2>2
<1>3. running' # running => ~running' /\ UNCHANGED cache
  BY DEF NS!Next, NS!vars, NS!Output, NS!ArpHandle, NS!ArpCreate, NS!ArpReply, NS!IpReject,
     NS!IcmpEcho, NS!IpConsume, NS!OutputBegin, NS!GenId, NS!Resolve, NS!SendPacket,
     NS!SendRequest, NS!Throw
<1> QED
  BY <1>2, <1>3 DEF NS!Cached, NS!Entries, NSP!Cached, NSP!Entries

\* The interrupt thread leaves main where it is in ipv4_output.
LEMMA MainUndisturbed ==
    ASSUME NSP!IInv,
           FrameStep \/ OtherFrame \/ \E f \in NS!IpFrames, port \in Ports : DatagramArrives(f, port)
    PROVE  pc'[Main] = pc[Main] /\ UNCHANGED <<mainPc, holding, answered, lost>>
<1>1. pc \in [NS!Threads -> NS!Labels] /\ Main \in NS!Threads /\ Main # IntrThread
  BY NetTypes, NetAssumption DEF NSP!IInv, NS!TypeOK, NS!Threads
<1> QED
  BY <1>1 DEF FrameStep, OtherFrame, DatagramArrives, NS!ArpHandle, NS!ArpCreate, NS!ArpReply,
     NS!IpArrives, NS!IpReject, NS!IcmpEcho, NS!IpConsume, NS!Output, NS!OutputBegin, NS!GenId,
     NS!Resolve, NS!SendPacket, NS!SendRequest, NS!Throw, NS!Goto, histories
-----------------------------------------------------------------------------
(* The server's own invariant. *)

\* An appended number is the last element.
LEMMA Appended ==
    ASSUME NEW S, NEW s \in Seq(S), NEW e \in S
    PROVE  /\ Append(s, e) \in Seq(S)
           /\ \A i \in DOMAIN Append(s, e) :
                 (i \in DOMAIN s /\ Append(s, e)[i] = s[i]) \/ Append(s, e)[i] = e
BY AppendProperties, LenProperties

\* The elements of a tail are elements.
LEMMA Tailed ==
    ASSUME NEW S, NEW s \in Seq(S), s # <<>>
    PROVE  /\ Head(s) \in S /\ Tail(s) \in Seq(S)
           /\ 1 \in DOMAIN s /\ Head(s) = s[1]
           /\ \A i \in DOMAIN Tail(s) : i + 1 \in DOMAIN s /\ Tail(s)[i] = s[i + 1]
<1>1. Len(s) \in Nat \ {0} /\ DOMAIN s = 1..Len(s)
  BY EmptySeq, LenProperties
<1>2. Head(s) \in S /\ Tail(s) \in Seq(S) /\ DOMAIN Tail(s) = 1..(Len(s) - 1)
      /\ \A i \in 1..(Len(s) - 1) : Tail(s)[i] = s[i + 1]
  BY HeadTailProperties, LenProperties
<1> QED
  BY <1>1, <1>2

\* A server that has just begun satisfies the invariant.
LEMMA InitIInv == Init => IInv
<1> SUFFICES ASSUME Init PROVE IInv
  OBVIOUS
<1>1. NSP!IInv
  BY NetInits, NetAssumptions, NSP!InitIInv DEF Init
<1>2. NS!TypeOK
  BY <1>1, NetTypes DEF NSP!IInv
<1>3. TypeOK
  <2>1. /\ box \in [{Socket} -> Seq(Datagrams)] /\ taken \in [{Socket} -> Seq(Datagrams)]
        /\ answered \in Seq(Datagrams) /\ lost \in Seq(Datagrams)
    BY EmptySeq DEF Init, US!Init
  <2>2. arrived \in 0..frames
    BY DEF Init, NS!Init, US!Init
  <2> QED
    BY <1>2, <2>1, <2>2 DEF Init, TypeOK, US!Init
<1>4. MainSends
  BY DEF Init, MainSends, NS!Init, NS!Threads
<1>5. AllArrived
  BY DEF Init, AllArrived, UpTo, US!Init, Socket
<1> QED
  BY <1>1, <1>3, <1>4, <1>5 DEF IInv

\* main's steps keep it in ipv4_output or out of it.
LEMMA MainSendsStep == NSP!IInv /\ TypeOK /\ MainSends /\ [Next]_vars => MainSends'
<1> SUFFICES ASSUME NSP!IInv, TypeOK, MainSends, [Next]_vars PROVE MainSends'
  OBVIOUS
<1>1. /\ pc \in [NS!Threads -> NS!Labels] /\ Main \in NS!Threads /\ Main # IntrThread
      /\ pc[Main] \notin {"arp_create", "arp_reply"}
  BY NetTypes, NetAssumption DEF NSP!IInv, NS!TypeOK, NS!Threads, NSP!FrameInHand, NSP!ArpLabels
<1>2. CASE FrameStep \/ OtherFrame \/ \E f \in NS!IpFrames, port \in Ports : DatagramArrives(f, port)
  BY <1>2, MainUndisturbed DEF MainSends
<1>3. CASE Send \/ SendStep \/ SendDone \/ SendMiss
  BY <1>1, <1>3 DEF Send, SendStep, SendDone, SendMiss, NS!OutputBegin, NS!GenId, NS!Resolve,
     NS!SendPacket, NS!SendRequest, NS!Goto, MainSends
<1>4. CASE OpenSocket \/ BindSocket \/ CheckTerminate \/ Receive \/ ReceiveNone \/ Shutdown
           \/ Event \/ OnSignal \/ UNCHANGED vars
  BY <1>4 DEF OpenSocket, BindSocket, CheckTerminate, Receive, ReceiveNone, Shutdown, Event,
     OnSignal, vars, netVars, MainSends
<1> QED
  BY <1>2, <1>3, <1>4 DEF Next, MainStep

\* What moves a datagram: its arrival, recvFrom and the two ends of sendTo.
LEMMA DatagramSteps ==
    ASSUME [Next]_vars
    PROVE  \/ UNCHANGED <<box, arrived, holding, answered, lost>>
           \/ Receive
           \/ (SendDone \/ SendMiss) /\ UNCHANGED <<box, arrived>>
           \/ \E f \in NS!IpFrames, port \in Ports : DatagramArrives(f, port)
BY DEF Next, MainStep, OpenSocket, BindSocket, CheckTerminate, ReceiveNone, Send, SendStep,
   SendDone, SendMiss, Shutdown, OtherFrame, FrameStep, Event, OnSignal, vars, socketVars,
   histories, US!OpenSocket, US!Bind, US!Flag

\* A datagram is delivered to the one socket there is, or dropped.
LEMMA ArrivesEffect ==
    ASSUME TypeOK, NEW f \in NS!IpFrames, NEW port \in Ports, DatagramArrives(f, port)
    PROVE  /\ running /\ mainPc # "exited"
           /\ arrived + 1 \in Datagrams /\ arrived' = arrived + 1 /\ arrived' \in 0..frames'
           /\ \/ box'[Socket] = Append(box[Socket], arrived')
              \/ box'[Socket] = box[Socket]
           /\ DOMAIN box' = {Socket}
           /\ UNCHANGED <<running, cache, pc, open, flagged, taken, mainPc, holding, terminate,
                          event, answered, lost>>
<1>1. /\ running /\ mainPc # "exited" /\ frames < MaxFrames /\ frames' = frames + 1
      /\ UNCHANGED <<running, cache, pc, mainPc, holding, terminate, event, answered, lost>>
  BY DEF DatagramArrives, NS!IpConsume, NS!IpArrives, histories
<1>2. /\ arrived' = arrived + 1 /\ UNCHANGED <<open, flagged, taken>>
      /\ box' = [box EXCEPT ![Socket] = Append(@, arrived')] \/ UNCHANGED box
  BY DEF DatagramArrives, US!Deliver, US!Drop
<1>3. frames \in 0..MaxFrames /\ arrived \in 0..frames
  BY DEF TypeOK, NS!TypeOK
<1>4. arrived + 1 \in Datagrams /\ arrived' \in 0..frames'
  BY <1>1, <1>2, <1>3, NetAssumption DEF Datagrams
<1>5. DOMAIN box = {Socket}
  BY DEF TypeOK
<1> QED
  BY <1>1, <1>2, <1>4, <1>5

\* main takes the oldest datagram of the mailbox in its hands.
LEMMA ReceiveEffect ==
    ASSUME TypeOK, Receive
    PROVE  /\ running /\ mainPc = "recv" /\ holding = 0 /\ mainPc' = "send"
           /\ box[Socket] \in Seq(Datagrams) /\ box[Socket] # <<>>
           /\ holding' = Head(box[Socket]) /\ holding' \in Datagrams
           /\ box'[Socket] = Tail(box[Socket]) /\ DOMAIN box' = {Socket}
           /\ taken'[Socket] = Append(taken[Socket], holding') /\ DOMAIN taken' = {Socket}
           /\ UNCHANGED <<running, cache, pc, frames, open, flagged, arrived, terminate, event,
                          answered, lost>>
<1>1. /\ box \in [{Socket} -> Seq(Datagrams)] /\ taken \in [{Socket} -> Seq(Datagrams)]
      /\ holding = 0
  BY DEF TypeOK, Receive
<1>2. Head(box[Socket]) \in Datagrams
  BY <1>1, Tailed DEF Receive, US!Take
<1> QED
  BY <1>1, <1>2 DEF Receive, US!Take, netVars, histories

\* Every datagram is a number of one that arrived, wherever it is.
LEMMA ArrivedStep == TypeOK /\ AllArrived /\ [Next]_vars => AllArrived'
<1> SUFFICES ASSUME TypeOK, AllArrived, [Next]_vars PROVE AllArrived'
  OBVIOUS
<1>1. arrived \in Nat /\ Datagrams \subseteq Nat /\ holding \in Nat
  BY NetAssumption DEF TypeOK, NS!TypeOK, Datagrams
<1>2. box[Socket] \in Seq(Nat) /\ answered \in Seq(Nat) /\ lost \in Seq(Nat)
  BY <1>1, SeqMonotonic DEF TypeOK
<1>3. \A s \in Seq(Nat), n \in Nat, e \in Nat :
         UpTo(s, n) /\ e <= n => UpTo(Append(s, e), n)
  BY Appended DEF UpTo
<1>4. CASE Receive
  <2> DEFINE q == box[Socket]
  <2>1. q \in Seq(Nat) /\ q # <<>> /\ UpTo(q, arrived)
    BY <1>2, <1>4, ReceiveEffect DEF AllArrived
  <2>2. box'[Socket] = Tail(q) /\ holding' = Head(q) /\ UNCHANGED <<arrived, answered, lost>>
    BY <1>4, ReceiveEffect
  <2> HIDE DEF q
  <2>3. UpTo(Tail(q), arrived) /\ Head(q) <= arrived
    BY <2>1, Tailed DEF UpTo
  <2> QED
    BY <2>2, <2>3 DEF AllArrived
<1>5. ASSUME NEW f \in NS!IpFrames, NEW port \in Ports, DatagramArrives(f, port)
      PROVE  AllArrived'
  <2>1. \A s \in Seq(Nat) : UpTo(s, arrived) => UpTo(s, arrived + 1)
    <3> SUFFICES ASSUME NEW s \in Seq(Nat), UpTo(s, arrived), NEW i \in DOMAIN s
                 PROVE  s[i] <= arrived + 1
      BY DEF UpTo
    <3>1. s[i] \in Nat
      BY ElementOfSeq, LenProperties
    <3>2. s[i] <= arrived
      BY DEF UpTo
    <3> QED
      BY <1>1, <3>1, <3>2
  <2>2. /\ UpTo(box[Socket], arrived + 1) /\ UpTo(answered, arrived + 1) /\ UpTo(lost, arrived + 1)
        /\ holding <= arrived + 1
    BY <1>1, <1>2, <2>1 DEF AllArrived
  <2>3. UpTo(Append(box[Socket], arrived + 1), arrived + 1)
    BY <1>1, <1>2, <1>3, <2>2
  <2>4. /\ UNCHANGED <<answered, lost, holding>> /\ arrived' = arrived + 1
        /\ box'[Socket] \in {box[Socket], Append(box[Socket], arrived + 1)}
    BY <1>5, ArrivesEffect
  <2> QED
    BY <2>2, <2>3, <2>4 DEF AllArrived
<1>6. CASE SendDone /\ UNCHANGED <<box, arrived>>
  BY <1>1, <1>2, <1>3, <1>6 DEF SendDone, AllArrived, UpTo
<1>7. CASE SendMiss /\ UNCHANGED <<box, arrived>>
  BY <1>1, <1>2, <1>3, <1>7 DEF SendMiss, AllArrived, UpTo
<1>8. CASE UNCHANGED <<box, arrived, holding, answered, lost>>
  BY <1>8 DEF AllArrived, UpTo
<1> QED
  BY <1>4, <1>5, <1>6, <1>7, <1>8, DatagramSteps

\* Every action keeps the types.
LEMMA TypeStep == NSP!IInv /\ TypeOK /\ MainSends /\ [Next]_vars => TypeOK'
<1> SUFFICES ASSUME NSP!IInv, TypeOK, MainSends, [Next]_vars PROVE TypeOK'
  OBVIOUS
<1>1. NS!TypeOK'
  <2>1. NSP!TypeOK'
    BY NetStep DEF NSP!IInv
  <2> QED
    BY <2>1, NetTypes
<1>2. /\ open \subseteq {Socket} /\ flagged \subseteq open
      /\ box \in [{Socket} -> Seq(Datagrams)] /\ taken \in [{Socket} -> Seq(Datagrams)]
      /\ arrived \in 0..frames /\ frames \in Nat
      /\ mainPc \in Labels
      /\ terminate \in BOOLEAN /\ event \in BOOLEAN
      /\ IF mainPc \in {"send", "output"} THEN holding \in Datagrams ELSE holding = 0
      /\ answered \in Seq(Datagrams) /\ lost \in Seq(Datagrams)
  BY NetAssumption DEF TypeOK, NS!TypeOK, Labels
<1>3. frames' \in {frames, frames + 1}
  BY StepsOfNet DEF NS!Next, NS!vars, NS!Output, NS!ArpHandle, NS!ArpCreate, NS!ArpReply,
     NS!IpArrives, NS!IpReject, NS!IcmpEcho, NS!IpConsume, NS!OutputBegin, NS!GenId, NS!Resolve,
     NS!SendPacket, NS!SendRequest
<1>4. UNCHANGED arrived => arrived' \in 0..frames'
  BY <1>2, <1>3
<1> USE DEF TypeOK, Labels, histories, socketVars
<1>5. CASE OpenSocket
  BY <1>1, <1>2, <1>4, <1>5 DEF OpenSocket, US!OpenSocket
<1>6. CASE BindSocket
  BY <1>1, <1>2, <1>4, <1>6 DEF BindSocket, US!Bind
<1>7. CASE CheckTerminate \/ ReceiveNone \/ Shutdown \/ OnSignal
  BY <1>1, <1>2, <1>4, <1>7 DEF CheckTerminate, ReceiveNone, Shutdown, OnSignal
<1>8. CASE Receive
  <2>1. Tail(box[Socket]) \in Seq(Datagrams)
    BY <1>8, ReceiveEffect, Tailed
  <2>2. Append(taken[Socket], holding') \in Seq(Datagrams)
    BY <1>2, <1>8, ReceiveEffect, AppendProperties
  <2>3. box' \in [{Socket} -> Seq(Datagrams)] /\ taken' \in [{Socket} -> Seq(Datagrams)]
    BY <1>2, <1>8, <2>1, <2>2 DEF Receive, US!Take
  <2> QED
    BY <1>1, <1>2, <1>4, <1>8, <2>3, ReceiveEffect
<1>9. CASE Send \/ SendStep
  <2>1. UNCHANGED <<socketVars, holding, terminate, event, histories>>
    BY <1>9 DEF Send, SendStep
  <2>2. mainPc \in {"send", "output"} /\ mainPc' \in {"send", "output"}
    BY <1>9 DEF Send, SendStep, MainSends, NS!GenId, NS!Resolve
  <2> QED
    BY <1>1, <1>2, <1>4, <2>1, <2>2
<1>10. CASE SendDone \/ SendMiss
  <2>1. holding \in Datagrams
    <3>1. pc[Main] # "idle"
      BY <1>10 DEF SendDone, SendMiss, NS!SendPacket, NS!SendRequest
    <3> QED
      BY <1>2, <3>1 DEF MainSends
  <2>2. answered' \in Seq(Datagrams) /\ lost' \in Seq(Datagrams)
    <3>1. Append(answered, holding) \in Seq(Datagrams) /\ Append(lost, holding) \in Seq(Datagrams)
      BY <1>2, <2>1, AppendProperties
    <3> QED
      BY <1>2, <1>10, <3>1 DEF SendDone, SendMiss
  <2> QED
    BY <1>1, <1>2, <1>4, <1>10, <2>2 DEF SendDone, SendMiss
<1>11. ASSUME NEW f \in NS!IpFrames, NEW port \in Ports, DatagramArrives(f, port)
       PROVE  TypeOK'
  <2>1. box'[Socket] \in Seq(Datagrams)
    <3>1. Append(box[Socket], arrived + 1) \in Seq(Datagrams)
      BY <1>2, <1>11, ArrivesEffect, AppendProperties
    <3> QED
      BY <1>2, <1>11, <3>1, ArrivesEffect
  <2>2. box' \in [{Socket} -> Seq(Datagrams)]
    BY <1>2, <1>11, <2>1 DEF DatagramArrives, US!Deliver, US!Drop
  <2> QED
    BY <1>1, <1>2, <1>11, <2>2, ArrivesEffect
<1>12. CASE OtherFrame \/ FrameStep
  BY <1>1, <1>2, <1>4, <1>12 DEF OtherFrame, FrameStep
<1>13. CASE Event
  BY <1>1, <1>2, <1>4, <1>13 DEF Event, US!Flag
<1>14. CASE UNCHANGED vars
  BY <1>1, <1>2, <1>4, <1>14 DEF vars
<1> QED
  BY <1>5, <1>6, <1>7, <1>8, <1>9, <1>10, <1>11, <1>12, <1>13, <1>14 DEF Next, MainStep

\* The invariant is inductive.
LEMMA NextIInv == IInv /\ [Next]_vars => IInv'
BY NetStep, TypeStep, MainSendsStep, ArrivedStep DEF IInv

\* Every reachable state of the server satisfies it.
THEOREM Inductive == Spec => []IInv
<1> QED
  BY InitIInv, NextIInv, PTL DEF Spec

\* Every variable keeps its type: what main holds is a datagram from recvFrom to the
\* end of sendTo, and no other.
THEOREM TypeCorrect == Spec => []TypeOK
<1>1. IInv => TypeOK
  BY DEF IInv
<1> QED
  BY <1>1, Inductive, PTL
-----------------------------------------------------------------------------
(* The refinement. *)

\* A datagram put in front of others.
LEMMA Fronted ==
    ASSUME NEW S, NEW b \in Seq(S), NEW h \in S
    PROVE  /\ <<h>> \o b \in Seq(S) /\ <<h>> \o b # <<>>
           /\ Head(<<h>> \o b) = h /\ Tail(<<h>> \o b) = b
           /\ \A d \in S : Append(<<h>> \o b, d) = <<h>> \o Append(b, d)
           /\ \A i \in DOMAIN (<<h>> \o b) :
                 (<<h>> \o b)[i] = h \/ \E j \in DOMAIN b : (<<h>> \o b)[i] = b[j]
<1> DEFINE s == <<h>> \o b
<1>1. <<h>> \in Seq(S) /\ Len(<<h>>) = 1 /\ <<h>>[1] = h
  OBVIOUS
<1>2. Len(b) \in Nat /\ DOMAIN b = 1..Len(b)
  BY LenProperties
<1>3. s \in Seq(S) /\ Len(s) = 1 + Len(b)
  BY <1>1, ConcatProperties
<1>4. \A i \in 1..(1 + Len(b)) : s[i] = IF i <= 1 THEN h ELSE b[i - 1]
  BY <1>1, ConcatProperties
<1> HIDE DEF s
<1>5. s # <<>> /\ DOMAIN s = 1..(1 + Len(b))
  BY <1>2, <1>3, EmptySeq, LenProperties
<1>6. Head(s) = h
  BY <1>2, <1>3, <1>4
<1>7. Tail(s) = b
  <2>1. Tail(s) \in Seq(S) /\ Len(Tail(s)) = Len(b) /\ \A i \in 1..Len(b) : Tail(s)[i] = s[i + 1]
    BY <1>2, <1>3, <1>5, HeadTailProperties
  <2>2. \A i \in 1..Len(b) : Tail(s)[i] = b[i]
    <3> SUFFICES ASSUME NEW i \in 1..Len(b) PROVE Tail(s)[i] = b[i]
      OBVIOUS
    <3>1. i + 1 \in 1..(1 + Len(b)) /\ ~(i + 1 <= 1) /\ (i + 1) - 1 = i
      BY <1>2
    <3>2. s[i + 1] = b[(i + 1) - 1]
      BY <1>4, <3>1
    <3> QED
      BY <2>1, <3>1, <3>2
  <2> QED
    BY <2>1, <2>2, SeqEqual
<1>8. \A d \in S : Append(<<h>> \o b, d) = <<h>> \o Append(b, d)
  <2> SUFFICES ASSUME NEW d \in S PROVE Append(<<h>> \o b, d) = <<h>> \o Append(b, d)
    OBVIOUS
  <2>1. <<d>> \in Seq(S)
    OBVIOUS
  <2>2. Append(<<h>> \o b, d) = (<<h>> \o b) \o <<d>> /\ Append(b, d) = b \o <<d>>
    BY <1>3, AppendIsConcat DEF s
  <2> QED
    BY <1>1, <2>1, <2>2, ConcatAssociative
<1>9. \A i \in DOMAIN s : s[i] = h \/ \E j \in DOMAIN b : s[i] = b[j]
  <2> SUFFICES ASSUME NEW i \in DOMAIN s, s[i] # h PROVE \E j \in DOMAIN b : s[i] = b[j]
    OBVIOUS
  <2>1. i \in 1..(1 + Len(b)) /\ ~(i <= 1) /\ s[i] = b[i - 1]
    BY <1>4, <1>5
  <2>2. i - 1 \in DOMAIN b
    BY <1>2, <2>1
  <2> QED
    BY <2>1, <2>2
<1> QED
  BY <1>3, <1>5, <1>6, <1>7, <1>8, <1>9 DEF s

\* A queue is its oldest datagram and the rest.
LEMMA HeadAndTail ==
    ASSUME NEW S, NEW s \in Seq(S), s # <<>>
    PROVE  <<Head(s)>> \o Tail(s) = s
<1> DEFINE h == Head(s)
           b == Tail(s)
           t == <<h>> \o b
<1>1. h \in S /\ b \in Seq(S) /\ Len(b) = Len(s) - 1 /\ h = s[1]
      /\ \A i \in 1..Len(b) : b[i] = s[i + 1]
  BY HeadTailProperties
<1>2. Len(s) \in Nat \ {0}
  BY EmptySeq
<1> HIDE DEF h, b
<1>3. <<h>> \in Seq(S) /\ Len(<<h>>) = 1 /\ <<h>>[1] = h
  BY <1>1
<1>4. t \in Seq(S) /\ Len(t) = Len(s)
  BY <1>1, <1>2, <1>3, ConcatProperties
<1>5. \A i \in 1..(1 + Len(b)) : t[i] = IF i <= 1 THEN h ELSE b[i - 1]
  BY <1>1, <1>3, ConcatProperties
<1>6. \A i \in 1..Len(s) : t[i] = s[i]
  <2> SUFFICES ASSUME NEW i \in 1..Len(s) PROVE t[i] = s[i]
    OBVIOUS
  <2>1. i \in 1..(1 + Len(b)) /\ t[i] = IF i <= 1 THEN h ELSE b[i - 1]
    BY <1>1, <1>2, <1>5
  <2>2. ~(i <= 1) => i - 1 \in 1..Len(b)
    BY <1>1, <1>2
  <2>3. ~(i <= 1) => b[i - 1] = s[(i - 1) + 1]
    BY <1>1, <2>2
  <2> QED
    BY <1>1, <1>2, <2>1, <2>3
<1> HIDE DEF t
<1>7. t = s
  BY <1>4, <1>6, SeqEqual
<1> QED
  BY <1>7 DEF t, h, b

\* The datagrams not settled yet: the one in main's hands, then the mailbox.
LEMMA HeldIs ==
    ASSUME TypeOK
    PROVE  /\ Held = IF Begun THEN <<holding>> \o box[Socket] ELSE box[Socket]
           /\ box[Socket] \in Seq(Datagrams)
           /\ holding # 0 <=> mainPc \in {"send", "output"}
           /\ holding # 0 => holding \in Datagrams
<1>1. box[Socket] \in Seq(Datagrams)
  BY DEF TypeOK
<1>2. <<>> \o box[Socket] = box[Socket]
  BY <1>1, ConcatEmptySeq
<1> QED
  BY <1>1, <1>2, NetAssumption DEF TypeOK, Held, Datagrams

\* What has arrived is what the service has accepted.
LEMMA AcceptedArrived ==
    ASSUME TypeOK, AllArrived
    PROVE  \A e \in Service!Accepted : e < arrived + 1
<1>1. /\ arrived \in Nat /\ Datagrams \subseteq Nat
      /\ answered \in Seq(Datagrams) /\ lost \in Seq(Datagrams)
  BY NetAssumption DEF TypeOK, NS!TypeOK, Datagrams
<1>2. /\ \A i \in DOMAIN answered : answered[i] <= arrived /\ answered[i] \in Nat
      /\ \A i \in DOMAIN lost : lost[i] <= arrived /\ lost[i] \in Nat
      /\ \A i \in DOMAIN box[Socket] : box[Socket][i] <= arrived /\ box[Socket][i] \in Nat
  BY <1>1, HeldIs, ElementOfSeq, LenProperties DEF AllArrived, UpTo
<1>3. holding <= arrived /\ holding \in Nat
  <2>1. holding \in Nat
    <3>1. holding = 0 \/ holding \in Datagrams
      BY HeldIs
    <3>2. \A h : h \in Datagrams => h \in Nat
      BY <1>1
    <3> QED
      BY <3>1, <3>2
  <2> QED
    BY <2>1 DEF AllArrived
<1>4. \A i \in DOMAIN Held : Held[i] <= arrived /\ Held[i] \in Nat
  <2>1. CASE Begun
    <3>1. Held = <<holding>> \o box[Socket] /\ holding \in Datagrams /\ box[Socket] \in Seq(Datagrams)
      BY <2>1, HeldIs DEF Begun
    <3>2. \A i \in DOMAIN Held : Held[i] = holding \/ \E j \in DOMAIN box[Socket] : Held[i] = box[Socket][j]
      BY <3>1, Fronted
    <3> QED
      BY <1>2, <1>3, <3>2
  <2>2. CASE ~Begun
    BY <1>2, <2>2, HeldIs
  <2> QED
    BY <2>1, <2>2
<1>5. \A i \in DOMAIN Lost : Lost[i] <= arrived /\ Lost[i] \in Nat
  <2>1. lost \in Seq(Nat)
    BY <1>1, SeqMonotonic
  <2>2. \A i \in DOMAIN Append(lost, holding) :
           (i \in DOMAIN lost /\ Append(lost, holding)[i] = lost[i]) \/ Append(lost, holding)[i] = holding
    BY <1>3, <2>1, Appended
  <2> QED
    BY <1>2, <1>3, <2>2 DEF Lost
<1>6. \A e \in Service!Accepted : e \in Nat /\ e <= arrived
  BY <1>2, <1>4, <1>5 DEF Service!Accepted, Service!ToSet
<1> QED
  BY <1>1, <1>6
\* A server that has just begun is a service that has.
LEMMA ServiceInit == Init => Service!Init
<1> SUFFICES ASSUME Init PROVE Service!Init
  OBVIOUS
<1>1. box[Socket] = <<>> /\ holding = 0 /\ answered = <<>> /\ lost = <<>>
  BY DEF Init, US!Init
<1>2. Held = <<>>
  BY <1>1, ConcatEmptySeq, EmptySeq DEF Held, Begun
<1>3. ~Missed
  BY DEF Init, NS!Init, NS!Threads, Missed
<1>4. NS!Cached(Gateway) = FALSE
  BY DEF Init, NS!Init, NS!Cached, NS!Entries
<1>5. Status = "serves"
  BY DEF Init, NS!Init, Status
<1>6. Begun = FALSE
  BY <1>1 DEF Begun
<1> QED
  BY <1>1, <1>2, <1>3, <1>4, <1>5, <1>6 DEF Service!Init, Lost

\* What the clients see changes with the mailbox, with main's place in sendTo,
\* with the cache and with what ends the server.
LEMMA Unseen ==
    ASSUME UNCHANGED <<box, holding, answered, lost, Missed, cache, running>>,
           mainPc' = mainPc \/ (mainPc' \notin {"ended", "exited"} /\ mainPc \notin {"ended", "exited"})
                            \/ (mainPc' \in {"ended", "exited"} /\ mainPc \in {"ended", "exited"})
    PROVE  UNCHANGED Service!vars
<1>1. UNCHANGED <<Held, Begun, Lost>>
  BY DEF Held, Begun, Lost
<1>2. UNCHANGED NS!Cached(Gateway)
  BY DEF NS!Cached, NS!Entries
<1>3. UNCHANGED Status
  BY DEF Status
<1> QED
  BY <1>1, <1>2, <1>3 DEF Service!vars

\* open, bind, the loop's test, a recvFrom that returns nothing, and signals.
LEMMA MainRefines ==
    ASSUME TypeOK, OpenSocket \/ BindSocket \/ CheckTerminate \/ ReceiveNone \/ Shutdown
                   \/ Event \/ OnSignal \/ Send
    PROVE  Service!Stop \/ UNCHANGED Service!vars
<1>1. UNCHANGED <<box, holding, answered, lost, cache, running>>
  BY DEF OpenSocket, BindSocket, CheckTerminate, ReceiveNone, Shutdown, Event, OnSignal, Send,
     US!OpenSocket, US!Bind, US!Flag, netVars, socketVars, histories, NS!OutputBegin
<1>2. UNCHANGED Missed
  BY NetAssumption DEF OpenSocket, BindSocket, CheckTerminate, ReceiveNone, Shutdown, Event,
     OnSignal, Send, netVars, NS!OutputBegin, NS!Goto, Missed, TypeOK, NS!TypeOK, NS!Threads
<1>3. CASE CheckTerminate /\ mainPc' = "ended"
  <2>1. UNCHANGED <<Held, Begun, Lost>>
    BY <1>1, <1>2 DEF Held, Begun, Lost
  <2>2. UNCHANGED NS!Cached(Gateway)
    BY <1>1 DEF NS!Cached, NS!Entries
  <2>3. Status = "serves" /\ Status' = "left"
    BY <1>1, <1>3 DEF CheckTerminate, Status
  <2>4. ~Begun
    BY <1>3, HeldIs DEF CheckTerminate, Begun
  <2> QED
    BY <1>1, <2>1, <2>2, <2>3, <2>4 DEF Service!Stop
<1>4. CASE ~(CheckTerminate /\ mainPc' = "ended")
  <2>1. \/ mainPc' = mainPc
        \/ mainPc' \notin {"ended", "exited"} /\ mainPc \notin {"ended", "exited"}
        \/ mainPc' \in {"ended", "exited"} /\ mainPc \in {"ended", "exited"}
    BY <1>4 DEF OpenSocket, BindSocket, CheckTerminate, ReceiveNone, Shutdown, Event, OnSignal, Send
  <2> QED
    BY <1>1, <1>2, <2>1, Unseen
<1> QED
  BY <1>3, <1>4

\* recvFrom hands the first datagram to the loop, which cannot stop from then on.
LEMMA ReceiveRefines ==
    ASSUME TypeOK, MainSends, Receive
    PROVE  Service!Begin
<1>1. /\ mainPc = "recv" /\ mainPc' = "send" /\ holding = 0 /\ holding' \in Datagrams /\ holding' # 0
      /\ box[Socket] \in Seq(Datagrams) /\ box[Socket] # <<>>
      /\ holding' = Head(box[Socket]) /\ box'[Socket] = Tail(box[Socket])
      /\ UNCHANGED <<running, cache, pc, answered, lost>>
  BY ReceiveEffect, NetAssumption DEF Datagrams
<1>2. ~Missed /\ ~Missed'
  BY <1>1 DEF MainSends, Missed
<1>3. ~Begun /\ Begun' = TRUE
  BY <1>1, <1>2 DEF Begun
<1>4. Held = box[Socket]
  BY <1>3, HeldIs
<1>5. Held' = <<Head(box[Socket])>> \o Tail(box[Socket])
  BY <1>1, <1>3 DEF Held
<1>6. Held' = Held
  BY <1>1, <1>4, <1>5, HeadAndTail
<1>7. UNCHANGED Lost /\ UNCHANGED NS!Cached(Gateway)
  BY <1>1, <1>2 DEF Lost, NS!Cached, NS!Entries
<1>8. running
  BY ReceiveEffect
<1>9. Status = "serves" /\ UNCHANGED Status
  BY <1>1, <1>8 DEF Status
<1> QED
  BY <1>1, <1>3, <1>4, <1>6, <1>7, <1>9 DEF Service!Begin

\* ip_gen_id is unseen, and so is arpResolve when it finds the gateway; when it
\* does not, the datagram is lost from there on.
LEMMA StepRefines ==
    ASSUME TypeOK, MainSends, SendStep
    PROVE  Service!Lose \/ UNCHANGED Service!vars
<1>1. /\ running /\ pc \in [NS!Threads -> NS!Labels] /\ Main \in NS!Threads
      /\ UNCHANGED <<box, holding, answered, lost, cache, running, mainPc>>
  BY DEF SendStep, socketVars, histories, NS!GenId, NS!Resolve, TypeOK, NS!TypeOK, NS!Threads
<1>2. CASE NS!Resolve(Main) /\ ~NS!Cached(Gateway)
  <2>1. pc[Main] = "resolve" /\ pc'[Main] = "request"
    BY <1>1, <1>2 DEF NS!Resolve, NS!Goto
  <2>2. ~Missed /\ Missed' /\ mainPc = "output"
    BY <2>1 DEF Missed, MainSends
  <2>3. holding # 0 /\ holding \in Datagrams /\ Held = <<holding>> \o box[Socket]
        /\ box[Socket] \in Seq(Datagrams)
    BY <2>2, HeldIs DEF Begun
  <2>4. Held # <<>> /\ Head(Held) = holding /\ Tail(Held) = box[Socket]
    BY <2>3, Fronted
  <2>5. Held' = box[Socket] /\ Begun /\ Begun' = FALSE
    BY <1>1, <2>2, <2>3, ConcatEmptySeq DEF Held, Begun
  <2>6. Lost = lost /\ Lost' = Append(lost, holding)
    BY <1>1, <2>2 DEF Lost
  <2>7. Status = "serves" /\ UNCHANGED Status /\ UNCHANGED NS!Cached(Gateway)
    BY <1>1, <2>2 DEF Status, NS!Cached, NS!Entries
  <2>8. Service!Lose
    BY <1>1, <1>2, <2>4, <2>5, <2>6, <2>7 DEF Service!Lose
  <2> QED
    BY <2>8
<1>3. CASE ~(NS!Resolve(Main) /\ ~NS!Cached(Gateway))
  <2>1. UNCHANGED Missed
    BY <1>1, <1>3 DEF SendStep, NS!GenId, NS!Resolve, NS!Goto, Missed
  <2> QED
    BY <1>1, <2>1, Unseen
<1> QED
  BY <1>2, <1>3

\* The datagram main holds is answered when its echo is transmitted.
LEMMA DoneRefines ==
    ASSUME TypeOK, MainSends, SendDone
    PROVE  Service!Answer
<1>1. /\ running /\ pc \in [NS!Threads -> NS!Labels] /\ Main \in NS!Threads
      /\ pc[Main] = "transmit" /\ pc'[Main] = "idle" /\ mainPc' = "check" /\ holding' = 0
      /\ answered' = Append(answered, holding)
      /\ UNCHANGED <<box, lost, cache, running>>
  BY DEF SendDone, socketVars, NS!SendPacket, NS!Goto, TypeOK, NS!TypeOK, NS!Threads
<1>2. ~Missed /\ ~Missed' /\ mainPc = "output"
  BY <1>1 DEF Missed, MainSends
<1>3. holding # 0 /\ holding \in Datagrams /\ Held = <<holding>> \o box[Socket]
      /\ box[Socket] \in Seq(Datagrams)
  BY <1>2, HeldIs DEF Begun
<1>4. Held # <<>> /\ Head(Held) = holding /\ Tail(Held) = box[Socket]
  BY <1>3, Fronted
<1>5. Held' = box[Socket] /\ Begun /\ Begun' = FALSE
  BY <1>1, <1>2, <1>3, ConcatEmptySeq DEF Held, Begun
<1>6. UNCHANGED Lost
  BY <1>1, <1>2 DEF Lost
<1>7. Status = "serves" /\ UNCHANGED Status /\ UNCHANGED NS!Cached(Gateway)
  BY <1>1, <1>2 DEF Status, NS!Cached, NS!Entries
<1> QED
  BY <1>1, <1>4, <1>5, <1>6, <1>7 DEF Service!Answer

\* The catch clause writes down what was lost already.
LEMMA MissUnseen ==
    ASSUME TypeOK, MainSends, SendMiss
    PROVE  UNCHANGED Service!vars
<1>1. /\ running /\ pc \in [NS!Threads -> NS!Labels] /\ Main \in NS!Threads
      /\ pc[Main] = "request" /\ pc'[Main] = "idle" /\ mainPc' = "check" /\ holding' = 0
      /\ lost' = Append(lost, holding)
      /\ UNCHANGED <<box, answered, cache, running>>
  BY NetAssumption DEF SendMiss, socketVars, NS!SendRequest, NS!Goto, TypeOK, NS!TypeOK, NS!Threads
<1>2. Missed /\ ~Missed' /\ mainPc = "output"
  BY <1>1 DEF Missed, MainSends
<1>3. /\ Begun = FALSE /\ Begun' = FALSE
      /\ box[Socket] \in Seq(Datagrams) /\ Held = box[Socket]
  BY <1>1, <1>2, HeldIs DEF Begun
<1>4. Held' = Held
  BY <1>1, <1>3, ConcatEmptySeq DEF Held
<1>5. UNCHANGED <<Lost, Status>> /\ UNCHANGED NS!Cached(Gateway)
  BY <1>1, <1>2 DEF Lost, Status, NS!Cached, NS!Entries
<1> QED
  BY <1>1, <1>3, <1>4, <1>5 DEF Service!vars

\* A datagram that UdpHandler finds a socket for is accepted, with a number above
\* those of all the others.
LEMMA ArrivesRefines ==
    ASSUME TypeOK, AllArrived, NEW f \in NS!IpFrames, NEW port \in Ports, DatagramArrives(f, port)
    PROVE  (\E d \in Datagrams : Service!Accept(d)) \/ UNCHANGED Service!vars
<1>1. /\ arrived + 1 \in Datagrams
      /\ box'[Socket] = Append(box[Socket], arrived + 1) \/ box'[Socket] = box[Socket]
      /\ UNCHANGED <<running, cache, pc, mainPc, holding, answered, lost>>
  BY ArrivesEffect
<1>2. /\ UNCHANGED <<Missed, Begun, Lost, Status>> /\ UNCHANGED NS!Cached(Gateway)
      /\ Status # "crashed"
  <2>1. running
    BY ArrivesEffect
  <2> QED
    BY <1>1, <2>1 DEF Missed, Begun, Lost, Status, NS!Cached, NS!Entries
<1>3. CASE box'[Socket] = box[Socket]
  <2>1. UNCHANGED Held
    BY <1>1, <1>2, <1>3 DEF Held
  <2> QED
    BY <1>1, <1>2, <2>1 DEF Service!vars
<1>4. CASE box'[Socket] = Append(box[Socket], arrived + 1)
  <2>1. Held' = Append(Held, arrived + 1)
    <3>1. box[Socket] \in Seq(Datagrams) /\ Append(box[Socket], arrived + 1) \in Seq(Datagrams)
      BY <1>1, HeldIs, AppendProperties
    <3>2. CASE Begun
      <4>1. holding \in Datagrams /\ Held = <<holding>> \o box[Socket]
        BY <3>2, HeldIs DEF Begun
      <4>2. Held' = <<holding>> \o Append(box[Socket], arrived + 1)
        BY <1>1, <1>2, <1>4, <3>2 DEF Held
      <4>3. PICK h \in Datagrams, b \in Seq(Datagrams), d \in Datagrams :
               h = holding /\ b = box[Socket] /\ d = arrived + 1
        BY <1>1, <3>1, <4>1
      <4>4. Append(<<h>> \o b, d) = <<h>> \o Append(b, d)
        BY Fronted
      <4> QED
        BY <4>1, <4>2, <4>3, <4>4
    <3>3. CASE ~Begun
      <4>1. Held = box[Socket]
        BY <3>3, HeldIs
      <4>2. Held' = <<>> \o Append(box[Socket], arrived + 1)
        BY <1>1, <1>2, <1>4, <3>3 DEF Held
      <4> QED
        BY <3>1, <4>1, <4>2, ConcatEmptySeq
    <3> QED
      BY <3>2, <3>3
  <2>2. Service!Accept(arrived + 1)
    BY <1>1, <1>2, <2>1, AcceptedArrived DEF Service!Accept
  <2> QED
    BY <1>1, <2>2
<1> QED
  BY <1>1, <1>3, <1>4

\* Another frame may tell the server of the gateway or end it, not both.
LEMMA FrameRefines ==
    ASSUME NSP!IInv, TypeOK, [Next]_vars, OtherFrame \/ FrameStep
    PROVE  Service!Learn \/ Service!Crash \/ UNCHANGED Service!vars
<1>1. pc'[Main] = pc[Main] /\ UNCHANGED <<mainPc, holding, answered, lost, box>>
  BY MainUndisturbed DEF OtherFrame, FrameStep, socketVars
<1>2. UNCHANGED <<Missed, Begun, Held, Lost>>
  BY <1>1 DEF Missed, Begun, Held, Lost
<1>3. /\ NS!Cached(Gateway) => NS!Cached(Gateway)'
      /\ running' # running => ~running' /\ UNCHANGED cache
  BY StepsOfNet, NetMonotone
<1>4. NS!Cached(Gateway) \in BOOLEAN /\ NS!Cached(Gateway)' \in BOOLEAN
  BY DEF NS!Cached
<1>5. CASE running' = running
  <2>1. UNCHANGED Status
    BY <1>1, <1>5 DEF Status
  <2>2. CASE UNCHANGED NS!Cached(Gateway)
    BY <1>1, <1>2, <2>1, <2>2 DEF Service!vars
  <2>3. CASE NS!Cached(Gateway)' = TRUE
    <3>1. running
      BY DEF OtherFrame, FrameStep, NS!ArpHandle, NS!ArpCreate, NS!ArpReply, NS!IpArrives,
         NS!IpReject, NS!IcmpEcho, NS!IpConsume, NS!Output, NS!OutputBegin, NS!GenId,
         NS!Resolve, NS!SendPacket, NS!SendRequest
    <3>2. Status # "crashed"
      BY <3>1 DEF Status
    <3> QED
      BY <1>1, <1>2, <2>1, <2>3, <3>2 DEF Service!Learn
  <2> QED
    BY <1>3, <1>4, <2>2, <2>3
<1>6. CASE running' # running
  <2>1. Status' = "crashed"
    BY <1>3, <1>6 DEF Status
  <2>2. UNCHANGED NS!Cached(Gateway)
    BY <1>3, <1>6 DEF NS!Cached, NS!Entries
  <2> QED
    BY <1>1, <1>2, <2>1, <2>2 DEF Service!Crash
<1> QED
  BY <1>5, <1>6

\* Every step of the server is one of the service, or unseen by its clients.
LEMMA ServiceStep == IInv /\ [Next]_vars => [Service!Next]_(Service!vars)
<1> SUFFICES ASSUME NSP!IInv, TypeOK, MainSends, AllArrived, [Next]_vars
             PROVE  [Service!Next]_(Service!vars)
  BY DEF IInv
<1>1. CASE OpenSocket \/ BindSocket \/ CheckTerminate \/ ReceiveNone \/ Shutdown \/ Event
           \/ OnSignal \/ Send
  BY <1>1, MainRefines DEF Service!Next
<1>2. CASE Receive
  BY <1>2, ReceiveRefines DEF Service!Next
<1>3. CASE SendStep
  BY <1>3, StepRefines DEF Service!Next
<1>4. CASE SendDone
  BY <1>4, DoneRefines DEF Service!Next
<1>5. CASE SendMiss
  BY <1>5, MissUnseen
<1>6. ASSUME NEW f \in NS!IpFrames, NEW port \in Ports, DatagramArrives(f, port)
      PROVE  [Service!Next]_(Service!vars)
  BY <1>6, ArrivesRefines DEF Service!Next
<1>7. CASE OtherFrame \/ FrameStep
  BY <1>7, FrameRefines DEF Service!Next
<1>8. CASE UNCHANGED vars
  <2>1. UNCHANGED Missed
    BY <1>8 DEF vars, netVars, Missed
  <2> QED
    BY <1>8, <2>1, Unseen DEF vars, netVars, socketVars, histories
<1> QED
  BY <1>1, <1>2, <1>3, <1>4, <1>5, <1>6, <1>7, <1>8 DEF Next, MainStep

\* Datagrams are answered in the order they arrived, each at most once, and none
\* is lost once the gateway is known, for any number of them and of frames of
\* every other kind.
THEOREM EchoServiceImplemented == Spec => ImplementsEchoService
<1>1. Init => Service!Init
  BY ServiceInit
<1>2. IInv /\ [Next]_vars => [Service!Next]_(Service!vars)
  BY ServiceStep
<1> QED
  BY <1>1, <1>2, Inductive, PTL DEF Spec, ImplementsEchoService, Service!Spec
=============================================================================
