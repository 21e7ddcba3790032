--------------------------- MODULE UdpSocketProofs ---------------------------
(***************************************************************************)
(* Proofs about UdpSocket, for every table size, port range, set of callers *)
(* and addresses, and every bound on datagrams and events.                 *)
(***************************************************************************)
EXTENDS UdpSocket, FiniteSetTheorems, SequenceTheorems, TLAPS

\* What is known between the two halves of a call or of an upcall.
CallsReady ==
    /\ \A t \in Callers :
          /\ pc[t] \in {"bind_pcb", "send_pcb"} => state[sock[t]] = "OPEN"
          /\ pc[t] = "bind_pcb" => SelectsNone(bindArg[t].addr, bindArg[t].port)
          /\ pc[t] = "recv_take" => RecvReady(sock[t])
    /\ pc[IntrThread] \in {"in_pcb", "in_push"} => arrivals > 0

\* A port once chosen by sendTo is a port of an open socket, and not 0.
ChosenPorts ==
    \A p \in autoBound : state[p] = "OPEN" /\ endpoint[p].port # 0

IInv ==
    /\ TypeOK
    /\ MutexOwners
    /\ CallsReady
    /\ ChosenPorts
    /\ DeliveredWhereBound
    /\ UniqueEndpoints
    /\ AnswersReachSender
    /\ NoSleepOnDatagram

-----------------------------------------------------------------------------
\* The loop variable of sendTo is always a uint16_t.
LEMMA TriedPortType == \A n \in Nat : TriedPort(n) \in Ports
BY PortAssumption DEF TriedPort, Ports

\* What Init, alloc and a returning call store has its type.
LEMMA Defaults == 0 \in Pcbs /\ Unbound \in Endpoints
BY TableAssumption, PortAssumption DEF Pcbs, Unbound, Endpoints, Addrs, Ports

\* The elements select passes on its way to p are control blocks.
LEMMA LowerPcbs ==
    ASSUME NEW p \in Pcbs, NEW q \in 0..(p - 1)
    PROVE  q \in Pcbs /\ q # p
BY TableAssumption DEF Pcbs

\* The constructor's table satisfies the invariant.
LEMMA InitIInv == Init => IInv
<1> SUFFICES ASSUME Init PROVE IInv
  OBVIOUS
<1> USE DEF Init
<1>1. TypeOK
  BY TableAssumption, PortAssumption, ThreadAssumption, BoundAssumption
  DEF TypeOK, Pcbs, Ports, Addrs, Threads, Endpoints, Unbound, Labels, IntrLabels
<1>2. MutexOwners
  BY ThreadAssumption DEF MutexOwners, Threads
<1>3. CallsReady /\ ChosenPorts /\ DeliveredWhereBound /\ AnswersReachSender /\ NoSleepOnDatagram
  BY ThreadAssumption DEF CallsReady, ChosenPorts, DeliveredWhereBound,
     AnswersReachSender, NoSleepOnDatagram, Threads
<1>4. UniqueEndpoints
  BY DEF UniqueEndpoints
<1> QED
  BY <1>1, <1>2, <1>3, <1>4 DEF IInv

-----------------------------------------------------------------------------
(* The steps: each conjunct is kept by every action. *)

\* Every action of callers and upcalls keeps the types.
LEMMA TypeStep == TypeOK /\ CallsReady /\ [Next]_vars => TypeOK'
<1> SUFFICES ASSUME TypeOK, CallsReady, [Next]_vars PROVE TypeOK'
  OBVIOUS
<1> USE TableAssumption, PortAssumption, ThreadAssumption, BoundAssumption
    DEF TypeOK, Threads, Labels, IntrLabels, callVars, intrVars, history, Move
<1>1. ASSUME NEW t \in Callers, NEW p \in Pcbs, Open(t, p) PROVE TypeOK'
  BY <1>1 DEF Open, Unbound, Endpoints, Ports, Addrs
<1>2. ASSUME NEW t \in Callers, NEW p \in Pcbs, NEW addr \in Addrs,
             NEW port \in BindPorts,
             BindSelect(t, p, [addr |-> addr, port |-> port])
      PROVE TypeOK'
  BY <1>2 DEF BindSelect, Endpoints, Ports
<1>3. ASSUME NEW t \in Callers, BindStore(t) PROVE TypeOK'
  <2>1. endpoint' \in [Pcbs -> Endpoints]
    BY <1>3 DEF BindStore
  <2>2. sock' \in [Callers -> Pcbs] /\ bindArg' \in [Callers -> Endpoints]
    BY <1>3, Defaults DEF BindStore, Return
  <2> QED
    BY <1>3, <2>1, <2>2 DEF BindStore, Return
<1>4. ASSUME NEW t \in Callers, NEW p \in Pcbs, SendLock(t, p) PROVE TypeOK'
  BY <1>4 DEF SendLock
<1>5. ASSUME NEW t \in Callers, SendLocal(t) PROVE TypeOK'
  <2>1. endpoint' \in [Pcbs -> Endpoints]
    <3>1. CASE UNCHANGED endpoint
      BY <3>1
    <3>2. ASSUME NEW n \in 0..MaxPort,
                 endpoint' = [endpoint EXCEPT ![sock[t]].port = TriedPort(n)]
          PROVE endpoint' \in [Pcbs -> Endpoints]
      <4>1. TriedPort(n) \in Ports /\ endpoint[sock[t]] \in Endpoints
        BY TriedPortType
      <4>2. [endpoint[sock[t]] EXCEPT !.port = TriedPort(n)] \in Endpoints
        BY <4>1 DEF Endpoints
      <4> QED
        BY <3>2, <4>2
    <3> QED
      BY <1>5, <3>1, <3>2 DEF SendLocal
  <2>2. sock' \in [Callers -> Pcbs] /\ bindArg' \in [Callers -> Endpoints]
    BY <1>5, Defaults DEF SendLocal, Return
  <2>3. autoBound' \subseteq Pcbs
    BY <1>5 DEF SendLocal
  <2> QED
    BY <1>5, <2>1, <2>2, <2>3 DEF SendLocal, Return
<1>6. ASSUME NEW t \in Callers, NEW p \in Pcbs, RecvGet(t, p) PROVE TypeOK'
  BY <1>6 DEF RecvGet
<1>7. ASSUME NEW t \in Callers, RecvTest(t) PROVE TypeOK'
  BY <1>7 DEF RecvTest
<1>8. ASSUME NEW t \in Callers, RecvBlock(t) PROVE TypeOK'
  BY <1>8 DEF RecvBlock
<1>9. ASSUME NEW t \in Callers, RecvSpurious(t) PROVE TypeOK'
  BY <1>9 DEF RecvSpurious
<1>10. ASSUME NEW t \in Callers, RecvTake(t) PROVE TypeOK'
  <2>1. sock' \in [Callers -> Pcbs] /\ bindArg' \in [Callers -> Endpoints]
    BY <1>10, Defaults DEF RecvTake, Return
  <2>2. que' \in [Pcbs -> Seq(1..MaxArrivals)] /\ received' \in [Pcbs -> Seq(1..MaxArrivals)]
    <3> DEFINE p == sock[t]
    <3>1. CASE UNCHANGED <<que, received>>
      BY <3>1
    <3>2. CASE ~interrupted[p]
      <4>1. que[p] # <<>> /\ que[p] \in Seq(1..MaxArrivals)
        BY <1>10, <3>2 DEF RecvTake, CallsReady, RecvReady
      <4>2. Head(que[p]) \in 1..MaxArrivals /\ Tail(que[p]) \in Seq(1..MaxArrivals)
        BY <4>1, HeadTailProperties
      <4>3. Append(received[p], Head(que[p])) \in Seq(1..MaxArrivals)
        BY <4>2
      <4>4. /\ received' = [received EXCEPT ![p] = Append(received[p], Head(que[p]))]
            /\ que' = [que EXCEPT ![p] = Tail(que[p])]
        BY <1>10, <3>2 DEF RecvTake
      <4> HIDE DEF p
      <4> QED
        BY <4>2, <4>3, <4>4
    <3> QED
      BY <1>10, <3>1, <3>2 DEF RecvTake
  <2> QED
    BY <1>10, <2>1, <2>2 DEF RecvTake, Return
<1>11. ASSUME NEW port \in Ports, HandleNone(port) PROVE TypeOK'
  BY <1>11 DEF HandleNone
<1>12. ASSUME NEW port \in Ports, NEW p \in Pcbs, HandleSelect(p, port) PROVE TypeOK'
  BY <1>12 DEF HandleSelect, Pcbs
<1>13. CASE HandleLock
  BY <1>13 DEF HandleLock
<1>14. CASE HandlePush
  <2>1. que' \in [Pcbs -> Seq(1..MaxArrivals)]
    <3>1. arrivals \in 1..MaxArrivals /\ target \in Pcbs
      BY <1>14 DEF HandlePush, CallsReady
    <3>2. Append(que[target], arrivals) \in Seq(1..MaxArrivals)
      BY <3>1
    <3> QED
      BY <1>14, <3>1, <3>2 DEF HandlePush
  <2>2. pc' \in [Threads -> Labels \cup IntrLabels]
        /\ pc'[IntrThread] = "idle"
        /\ \A t \in Callers : pc'[t] \in Labels
    BY <1>14 DEF HandlePush, NotifyAll
  <2>3. target' = 0 /\ target' \in Pcbs /\ dstPort' \in Ports
    BY <1>14, Defaults DEF HandlePush, Ports
  <2> QED
    BY <1>14, <2>1, <2>2, <2>3 DEF HandlePush
<1>15. CASE EventBegin
  BY <1>15 DEF EventBegin, Pcbs
<1>16. CASE EventScan
  <2>1. target' \in 0..NumPcbs
    <3>1. target' \in {0, target} \/ (target < NumPcbs /\ target' = target + 1)
      BY <1>16 DEF EventScan
    <3> QED
      BY <3>1
  <2>2. pc'[IntrThread] # "ev_scan" => target' \in Pcbs
    <3>1. pc'[IntrThread] # "ev_scan" =>
             target' = 0 \/ (target < NumPcbs /\ target' = target)
      BY <1>16 DEF EventScan
    <3>2. target < NumPcbs => target \in Pcbs
      BY DEF Pcbs
    <3> QED
      BY <3>1, <3>2, Defaults
  <2>3. pc' \in [Threads -> Labels \cup IntrLabels]
        /\ pc'[IntrThread] \in IntrLabels
        /\ \A t \in Callers : pc'[t] \in Labels
    BY <1>16 DEF EventScan
  <2> QED
    BY <1>16, <2>1, <2>2, <2>3 DEF EventScan
<1>17. CASE EventTouch
  BY <1>17 DEF EventTouch
<1>18. CASE EventFlag
  BY <1>18 DEF EventFlag
<1>19. CASE EventNotify
  BY <1>19 DEF EventNotify, NotifyAll, Pcbs
<1>20. CASE UNCHANGED vars
  BY <1>20 DEF vars
<1> QED
  BY <1>1, <1>2, <1>3, <1>4, <1>5, <1>6, <1>7, <1>8, <1>9, <1>10, <1>11, <1>12,
     <1>13, <1>14, <1>15, <1>16, <1>17, <1>18, <1>19, <1>20
  DEF Next, Call, Continue, Input, Upcall

\* Who holds which mutex.
LEMMA MutexStep == TypeOK /\ MutexOwners /\ [Next]_vars => MutexOwners'
<1> SUFFICES ASSUME TypeOK, MutexOwners, [Next]_vars PROVE MutexOwners'
  OBVIOUS
<1> USE ThreadAssumption
    DEF TypeOK, MutexOwners, Block, Threads, callVars, intrVars, history, Move
<1>1. ASSUME NEW t \in Callers, NEW p \in Pcbs, Open(t, p) PROVE MutexOwners'
  BY <1>1 DEF Open
<1>2. ASSUME NEW t \in Callers, NEW p \in Pcbs, NEW addr \in Addrs,
             NEW port \in BindPorts,
             BindSelect(t, p, [addr |-> addr, port |-> port])
      PROVE MutexOwners'
  BY <1>2 DEF BindSelect
<1>3. ASSUME NEW t \in Callers, BindStore(t) PROVE MutexOwners'
  BY <1>3 DEF BindStore, Return
<1>4. ASSUME NEW t \in Callers, NEW p \in Pcbs, SendLock(t, p) PROVE MutexOwners'
  BY <1>4 DEF SendLock
<1>5. ASSUME NEW t \in Callers, SendLocal(t) PROVE MutexOwners'
  BY <1>5 DEF SendLocal, Return
<1>6. ASSUME NEW t \in Callers, NEW p \in Pcbs, RecvGet(t, p) PROVE MutexOwners'
  BY <1>6 DEF RecvGet
<1>7. ASSUME NEW t \in Callers, RecvTest(t) PROVE MutexOwners'
  BY <1>7 DEF RecvTest
<1>8. ASSUME NEW t \in Callers, RecvBlock(t) PROVE MutexOwners'
  BY <1>8 DEF RecvBlock
<1>9. ASSUME NEW t \in Callers, RecvSpurious(t) PROVE MutexOwners'
  BY <1>9 DEF RecvSpurious
<1>10. ASSUME NEW t \in Callers, RecvTake(t) PROVE MutexOwners'
  BY <1>10 DEF RecvTake, Return
<1>11. ASSUME NEW port \in Ports, HandleNone(port) PROVE MutexOwners'
  BY <1>11 DEF HandleNone
<1>12. ASSUME NEW port \in Ports, NEW p \in Pcbs, HandleSelect(p, port) PROVE MutexOwners'
  <2>1. /\ mgrMutex = NoThread /\ mgrMutex' = IntrThread
        /\ pc[IntrThread] = "idle"
        /\ pc' = [pc EXCEPT ![IntrThread] = "in_pcb"]
        /\ UNCHANGED <<pcbMutex, sock>>
    BY <1>12 DEF HandleSelect
  <2> QED
    BY <2>1
<1>13. CASE HandleLock
  BY <1>13 DEF HandleLock
<1>14. CASE HandlePush
  BY <1>14 DEF HandlePush, NotifyAll, Sleepers
<1>15. CASE EventBegin
  BY <1>15 DEF EventBegin
<1>16. CASE EventScan
  <2>1. /\ pc[IntrThread] = "ev_scan"
        /\ pc' = [pc EXCEPT ![IntrThread] = pc'[IntrThread]]
        /\ pc'[IntrThread] \in {"idle", "ev_touch", "ev_scan"}
        /\ UNCHANGED <<mgrMutex, pcbMutex, sock>>
    BY <1>16 DEF EventScan
  <2> QED
    BY <2>1
<1>17. CASE EventTouch
  BY <1>17 DEF EventTouch
<1>18. CASE EventFlag
  BY <1>18 DEF EventFlag
<1>19. CASE EventNotify
  BY <1>19 DEF EventNotify, NotifyAll, Sleepers
<1>20. CASE UNCHANGED vars
  BY <1>20 DEF vars
<1> QED
  BY <1>1, <1>2, <1>3, <1>4, <1>5, <1>6, <1>7, <1>8, <1>9, <1>10, <1>11, <1>12,
     <1>13, <1>14, <1>15, <1>16, <1>17, <1>18, <1>19, <1>20
  DEF Next, Call, Continue, Input, Upcall

-----------------------------------------------------------------------------
\* What can happen to the table, and to whom.

\* Only open, the store of bind and the second half of sendTo touch states and
\* endpoints.
LEMMA TableSteps ==
    [Next]_vars =>
        \/ UNCHANGED <<state, endpoint, autoBound>>
        \/ \E t \in Callers, p \in Pcbs : Open(t, p)
        \/ \E t \in Callers : BindStore(t)
        \/ \E t \in Callers : SendLocal(t)
BY DEF Next, Call, Continue, Input, Upcall, vars, history, BindSelect, SendLock,
   RecvGet, RecvTest, RecvBlock, RecvSpurious, RecvTake, HandleNone, HandleSelect,
   HandleLock, HandlePush, EventBegin, EventScan, EventTouch, EventFlag, EventNotify

\* sendTo leaves the endpoint alone or gives it a port nobody covers; that port
\* is not 0, for the socket itself covers 0 until then.
LEMMA SendLocalEffect ==
    ASSUME TypeOK, CallsReady, NEW t \in Callers, SendLocal(t)
    PROVE  LET p == sock[t] IN
           /\ UNCHANGED state
           /\ state[p] = "OPEN"
           /\ mgrMutex' = NoThread /\ pcbMutex[p] = NoThread
           /\ \/ UNCHANGED <<endpoint, autoBound>>
              \/ \E port \in Ports \ {0} :
                    /\ endpoint[p].port = 0
                    /\ SelectsNone(LocalAddr(p), port)
                    /\ endpoint' = [endpoint EXCEPT ![p] = [addr |-> endpoint[p].addr, port |-> port]]
                    /\ autoBound' = autoBound \cup {p}
<1> DEFINE p == sock[t]
<1>1. p \in Pcbs /\ endpoint[p] \in Endpoints /\ state[p] = "OPEN"
  BY DEF TypeOK, CallsReady, SendLocal
<1>2. UNCHANGED state /\ mgrMutex' = NoThread /\ pcbMutex[p] = NoThread
  BY DEF SendLocal
<1>3. ASSUME NEW n \in 0..MaxPort,
             endpoint[p].port = 0,
             SelectsNone(LocalAddr(p), TriedPort(n)),
             endpoint' = [endpoint EXCEPT ![p].port = TriedPort(n)]
      PROVE  /\ TriedPort(n) \in Ports \ {0}
             /\ endpoint' = [endpoint EXCEPT ![p] = [addr |-> endpoint[p].addr, port |-> TriedPort(n)]]
  <2>1. TriedPort(n) \in Ports
    BY TriedPortType, PortAssumption
  <2>2. Matches(p, LocalAddr(p), 0)
    BY <1>1, <1>3 DEF Matches, LocalAddr
  <2>3. TriedPort(n) # 0
    BY <1>1, <1>3, <2>2 DEF SelectsNone
  <2>4. [endpoint[p] EXCEPT !.port = TriedPort(n)]
          = [addr |-> endpoint[p].addr, port |-> TriedPort(n)]
    BY <1>1 DEF Endpoints
  <2> QED
    BY <1>3, <2>1, <2>3, <2>4
<1>4. \/ UNCHANGED <<endpoint, autoBound>>
      \/ /\ endpoint[p].port = 0
         /\ \E n \in 0..MaxPort :
               /\ SelectsNone(LocalAddr(p), TriedPort(n))
               /\ endpoint' = [endpoint EXCEPT ![p].port = TriedPort(n)]
         /\ autoBound' = autoBound \cup {p}
  BY DEF SendLocal
<1> HIDE DEF p
<1>5. \/ UNCHANGED <<endpoint, autoBound>>
      \/ \E port \in Ports \ {0} :
            /\ endpoint[p].port = 0
            /\ SelectsNone(LocalAddr(p), port)
            /\ endpoint' = [endpoint EXCEPT ![p] = [addr |-> endpoint[p].addr, port |-> port]]
            /\ autoBound' = autoBound \cup {p}
  BY <1>3, <1>4
<1> QED
  BY <1>1, <1>2, <1>5 DEF p

\* bind stores an endpoint nobody covers.
LEMMA BindStoreEffect ==
    ASSUME TypeOK, CallsReady, NEW t \in Callers, BindStore(t)
    PROVE  LET p == sock[t] IN
           /\ UNCHANGED state
           /\ state[p] = "OPEN"
           /\ mgrMutex' = NoThread /\ pcbMutex[p] = NoThread
           /\ SelectsNone(bindArg[t].addr, bindArg[t].port)
           /\ endpoint' = [endpoint EXCEPT ![p] = bindArg[t]]
           /\ autoBound' = autoBound \ {p}
BY DEF TypeOK, CallsReady, BindStore

\* Ports chosen by sendTo stay ports of open sockets until bind replaces them.
LEMMA ChosenStep == TypeOK /\ CallsReady /\ ChosenPorts /\ [Next]_vars => ChosenPorts'
<1> SUFFICES ASSUME TypeOK, CallsReady, ChosenPorts, [Next]_vars PROVE ChosenPorts'
  OBVIOUS
<1> USE DEF TypeOK, ChosenPorts
<1>1. CASE UNCHANGED <<state, endpoint, autoBound>>
  BY <1>1
<1>2. ASSUME NEW t \in Callers, NEW p \in Pcbs, Open(t, p) PROVE ChosenPorts'
  BY <1>2 DEF Open, history
<1>3. ASSUME NEW t \in Callers, BindStore(t) PROVE ChosenPorts'
  BY <1>3, BindStoreEffect
<1>4. ASSUME NEW t \in Callers, SendLocal(t) PROVE ChosenPorts'
  <2>1. CASE UNCHANGED <<endpoint, autoBound>>
    BY <1>4, <2>1, SendLocalEffect
  <2>2. ASSUME NEW port \in Ports \ {0},
               endpoint' = [endpoint EXCEPT ![sock[t]] = [addr |-> endpoint[sock[t]].addr, port |-> port]],
               autoBound' = autoBound \cup {sock[t]}
        PROVE ChosenPorts'
    <3>1. UNCHANGED state /\ state[sock[t]] = "OPEN" /\ sock[t] \in Pcbs
      BY <1>4, SendLocalEffect
    <3> QED
      BY <2>2, <3>1
  <2> QED
    BY <1>4, <2>1, <2>2, SendLocalEffect
<1> QED
  BY <1>1, <1>2, <1>3, <1>4, TableSteps

\* An endpoint given to one socket while no socket covers it is shared with
\* none: the socket that has it would cover it.
LEMMA GivenOnce ==
    ASSUME TypeOK, UniqueEndpoints, UNCHANGED state,
           NEW s \in Pcbs, NEW ep \in Endpoints, NEW addr \in Addrs,
           ep.addr \in {AnyAddr, addr},
           SelectsNone(addr, ep.port),
           endpoint' = [endpoint EXCEPT ![s] = ep]
    PROVE  UniqueEndpoints'
<1> USE DEF TypeOK
<1>1. ASSUME NEW q \in Pcbs, state[q] = "OPEN" PROVE endpoint[q] # ep
  BY <1>1 DEF SelectsNone, Matches
<1>2. endpoint'[s] = ep /\ \A q \in Pcbs : q # s => endpoint'[q] = endpoint[q]
  OBVIOUS
<1> SUFFICES ASSUME NEW p \in Pcbs, NEW q \in Pcbs, p # q,
                    state[p] = "OPEN", state[q] = "OPEN", endpoint'[p] = endpoint'[q]
             PROVE  endpoint'[p] = Unbound
  BY DEF UniqueEndpoints
<1>3. p # s /\ q # s
  BY <1>1, <1>2
<1> QED
  BY <1>2, <1>3 DEF UniqueEndpoints

\* No two sockets come to one endpoint.
LEMMA UniqueStep == TypeOK /\ CallsReady /\ UniqueEndpoints /\ [Next]_vars => UniqueEndpoints'
<1> SUFFICES ASSUME TypeOK, CallsReady, UniqueEndpoints, [Next]_vars PROVE UniqueEndpoints'
  OBVIOUS
<1>1. CASE UNCHANGED <<state, endpoint, autoBound>>
  BY <1>1 DEF UniqueEndpoints
<1>2. ASSUME NEW t \in Callers, NEW p \in Pcbs, Open(t, p) PROVE UniqueEndpoints'
  BY <1>2 DEF Open, TypeOK, UniqueEndpoints
<1>3. ASSUME NEW t \in Callers, BindStore(t) PROVE UniqueEndpoints'
  <2>1. sock[t] \in Pcbs /\ bindArg[t] \in Endpoints
    BY DEF TypeOK
  <2>2. PICK s \in Pcbs, ep \in Endpoints : s = sock[t] /\ ep = bindArg[t]
    BY <2>1
  <2>3. /\ UNCHANGED state
        /\ SelectsNone(ep.addr, ep.port)
        /\ endpoint' = [endpoint EXCEPT ![s] = ep]
    BY <1>3, <2>2, BindStoreEffect
  <2>4. ep.addr \in Addrs
    BY DEF Endpoints
  <2> QED
    BY <2>3, <2>4, GivenOnce
<1>4. ASSUME NEW t \in Callers, SendLocal(t) PROVE UniqueEndpoints'
  <2>1. CASE UNCHANGED <<state, endpoint>>
    BY <2>1 DEF UniqueEndpoints
  <2>2. ASSUME NEW port \in Ports \ {0},
               UNCHANGED state,
               SelectsNone(LocalAddr(sock[t]), port),
               endpoint' = [endpoint EXCEPT ![sock[t]] = [addr |-> endpoint[sock[t]].addr, port |-> port]]
        PROVE UniqueEndpoints'
    <3> DEFINE ep == [addr |-> endpoint[sock[t]].addr, port |-> port]
    <3>1. /\ sock[t] \in Pcbs /\ ep \in Endpoints /\ ep.port = port
          /\ LocalAddr(sock[t]) \in Addrs
      BY DEF TypeOK, Endpoints, LocalAddr, Addrs
    <3>2. ep.addr \in {AnyAddr, LocalAddr(sock[t])}
      BY DEF LocalAddr
    <3>3. SelectsNone(LocalAddr(sock[t]), ep.port) /\ endpoint' = [endpoint EXCEPT ![sock[t]] = ep]
      BY <2>2
    <3> HIDE DEF ep
    <3>4. PICK s \in Pcbs, e \in Endpoints, a \in Addrs : s = sock[t] /\ e = ep /\ a = LocalAddr(sock[t])
      BY <3>1
    <3> QED
      BY <2>2, <3>1, <3>2, <3>3, <3>4, GivenOnce
  <2> QED
    BY <1>4, <2>1, <2>2, SendLocalEffect
<1> QED
  BY <1>1, <1>2, <1>3, <1>4, TableSteps

\* A wildcard socket with a chosen port keeps being the one selected for it when
\* another socket is given an endpoint no socket covers: that endpoint has
\* another port.
LEMMA GivenElsewhere ==
    ASSUME TypeOK, ChosenPorts, AnswersReachSender, UNCHANGED state,
           NEW s \in Pcbs, NEW ep \in Endpoints, NEW addr \in Addrs,
           SelectsNone(addr, ep.port),
           endpoint' = [endpoint EXCEPT ![s] = ep],
           NEW p \in autoBound, p # s, endpoint'[p].addr = AnyAddr
    PROVE  Selects(p, IfAddr, endpoint[p].port)'
<1> USE DEF TypeOK
<1>1. /\ p \in Pcbs /\ state[p] = "OPEN"
      /\ endpoint'[p] = endpoint[p] /\ endpoint[p].addr = AnyAddr
  BY DEF ChosenPorts
<1>2. Selects(p, IfAddr, endpoint[p].port)
  BY <1>1 DEF AnswersReachSender
<1>3. ep.port # endpoint[p].port
  BY <1>1 DEF SelectsNone, Matches
<1>4. Matches(p, IfAddr, endpoint[p].port)'
  BY <1>1 DEF Matches
<1>5. ASSUME NEW q \in 0..(p - 1) PROVE ~Matches(q, IfAddr, endpoint[p].port)'
  <2>1. q \in Pcbs
    BY <1>1, LowerPcbs
  <2>2. CASE q = s
    BY <1>1, <1>3, <2>1, <2>2 DEF Matches
  <2>3. CASE q # s
    BY <1>1, <1>2, <2>1, <2>3 DEF Selects, Matches
  <2> QED
    BY <2>2, <2>3
<1> QED
  BY <1>4, <1>5 DEF Selects

\* A socket found for its chosen port is still found after any step.
LEMMA AnswersStep ==
    TypeOK /\ CallsReady /\ ChosenPorts /\ AnswersReachSender /\ [Next]_vars
        => AnswersReachSender'
<1> SUFFICES ASSUME TypeOK, CallsReady, ChosenPorts, AnswersReachSender, [Next]_vars,
                    NEW p \in autoBound', endpoint'[p].addr = AnyAddr
             PROVE  Selects(p, IfAddr, endpoint[p].port)'
  BY DEF AnswersReachSender
<1>1. CASE UNCHANGED <<state, endpoint, autoBound>>
  BY <1>1 DEF AnswersReachSender, Selects, Matches
<1>2. ASSUME NEW t \in Callers, NEW s \in Pcbs, Open(t, s)
      PROVE  Selects(p, IfAddr, endpoint[p].port)'
  <2>1. /\ p \in autoBound /\ p \in Pcbs /\ p # s /\ state[p] = "OPEN"
        /\ endpoint'[p] = endpoint[p] /\ endpoint[p].port # 0
    BY <1>2 DEF Open, history, ChosenPorts, TypeOK
  <2>2. Selects(p, IfAddr, endpoint[p].port)
    BY <2>1 DEF AnswersReachSender
  <2>3. \A q \in 0..(p - 1) : q \in Pcbs
    BY <2>1, LowerPcbs
  <2> QED
    BY <1>2, <2>1, <2>2, <2>3 DEF Open, Selects, Matches, TypeOK, Unbound
<1>3. ASSUME NEW t \in Callers, BindStore(t)
      PROVE  Selects(p, IfAddr, endpoint[p].port)'
  <2>1. PICK s \in Pcbs, ep \in Endpoints : s = sock[t] /\ ep = bindArg[t]
    BY DEF TypeOK
  <2>2. ep.addr \in Addrs
    BY DEF Endpoints
  <2>3. /\ UNCHANGED state /\ p \in autoBound /\ p # s
        /\ SelectsNone(ep.addr, ep.port)
        /\ endpoint' = [endpoint EXCEPT ![s] = ep]
    BY <1>3, <2>1, BindStoreEffect
  <2> QED
    BY <2>2, <2>3, GivenElsewhere
<1>4. ASSUME NEW t \in Callers, SendLocal(t)
      PROVE  Selects(p, IfAddr, endpoint[p].port)'
  <2>1. CASE UNCHANGED <<endpoint, autoBound>>
    BY <1>4, <2>1, SendLocalEffect DEF AnswersReachSender, Selects, Matches
  <2>2. ASSUME NEW port \in Ports \ {0}, NEW s \in Pcbs, NEW addr \in Addrs, NEW ep \in Endpoints,
               s = sock[t], addr = LocalAddr(s), ep = [addr |-> endpoint[s].addr, port |-> port],
               SelectsNone(addr, port),
               endpoint' = [endpoint EXCEPT ![s] = ep],
               autoBound' = autoBound \cup {s}
        PROVE  Selects(p, IfAddr, endpoint[p].port)'
    <3>1. UNCHANGED state /\ state[s] = "OPEN"
      BY <1>4, <2>2, SendLocalEffect
    <3>2. CASE p = s
      <4>1. endpoint'[p] = ep /\ ep.port = port /\ addr = IfAddr
        BY <2>2, <3>2 DEF LocalAddr, TypeOK
      <4>2. \A q \in 0..(p - 1) : q \in Pcbs /\ q # p /\ ~Matches(q, IfAddr, port)
        BY <2>2, <3>2, <4>1, LowerPcbs DEF SelectsNone
      <4> QED
        BY <2>2, <3>1, <3>2, <4>1, <4>2 DEF Selects, Matches, TypeOK
    <3>3. CASE p # s
      <4>1. p \in autoBound /\ SelectsNone(addr, ep.port)
        BY <2>2, <3>3
      <4> QED
        BY <2>2, <3>1, <3>3, <4>1, GivenElsewhere
    <3> QED
      BY <3>2, <3>3
  <2>3. sock[t] \in Pcbs /\ LocalAddr(sock[t]) \in Addrs
    BY DEF TypeOK, LocalAddr, Endpoints, Addrs
  <2>4. CASE ~UNCHANGED <<endpoint, autoBound>>
    <3>1. PICK port \in Ports \ {0} :
             /\ SelectsNone(LocalAddr(sock[t]), port)
             /\ endpoint' = [endpoint EXCEPT ![sock[t]] = [addr |-> endpoint[sock[t]].addr, port |-> port]]
             /\ autoBound' = autoBound \cup {sock[t]}
      BY <1>4, <2>4, SendLocalEffect
    <3>2. [addr |-> endpoint[sock[t]].addr, port |-> port] \in Endpoints
      BY <2>3 DEF TypeOK, Endpoints
    <3> QED
      BY <2>2, <2>3, <3>1, <3>2
  <2> QED
    BY <2>1, <2>4
<1> QED
  BY <1>1, <1>2, <1>3, <1>4, TableSteps

\* A socket chosen for a datagram cannot be rebound: until the block's mutex is
\* had, the manager's keeps bind and sendTo out, and then the block's does.
LEMMA DeliveredStep == TypeOK /\ MutexOwners /\ DeliveredWhereBound /\ [Next]_vars => DeliveredWhereBound'
<1> SUFFICES ASSUME TypeOK, MutexOwners, DeliveredWhereBound, [Next]_vars PROVE DeliveredWhereBound'
  OBVIOUS
<1> USE ThreadAssumption DEF TypeOK, DeliveredWhereBound, Matches, Threads, callVars, intrVars, history, Move
<1>1. ASSUME NEW t \in Callers, NEW p \in Pcbs, Open(t, p) PROVE DeliveredWhereBound'
  BY <1>1 DEF Open
<1>2. ASSUME NEW t \in Callers, NEW p \in Pcbs, NEW addr \in Addrs,
             NEW port \in BindPorts,
             BindSelect(t, p, [addr |-> addr, port |-> port])
      PROVE DeliveredWhereBound'
  BY <1>2 DEF BindSelect
<1>3. ASSUME NEW t \in Callers, BindStore(t) PROVE DeliveredWhereBound'
  BY <1>3 DEF BindStore, Return, MutexOwners, Block
<1>4. ASSUME NEW t \in Callers, NEW p \in Pcbs, SendLock(t, p) PROVE DeliveredWhereBound'
  BY <1>4 DEF SendLock
<1>5. ASSUME NEW t \in Callers, SendLocal(t) PROVE DeliveredWhereBound'
  BY <1>5 DEF SendLocal, Return, MutexOwners, Block
<1>6. ASSUME NEW t \in Callers, NEW p \in Pcbs, RecvGet(t, p) PROVE DeliveredWhereBound'
  BY <1>6 DEF RecvGet
<1>7. ASSUME NEW t \in Callers, RecvTest(t) PROVE DeliveredWhereBound'
  BY <1>7 DEF RecvTest
<1>8. ASSUME NEW t \in Callers, RecvBlock(t) PROVE DeliveredWhereBound'
  BY <1>8 DEF RecvBlock
<1>9. ASSUME NEW t \in Callers, RecvSpurious(t) PROVE DeliveredWhereBound'
  BY <1>9 DEF RecvSpurious
<1>10. ASSUME NEW t \in Callers, RecvTake(t) PROVE DeliveredWhereBound'
  BY <1>10 DEF RecvTake, Return
<1>11. ASSUME NEW port \in Ports, HandleNone(port) PROVE DeliveredWhereBound'
  BY <1>11 DEF HandleNone
<1>12. ASSUME NEW port \in Ports, NEW p \in Pcbs, HandleSelect(p, port) PROVE DeliveredWhereBound'
  BY <1>12 DEF HandleSelect, Selects
<1>13. CASE HandleLock
  BY <1>13 DEF HandleLock
<1>14. CASE HandlePush
  BY <1>14 DEF HandlePush, NotifyAll
<1>15. CASE EventBegin
  BY <1>15 DEF EventBegin
<1>16. CASE EventScan
  BY <1>16 DEF EventScan
<1>17. CASE EventTouch
  BY <1>17 DEF EventTouch
<1>18. CASE EventFlag
  BY <1>18 DEF EventFlag
<1>19. CASE EventNotify
  BY <1>19 DEF EventNotify, NotifyAll
<1>20. CASE UNCHANGED vars
  BY <1>20 DEF vars
<1> QED
  BY <1>1, <1>2, <1>3, <1>4, <1>5, <1>6, <1>7, <1>8, <1>9, <1>10, <1>11, <1>12,
     <1>13, <1>14, <1>15, <1>16, <1>17, <1>18, <1>19, <1>20
  DEF Next, Call, Continue, Input, Upcall

\* A datagram is pushed with the mutex held that a receiver holds from its test
\* of the queue until it is in the wait set, and then notify_all finds it there.
LEMMA SleepStep ==
    TypeOK /\ MutexOwners /\ CallsReady /\ NoSleepOnDatagram /\ [Next]_vars => NoSleepOnDatagram'
<1> SUFFICES ASSUME TypeOK, MutexOwners, CallsReady, NoSleepOnDatagram, [Next]_vars
             PROVE  NoSleepOnDatagram'
  OBVIOUS
<1> USE ThreadAssumption DEF TypeOK, NoSleepOnDatagram, Threads, callVars, intrVars, history, Move
<1>1. ASSUME NEW t \in Callers, NEW p \in Pcbs, Open(t, p) PROVE NoSleepOnDatagram'
  BY <1>1 DEF Open
<1>2. ASSUME NEW t \in Callers, NEW p \in Pcbs, NEW addr \in Addrs,
             NEW port \in BindPorts,
             BindSelect(t, p, [addr |-> addr, port |-> port])
      PROVE NoSleepOnDatagram'
  BY <1>2 DEF BindSelect
<1>3. ASSUME NEW t \in Callers, BindStore(t) PROVE NoSleepOnDatagram'
  BY <1>3 DEF BindStore, Return
<1>4. ASSUME NEW t \in Callers, NEW p \in Pcbs, SendLock(t, p) PROVE NoSleepOnDatagram'
  BY <1>4 DEF SendLock
<1>5. ASSUME NEW t \in Callers, SendLocal(t) PROVE NoSleepOnDatagram'
  BY <1>5 DEF SendLocal, Return
<1>6. ASSUME NEW t \in Callers, NEW p \in Pcbs, RecvGet(t, p) PROVE NoSleepOnDatagram'
  BY <1>6 DEF RecvGet
<1>7. ASSUME NEW t \in Callers, RecvTest(t) PROVE NoSleepOnDatagram'
  BY <1>7 DEF RecvTest, RecvReady
<1>8. ASSUME NEW t \in Callers, RecvBlock(t) PROVE NoSleepOnDatagram'
  BY <1>8 DEF RecvBlock
<1>9. ASSUME NEW t \in Callers, RecvSpurious(t) PROVE NoSleepOnDatagram'
  BY <1>9 DEF RecvSpurious
<1>10. ASSUME NEW t \in Callers, RecvTake(t) PROVE NoSleepOnDatagram'
  <2>1. CASE UNCHANGED que
    BY <1>10, <2>1 DEF RecvTake, Return
  <2>2. CASE que[sock[t]] # <<>> /\ que' = [que EXCEPT ![sock[t]] = Tail(@)]
    <3>1. \A u \in Callers : pc'[u] \in {"recv_block", "recv_sleep"} =>
             pc[u] = pc'[u] /\ sock'[u] = sock[u] /\ sock[u] # sock[t]
      BY <1>10, <2>2 DEF RecvTake, Return, MutexOwners, Block
    <3> QED
      BY <2>2, <3>1
  <2> QED
    BY <1>10, <2>1, <2>2 DEF RecvTake, CallsReady, RecvReady
<1>11. ASSUME NEW port \in Ports, HandleNone(port) PROVE NoSleepOnDatagram'
  BY <1>11 DEF HandleNone
<1>12. ASSUME NEW port \in Ports, NEW p \in Pcbs, HandleSelect(p, port) PROVE NoSleepOnDatagram'
  BY <1>12 DEF HandleSelect
<1>13. CASE HandleLock
  BY <1>13 DEF HandleLock
<1>14. CASE HandlePush
  BY <1>14 DEF HandlePush, NotifyAll, Sleepers, MutexOwners, Block
<1>15. CASE EventBegin
  BY <1>15 DEF EventBegin
<1>16. CASE EventScan
  BY <1>16 DEF EventScan
<1>17. CASE EventTouch
  BY <1>17 DEF EventTouch
<1>18. CASE EventFlag
  BY <1>18 DEF EventFlag
<1>19. CASE EventNotify
  BY <1>19 DEF EventNotify, NotifyAll
<1>20. CASE UNCHANGED vars
  BY <1>20 DEF vars
<1> QED
  BY <1>1, <1>2, <1>3, <1>4, <1>5, <1>6, <1>7, <1>8, <1>9, <1>10, <1>11, <1>12,
     <1>13, <1>14, <1>15, <1>16, <1>17, <1>18, <1>19, <1>20
  DEF Next, Call, Continue, Input, Upcall

\* What was tested under a mutex still holds when it is acted on under it.
LEMMA CallsStep == TypeOK /\ MutexOwners /\ CallsReady /\ [Next]_vars => CallsReady'
<1> SUFFICES ASSUME TypeOK, MutexOwners, CallsReady, [Next]_vars PROVE CallsReady'
  OBVIOUS
<1> USE ThreadAssumption DEF TypeOK, CallsReady, Threads, callVars, intrVars, history, Move
<1>1. ASSUME NEW t \in Callers, NEW p \in Pcbs, Open(t, p) PROVE CallsReady'
  BY <1>1 DEF Open, SelectsNone, Matches, RecvReady, MutexOwners
<1>2. ASSUME NEW t \in Callers, NEW p \in Pcbs, NEW addr \in Addrs,
             NEW port \in BindPorts,
             BindSelect(t, p, [addr |-> addr, port |-> port])
      PROVE CallsReady'
  BY <1>2 DEF BindSelect, SelectsNone, Matches, RecvReady
<1>3. ASSUME NEW t \in Callers, BindStore(t) PROVE CallsReady'
  BY <1>3 DEF BindStore, Return, SelectsNone, Matches, RecvReady, MutexOwners
<1>4. ASSUME NEW t \in Callers, NEW p \in Pcbs, SendLock(t, p) PROVE CallsReady'
  BY <1>4 DEF SendLock, SelectsNone, Matches, RecvReady
<1>5. ASSUME NEW t \in Callers, SendLocal(t) PROVE CallsReady'
  BY <1>5 DEF SendLocal, Return, SelectsNone, Matches, RecvReady, MutexOwners
<1>6. ASSUME NEW t \in Callers, NEW p \in Pcbs, RecvGet(t, p) PROVE CallsReady'
  BY <1>6 DEF RecvGet, SelectsNone, Matches, RecvReady
<1>7. ASSUME NEW t \in Callers, RecvTest(t) PROVE CallsReady'
  BY <1>7 DEF RecvTest, SelectsNone, Matches, RecvReady
<1>8. ASSUME NEW t \in Callers, RecvBlock(t) PROVE CallsReady'
  BY <1>8 DEF RecvBlock, SelectsNone, Matches, RecvReady
<1>9. ASSUME NEW t \in Callers, RecvSpurious(t) PROVE CallsReady'
  BY <1>9 DEF RecvSpurious, SelectsNone, Matches, RecvReady
<1>10. ASSUME NEW t \in Callers, RecvTake(t) PROVE CallsReady'
  <2>1. \A u \in Callers : pc'[u] # "idle" =>
           u # t /\ pc'[u] = pc[u] /\ sock'[u] = sock[u] /\ bindArg'[u] = bindArg[u]
    BY <1>10 DEF RecvTake, Return
  <2>2. \A u \in Callers : pc[u] = "recv_take" /\ u # t => sock[u] # sock[t]
    BY <1>10 DEF RecvTake, MutexOwners, Block
  <2>3. \A p \in Pcbs : p # sock[t] => que'[p] = que[p]
    BY <1>10 DEF RecvTake
  <2>4. UNCHANGED <<state, endpoint, interrupted, arrivals>> /\ pc'[IntrThread] = pc[IntrThread]
    BY <1>10 DEF RecvTake, Return
  <2>5. ASSUME NEW u \in Callers, pc'[u] = "recv_take" PROVE RecvReady(sock[u])'
    <3>1. RecvReady(sock[u]) /\ sock[u] # sock[t] /\ sock[u] \in Pcbs
      BY <2>1, <2>2, <2>5
    <3> QED
      BY <2>1, <2>3, <2>4, <2>5, <3>1 DEF RecvReady
  <2>6. ASSUME NEW u \in Callers PROVE
          /\ pc'[u] \in {"bind_pcb", "send_pcb"} => state'[sock'[u]] = "OPEN"
          /\ pc'[u] = "bind_pcb" => SelectsNone(bindArg[u].addr, bindArg[u].port)'
    <3>1. CASE pc'[u] = "bind_pcb"
      <4>1. state[sock[u]] = "OPEN" /\ SelectsNone(bindArg[u].addr, bindArg[u].port)
        BY <2>1, <3>1
      <4>2. sock'[u] = sock[u] /\ bindArg'[u] = bindArg[u]
        BY <2>1, <3>1
      <4> QED
        BY <2>4, <4>1, <4>2 DEF SelectsNone, Matches
    <3>2. CASE pc'[u] = "send_pcb"
      BY <2>1, <2>4, <3>2
    <3> QED
      BY <3>1, <3>2
  <2> QED
    BY <2>4, <2>5, <2>6
<1>11. ASSUME NEW port \in Ports, HandleNone(port) PROVE CallsReady'
  BY <1>11 DEF HandleNone, SelectsNone, Matches, RecvReady
<1>12. ASSUME NEW port \in Ports, NEW p \in Pcbs, HandleSelect(p, port) PROVE CallsReady'
  BY <1>12 DEF HandleSelect, SelectsNone, Matches, RecvReady
<1>13. CASE HandleLock
  BY <1>13 DEF HandleLock, SelectsNone, Matches, RecvReady
<1>14. CASE HandlePush
  <2>1. \A u \in Callers : pc'[u] \in {"bind_pcb", "send_pcb", "recv_take"} => pc'[u] = pc[u]
    BY <1>14 DEF HandlePush, NotifyAll
  <2>2. \A p \in Pcbs : que[p] # <<>> => que'[p] # <<>>
    <3>1. target \in Pcbs /\ que[target] \in Seq(1..MaxArrivals) /\ arrivals \in 1..MaxArrivals
      BY <1>14 DEF HandlePush
    <3> DEFINE s == que[target]
    <3>2. s \in Seq(1..MaxArrivals)
      BY <3>1
    <3> HIDE DEF s
    <3>3. Append(s, arrivals) # <<>>
      BY <3>1, <3>2, AppendProperties
    <3> QED
      BY <1>14, <3>1, <3>3 DEF HandlePush, s
  <2>3. UNCHANGED <<state, endpoint, interrupted, sock, bindArg>> /\ pc'[IntrThread] = "idle"
    BY <1>14 DEF HandlePush, NotifyAll
  <2> QED
    BY <2>1, <2>2, <2>3 DEF SelectsNone, Matches, RecvReady
<1>15. CASE EventBegin
  BY <1>15 DEF EventBegin, SelectsNone, Matches, RecvReady
<1>16. CASE EventScan
  BY <1>16 DEF EventScan, SelectsNone, Matches, RecvReady
<1>17. CASE EventTouch
  BY <1>17 DEF EventTouch, SelectsNone, Matches, RecvReady
<1>18. CASE EventFlag
  BY <1>18 DEF EventFlag, SelectsNone, Matches, RecvReady
<1>19. CASE EventNotify
  BY <1>19 DEF EventNotify, NotifyAll, Sleepers, SelectsNone, Matches, RecvReady
<1>20. CASE UNCHANGED vars
  BY <1>20 DEF vars, SelectsNone, Matches, RecvReady
<1> QED
  BY <1>1, <1>2, <1>3, <1>4, <1>5, <1>6, <1>7, <1>8, <1>9, <1>10, <1>11, <1>12,
     <1>13, <1>14, <1>15, <1>16, <1>17, <1>18, <1>19, <1>20
  DEF Next, Call, Continue, Input, Upcall

-----------------------------------------------------------------------------
\* The invariant is inductive.
LEMMA NextIInv == IInv /\ [Next]_vars => IInv'
BY TypeStep, MutexStep, CallsStep, ChosenStep, DeliveredStep, UniqueStep,
   AnswersStep, SleepStep DEF IInv

\* Every reachable state of the socket layer satisfies it.
THEOREM Inductive == Spec => []IInv
<1>1. Init => IInv
  BY InitIInv
<1>2. IInv /\ [Next]_vars => IInv'
  BY NextIInv
<1> QED
  BY <1>1, <1>2, PTL DEF Spec

\* Every variable keeps its type; a wrapping source port stays a uint16_t and the
\* loop of interruptAll stays inside the table.
THEOREM TypeCorrect == Spec => []TypeOK
<1>1. IInv => TypeOK
  BY DEF IInv
<1> QED
  BY <1>1, Inductive, PTL

\* Each std::mutex is owned by the one thread whose code holds it.
THEOREM MutualExclusion == Spec => []MutexOwners
<1>1. IInv => MutexOwners
  BY DEF IInv
<1> QED
  BY <1>1, Inductive, PTL

\* UdpHandler never queues a datagram on a socket that was rebound since it was
\* selected.
THEOREM DeliveryCorrect == Spec => []DeliveredWhereBound
<1>1. IInv => DeliveredWhereBound
  BY DEF IInv
<1> QED
  BY <1>1, Inductive, PTL

\* bind and sendTo never give one endpoint to two sockets.
THEOREM EndpointsUnique == Spec => []UniqueEndpoints
<1>1. IInv => UniqueEndpoints
  BY DEF IInv
<1> QED
  BY <1>1, Inductive, PTL

\* An answer to a wildcard socket whose port sendTo chose is queued on it.
THEOREM AnswersArrive == Spec => []AnswersReachSender
<1>1. IInv => AnswersReachSender
  BY DEF IInv
<1> QED
  BY <1>1, Inductive, PTL

\* recvFrom never sleeps over a queued datagram.
THEOREM NoMissedDatagram == Spec => []NoSleepOnDatagram
<1>1. IInv => NoSleepOnDatagram
  BY DEF IInv
<1> QED
  BY <1>1, Inductive, PTL

\* The endpoint of an open socket is written by the thread that owns the
\* manager's mutex, while nobody owns the block's.
THEOREM EndpointStable == Spec => EndpointGuarded
<1> DEFINE Guarded ==
      \A p \in Pcbs :
         state[p] = "OPEN" /\ endpoint'[p] # endpoint[p] =>
             mgrMutex \in Callers /\ pcbMutex[p] = NoThread
<1>1. IInv /\ [Next]_vars => [Guarded]_vars
  <2> SUFFICES ASSUME IInv, [Next]_vars, NEW p \in Pcbs,
                      state[p] = "OPEN", endpoint'[p] # endpoint[p]
               PROVE  mgrMutex \in Callers /\ pcbMutex[p] = NoThread
    OBVIOUS
  <2>1. TypeOK /\ CallsReady /\ MutexOwners
    BY DEF IInv
  <2>2. ASSUME NEW t \in Callers, NEW q \in Pcbs, Open(t, q) PROVE FALSE
    BY <2>1, <2>2 DEF Open, TypeOK
  <2>3. ASSUME NEW t \in Callers, BindStore(t)
        PROVE  mgrMutex \in Callers /\ pcbMutex[p] = NoThread
    BY <2>1, <2>3 DEF BindStore, MutexOwners, TypeOK, Threads
  <2>4. ASSUME NEW t \in Callers, SendLocal(t)
        PROVE  mgrMutex \in Callers /\ pcbMutex[p] = NoThread
    <3>1. mgrMutex = t /\ pcbMutex[sock[t]] = NoThread
      BY <2>1, <2>4 DEF SendLocal, MutexOwners, Threads
    <3>2. p = sock[t]
      BY <2>1, <2>4, SendLocalEffect DEF TypeOK
    <3> QED
      BY <3>1, <3>2
  <2> QED
    BY <2>2, <2>3, <2>4, TableSteps
<1> QED
  BY <1>1, Inductive, PTL DEF Spec, EndpointGuarded

\* A socket that gets an endpoint nobody covers gets no port that a wildcard
\* socket has to itself.
LEMMA GivenNotAlone ==
    ASSUME TypeOK, UNCHANGED state,
           NEW s \in Pcbs, NEW ep \in Endpoints, NEW addr \in Addrs,
           SelectsNone(addr, ep.port),
           endpoint' = [endpoint EXCEPT ![s] = ep],
           NEW p \in Pcbs, AloneOnPort(p), endpoint'[p] = endpoint[p]
    PROVE  AloneOnPort(p)'
<1> USE DEF TypeOK
<1>1. ep.port # endpoint[p].port
  BY DEF SelectsNone, Matches, AloneOnPort
<1>2. endpoint'[s] = ep /\ \A q \in Pcbs : q # s => endpoint'[q] = endpoint[q]
  OBVIOUS
<1> QED
  BY <1>1, <1>2 DEF AloneOnPort

\* A wildcard socket alone on its port stays alone there until it is bound anew:
\* no bind and no port search of another thread comes between, for any number of
\* sockets, callers, addresses and ports.
THEOREM WildcardStays == Spec => WildcardKeepsPort
<1> DEFINE Keeps ==
      \A p \in Pcbs :
         AloneOnPort(p) /\ endpoint'[p] = endpoint[p] => AloneOnPort(p)'
<1>1. IInv /\ [Next]_vars => [Keeps]_vars
  <2> SUFFICES ASSUME IInv, [Next]_vars, NEW p \in Pcbs,
                      AloneOnPort(p), endpoint'[p] = endpoint[p]
               PROVE  AloneOnPort(p)'
    OBVIOUS
  <2>1. TypeOK /\ CallsReady
    BY DEF IInv
  <2>2. CASE UNCHANGED <<state, endpoint>>
    BY <2>2 DEF AloneOnPort
  <2>3. ASSUME NEW t \in Callers, NEW q \in Pcbs, Open(t, q) PROVE AloneOnPort(p)'
    BY <2>1, <2>3 DEF Open, TypeOK, AloneOnPort, Unbound
  <2>4. ASSUME NEW t \in Callers, BindStore(t) PROVE AloneOnPort(p)'
    <3>1. PICK s \in Pcbs, ep \in Endpoints : s = sock[t] /\ ep = bindArg[t]
      BY <2>1 DEF TypeOK
    <3>2. /\ UNCHANGED state
          /\ SelectsNone(ep.addr, ep.port)
          /\ endpoint' = [endpoint EXCEPT ![s] = ep]
      BY <2>1, <2>4, <3>1, BindStoreEffect
    <3>3. ep.addr \in Addrs
      BY DEF Endpoints
    <3> QED
      BY <2>1, <3>2, <3>3, GivenNotAlone
  <2>5. ASSUME NEW t \in Callers, SendLocal(t) PROVE AloneOnPort(p)'
    <3>1. ASSUME NEW port \in Ports \ {0},
                 UNCHANGED state,
                 SelectsNone(LocalAddr(sock[t]), port),
                 endpoint' = [endpoint EXCEPT ![sock[t]] = [addr |-> endpoint[sock[t]].addr, port |-> port]]
          PROVE  AloneOnPort(p)'
      <4> DEFINE e == [addr |-> endpoint[sock[t]].addr, port |-> port]
      <4>1. sock[t] \in Pcbs /\ e \in Endpoints /\ e.port = port /\ LocalAddr(sock[t]) \in Addrs
        BY <2>1 DEF TypeOK, Endpoints, LocalAddr, Addrs
      <4>2. SelectsNone(LocalAddr(sock[t]), e.port) /\ endpoint' = [endpoint EXCEPT ![sock[t]] = e]
        BY <3>1
      <4> HIDE DEF e
      <4>3. PICK s \in Pcbs, ep \in Endpoints, a \in Addrs :
               s = sock[t] /\ ep = e /\ a = LocalAddr(sock[t])
        BY <4>1
      <4> QED
        BY <2>1, <3>1, <4>2, <4>3, GivenNotAlone
    <3> QED
      BY <2>1, <2>2, <2>5, <3>1, SendLocalEffect
  <2> QED
    BY <2>2, <2>3, <2>4, <2>5, TableSteps
<1> QED
  BY <1>1, Inductive, PTL DEF Spec, WildcardKeepsPort

\* While the ports of the range outnumber the other sockets, one of the range is
\* nobody's: the search ends before the loop variable wraps.
LEMMA RangeSuffices ==
    ASSUME TypeOK, NEW p \in Pcbs, endpoint[p].port = 0, NEW addr,
           NumPcbs <= MaxPort - SourcePortMin + 1
    PROVE  \E port \in SourcePortMin..MaxPort : SelectsNone(addr, port)
<1> DEFINE Others == Pcbs \ {p}
           SourcePorts == SourcePortMin..MaxPort
           f == [q \in Others |-> endpoint[q].port]
<1>1. /\ IsFiniteSet(Others) /\ Cardinality(Others) = NumPcbs - 1
  <2>1. IsFiniteSet(Pcbs) /\ Cardinality(Pcbs) = NumPcbs
    BY TableAssumption, FS_Interval DEF Pcbs
  <2> QED
    BY <2>1, FS_RemoveElement
<1>2. IsFiniteSet(SourcePorts) /\ Cardinality(SourcePorts) = MaxPort - SourcePortMin + 1
  BY PortAssumption, FS_Interval
<1>3. SUFFICES ASSUME \A port \in SourcePorts : ~SelectsNone(addr, port) PROVE FALSE
  OBVIOUS
<1>4. \A port \in SourcePorts : \E q \in Others : f[q] = port
  <2> SUFFICES ASSUME NEW port \in SourcePorts PROVE \E q \in Others : f[q] = port
    OBVIOUS
  <2>1. PICK q \in Pcbs : Matches(q, addr, port)
    BY <1>3 DEF SelectsNone
  <2>2. endpoint[q].port = port /\ port # 0
    BY <2>1, PortAssumption DEF Matches
  <2> QED
    BY <2>2
<1>5. \A port \in SourcePorts : \E q : q \in Others /\ f[q] = port
  BY <1>4
<1> DEFINE g == [port \in SourcePorts |-> CHOOSE q : q \in Others /\ f[q] = port]
<1>6. \A port \in SourcePorts : g[port] \in Others /\ f[g[port]] = port
  BY <1>5
<1> HIDE DEF Others, SourcePorts, f, g
<1>7. g \in [SourcePorts -> Others]
  BY <1>6 DEF g
<1>8. Cardinality(Others) < Cardinality(SourcePorts)
  BY <1>1, <1>2, TableAssumption, PortAssumption
<1>9. PICK x \in SourcePorts, y \in SourcePorts : x # y /\ g[x] = g[y]
  BY <1>1, <1>2, <1>7, <1>8, FS_PigeonHole
<1> QED
  BY <1>6, <1>9

\* Unless there are more control blocks than source ports, of which there are 100
\* and 25952, sendTo gives out no port below SOURCE_PORT_MIN, whatever ports bind
\* took, and although p <= SOURCE_PORT_MAX never ends its loop.
THEOREM ChosenPortsInRange ==
    ASSUME NumPcbs <= MaxPort - SourcePortMin + 1
    PROVE  Spec => ChosenPortInRange
<1> DEFINE InRange ==
      \A p \in Pcbs :
         p \in autoBound' /\ p \notin autoBound /\ endpoint[p].port = 0 =>
             endpoint'[p].port \in SourcePortMin..MaxPort
<1>1. IInv /\ [Next]_vars => [InRange]_vars
  <2> SUFFICES ASSUME IInv, [Next]_vars, NEW p \in Pcbs,
                      p \in autoBound', p \notin autoBound, endpoint[p].port = 0
               PROVE  endpoint'[p].port \in SourcePortMin..MaxPort
    OBVIOUS
  <2>1. TypeOK
    BY DEF IInv
  <2>2. PICK t \in Callers : SendLocal(t)
    BY TableSteps DEF Open, BindStore, history
  <2>3. p = sock[t]
    BY <2>2 DEF SendLocal
  <2>4. PICK n \in 0..MaxPort :
           /\ \A m \in 0..(n - 1) : ~SelectsNone(LocalAddr(p), TriedPort(m))
           /\ endpoint' = [endpoint EXCEPT ![p].port = TriedPort(n)]
    BY <2>2, <2>3 DEF SendLocal
  <2>5. endpoint'[p].port = TriedPort(n)
    <3>1. endpoint[p] \in [addr : Addrs, port : Ports]
      BY <2>1 DEF TypeOK, Endpoints
    <3>2. endpoint'[p] = [endpoint[p] EXCEPT !.port = TriedPort(n)]
      BY <2>1, <2>4 DEF TypeOK
    <3> QED
      BY <3>1, <3>2
  <2>6. PICK port \in SourcePortMin..MaxPort : SelectsNone(LocalAddr(p), port)
    BY <2>1, RangeSuffices
  <2>7. port = TriedPort(port - SourcePortMin) /\ port - SourcePortMin \in 0..(MaxPort - SourcePortMin)
    BY PortAssumption DEF TriedPort
  <2>8. n <= port - SourcePortMin
    BY <2>4, <2>6, <2>7, PortAssumption
  <2>9. TriedPort(n) = SourcePortMin + n
    BY <2>7, <2>8, PortAssumption DEF TriedPort
  <2> QED
    BY <2>5, <2>7, <2>8, <2>9, PortAssumption
<1> QED
  BY <1>1, Inductive, PTL DEF Spec, ChosenPortInRange
=============================================================================
