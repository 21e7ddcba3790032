-------------------------- MODULE UdpServiceProofs --------------------------
(***************************************************************************)
(* That the socket layer with its mutexes implements UdpService, for every *)
(* instance: every step of UdpSocket is a step of UdpService or changes    *)
(* nothing that a caller can see.                                          *)
(***************************************************************************)
EXTENDS UdpSocketProofs

\* Until UdpHandler has the mutex of the control block it selected, that block
\* is still the one select would find.
StillSelected ==
    pc[IntrThread] = "in_pcb" => Selects(target, IfAddr, dstPort)

\* interruptAll flags the elements it found OPEN.
FlagsOpen ==
    pc[IntrThread] \in {"ev_touch", "ev_flag"} => state[target] = "OPEN"

\* A receiver is in recvFrom of an open socket.
ReceivesOpen ==
    \A t \in Callers :
        pc[t] \in {"recv_lock", "recv_block", "recv_sleep", "recv_take"} =>
            state[sock[t]] = "OPEN"

ServiceReady == StillSelected /\ FlagsOpen /\ ReceivesOpen

\* The variables of UdpService, as the socket layer's make them up.
OpenSockets == {p \in Pcbs : state[p] = "OPEN"}
Boxes == [p \in Pcbs |-> Mailbox(p)]
Flagged == {p \in Pcbs : interrupted[p]}
Arrived == IF pc[IntrThread] = "in_pcb" THEN arrivals - 1 ELSE arrivals

-----------------------------------------------------------------------------
(* The strengthening. *)

\* Nothing closes a socket.
LEMMA OpenForGood ==
    ASSUME TypeOK, [Next]_vars, NEW p \in Pcbs, state[p] = "OPEN"
    PROVE  state'[p] = "OPEN"
<1>1. ASSUME NEW t \in Callers, NEW q \in Pcbs, Open(t, q) PROVE state'[p] = "OPEN"
  BY <1>1 DEF Open, TypeOK
<1> QED
  BY <1>1, TableSteps DEF BindStore, SendLocal

\* With the manager's mutex held by the interrupt thread the table stands still.
LEMMA TableHeld ==
    ASSUME TypeOK, MutexOwners, [Next]_vars, mgrMutex = IntrThread
    PROVE  UNCHANGED <<state, endpoint>>
<1> USE ThreadAssumption
<1>1. ASSUME NEW t \in Callers, NEW p \in Pcbs, Open(t, p) PROVE FALSE
  BY <1>1 DEF Open, Threads
<1>2. ASSUME NEW t \in Callers, BindStore(t) \/ SendLocal(t) PROVE FALSE
  BY <1>2 DEF BindStore, SendLocal, MutexOwners, Threads
<1> QED
  BY <1>1, <1>2, TableSteps

\* Where the interrupt thread stands, and with what, changes by its own actions.
LEMMA IntrSteps ==
    ASSUME TypeOK, [Next]_vars
    PROVE  \/ pc'[IntrThread] = pc[IntrThread] /\ UNCHANGED <<target, dstPort>>
           \/ \E port \in Ports, p \in Pcbs : HandleSelect(p, port)
           \/ EventBegin
           \/ Upcall
<1> USE ThreadAssumption DEF TypeOK, Threads, Move, Return, callVars, intrVars, history
<1>1. ASSUME NEW t \in Callers, Call(t) \/ Continue(t) \/ RecvSpurious(t)
      PROVE  pc'[IntrThread] = pc[IntrThread] /\ UNCHANGED <<target, dstPort>>
  BY <1>1 DEF Call, Continue, Open, BindSelect, SendLock, RecvGet, BindStore, SendLocal,
     RecvTest, RecvBlock, RecvTake, RecvSpurious
<1>2. ASSUME NEW port \in Ports, HandleNone(port)
      PROVE  pc'[IntrThread] = pc[IntrThread] /\ UNCHANGED <<target, dstPort>>
  BY <1>2 DEF HandleNone
<1>3. CASE UNCHANGED vars
  BY <1>3 DEF vars
<1> QED
  BY <1>1, <1>2, <1>3 DEF Next, Input

\* select's answer is used under the mutex it was given under.
LEMMA SelectedStep ==
    TypeOK /\ MutexOwners /\ StillSelected /\ [Next]_vars => StillSelected'
<1> SUFFICES ASSUME TypeOK, MutexOwners, StillSelected, [Next]_vars, pc'[IntrThread] = "in_pcb"
             PROVE  Selects(target, IfAddr, dstPort)'
  BY DEF StillSelected
<1> USE ThreadAssumption DEF TypeOK, Threads, Move
<1>1. CASE pc'[IntrThread] = pc[IntrThread] /\ UNCHANGED <<target, dstPort>>
  <2>1. mgrMutex = IntrThread /\ Selects(target, IfAddr, dstPort)
    BY <1>1 DEF MutexOwners, StillSelected
  <2> QED
    BY <1>1, <2>1, TableHeld DEF Selects, Matches
<1>2. ASSUME NEW port \in Ports, NEW p \in Pcbs, HandleSelect(p, port)
      PROVE  Selects(target, IfAddr, dstPort)'
  BY <1>2 DEF HandleSelect, Selects, Matches
<1>3. CASE EventBegin
  BY <1>3 DEF EventBegin
<1>4. CASE Upcall
  <2>1. CASE HandleLock
    BY <2>1 DEF HandleLock
  <2>2. CASE HandlePush
    BY <2>2 DEF HandlePush, NotifyAll
  <2>3. CASE EventScan
    BY <2>3 DEF EventScan
  <2>4. CASE EventTouch \/ EventFlag
    BY <2>4 DEF EventTouch, EventFlag
  <2>5. CASE EventNotify
    BY <2>5 DEF EventNotify, NotifyAll
  <2> QED
    BY <1>4, <2>1, <2>2, <2>3, <2>4, <2>5 DEF Upcall
<1> QED
  BY <1>1, <1>2, <1>3, <1>4, IntrSteps

\* What interruptAll saw OPEN still is.
LEMMA FlagsStep ==
    TypeOK /\ FlagsOpen /\ [Next]_vars => FlagsOpen'
<1> SUFFICES ASSUME TypeOK, FlagsOpen, [Next]_vars, pc'[IntrThread] \in {"ev_touch", "ev_flag"}
             PROVE  state'[target'] = "OPEN"
  BY DEF FlagsOpen
<1> USE ThreadAssumption DEF TypeOK, Threads, Move, intrVars
<1>1. CASE pc'[IntrThread] = pc[IntrThread] /\ UNCHANGED <<target, dstPort>>
  BY <1>1, OpenForGood DEF FlagsOpen
<1>2. ASSUME NEW port \in Ports, NEW p \in Pcbs, HandleSelect(p, port) PROVE FALSE
  BY <1>2 DEF HandleSelect
<1>3. CASE EventBegin
  BY <1>3 DEF EventBegin
<1>4. CASE Upcall
  <2>1. CASE HandleLock
    BY <2>1 DEF HandleLock
  <2>2. CASE HandlePush
    BY <2>2 DEF HandlePush, NotifyAll
  <2>3. CASE EventScan
    BY <2>3 DEF EventScan
  <2>4. CASE EventTouch \/ EventFlag
    BY <2>4 DEF EventTouch, EventFlag, FlagsOpen
  <2>5. CASE EventNotify
    BY <2>5 DEF EventNotify, NotifyAll
  <2> QED
    BY <1>4, <2>1, <2>2, <2>3, <2>4, <2>5 DEF Upcall
<1> QED
  BY <1>1, <1>2, <1>3, <1>4, IntrSteps

\* recvFrom was called on an open socket.
LEMMA ReceivesStep ==
    TypeOK /\ ReceivesOpen /\ [Next]_vars => ReceivesOpen'
<1> DEFINE In(label) == label \in {"recv_lock", "recv_block", "recv_sleep", "recv_take"}
<1> SUFFICES ASSUME TypeOK, ReceivesOpen, [Next]_vars, NEW u \in Callers, In(pc'[u])
             PROVE  state'[sock'[u]] = "OPEN"
  BY DEF ReceivesOpen
<1>1. CASE In(pc[u]) /\ sock'[u] = sock[u]
  BY <1>1, OpenForGood DEF ReceivesOpen, TypeOK
<1>2. ASSUME NEW p \in Pcbs, RecvGet(u, p) PROVE state'[sock'[u]] = "OPEN"
  BY <1>2 DEF RecvGet, TypeOK
<1>3. (In(pc[u]) /\ sock'[u] = sock[u]) \/ \E p \in Pcbs : RecvGet(u, p)
  <2> USE ThreadAssumption DEF TypeOK, Threads, Move, Return, callVars
  <2>1. ASSUME NEW t \in Callers, Call(t)
        PROVE  (In(pc[u]) /\ sock'[u] = sock[u]) \/ \E p \in Pcbs : RecvGet(u, p)
    <3>1. CASE \E p \in Pcbs : RecvGet(t, p)
      BY <3>1 DEF RecvGet
    <3>2. CASE ~\E p \in Pcbs : RecvGet(t, p)
      BY <2>1, <3>2 DEF Call, Open, BindSelect, SendLock
    <3> QED
      BY <3>1, <3>2
  <2>2. ASSUME NEW t \in Callers, Continue(t) \/ RecvSpurious(t)
        PROVE  In(pc[u]) /\ sock'[u] = sock[u]
    BY <2>2 DEF Continue, BindStore, SendLocal, RecvTest, RecvBlock, RecvTake, RecvSpurious
  <2>3. CASE Input
    BY <2>3 DEF Input, HandleNone, HandleSelect, EventBegin
  <2>4. CASE Upcall
    BY <2>4 DEF Upcall, HandleLock, HandlePush, EventScan, EventTouch, EventFlag, EventNotify,
       NotifyAll, Sleepers
  <2>5. CASE UNCHANGED vars
    BY <2>5 DEF vars
  <2> QED
    BY <2>1, <2>2, <2>3, <2>4, <2>5 DEF Next
<1> QED
  BY <1>1, <1>2, <1>3

\* The strengthening holds in every reachable state.
THEOREM ReadyForService == Spec => []ServiceReady
<1>1. Init => ServiceReady
  BY ThreadAssumption DEF Init, ServiceReady, StillSelected, FlagsOpen, ReceivesOpen, Threads
<1>2. IInv /\ ServiceReady /\ [Next]_vars => ServiceReady'
  BY SelectedStep, FlagsStep, ReceivesStep DEF IInv, ServiceReady
<1> QED
  BY <1>1, <1>2, Inductive, PTL DEF Spec
-----------------------------------------------------------------------------
(* The refinement. *)

\* To be covered in UdpService is to match in select.
LEMMA CoversMatches ==
    /\ \A p \in Pcbs : \A addr, port :
          Service!Covers(p, addr, port) <=> Matches(p, addr, port)
    /\ \A addr, port : ~Service!Covered(addr, port) <=> SelectsNone(addr, port)
BY DEF Service!Covered, Service!Covers, SelectsNone, Matches

\* The constructor's table is the service's.
LEMMA ServiceInit == Init => Service!Init
BY ThreadAssumption DEF Init, Service!Init, Service!Fresh, Unbound, Mailbox, Threads

\* What a caller sees changes with the table, the queues, the flags and what was
\* received; and with where UdpHandler is, but not with where interruptAll is.
LEMMA BoxesStill ==
    ASSUME UNCHANGED <<que, arrivals>>,
           \/ pc'[IntrThread] = pc[IntrThread] /\ UNCHANGED target
           \/ pc[IntrThread] \notin {"in_pcb", "in_push"} /\ pc'[IntrThread] \notin {"in_pcb", "in_push"}
    PROVE  UNCHANGED <<Boxes, Arrived>>
BY DEF Boxes, Arrived, Mailbox

\* The variables of the service do not change when what they are made of does not.
LEMMA Unseen ==
    ASSUME UNCHANGED <<state, endpoint, interrupted, received, Boxes, Arrived>>
    PROVE  UNCHANGED Service!vars
BY DEF Service!vars, Boxes, Arrived

\* open is OpenSocket.
LEMMA OpenRefines ==
    ASSUME TypeOK, NEW t \in Callers, NEW p \in Pcbs, Open(t, p)
    PROVE  Service!OpenSocket(p)
<1>1. UNCHANGED <<Boxes, Arrived>>
  BY BoxesStill DEF Open, intrVars
<1>2. OpenSockets' = OpenSockets \cup {p} /\ p \notin OpenSockets
  BY DEF Open, OpenSockets, TypeOK
<1> QED
  BY <1>1, <1>2
  DEF Open, Service!OpenSocket, Service!Fresh, Unbound, Boxes, Arrived, OpenSockets, history

\* bind is Bind at the instant it stores the endpoint.
LEMMA BindRefines ==
    ASSUME TypeOK, CallsReady, NEW t \in Callers, BindStore(t)
    PROVE  \E s \in Pcbs, addr \in Addrs, port \in Ports : Service!Bind(s, addr, port)
<1>1. /\ sock[t] \in Pcbs /\ bindArg[t] \in Endpoints
      /\ bindArg[t].addr \in Addrs /\ bindArg[t].port \in Ports
      /\ bindArg[t] = [addr |-> bindArg[t].addr, port |-> bindArg[t].port]
  BY DEF TypeOK, Endpoints
<1>2. UNCHANGED <<Boxes, Arrived>>
  BY ThreadAssumption, BoxesStill DEF BindStore, Return, Move, intrVars, TypeOK, Threads
<1>3. /\ UNCHANGED state /\ state[sock[t]] = "OPEN"
      /\ ~Service!Covered(bindArg[t].addr, bindArg[t].port)
      /\ endpoint' = [endpoint EXCEPT ![sock[t]] = bindArg[t]]
  BY BindStoreEffect, CoversMatches
<1>4. Service!Bind(sock[t], bindArg[t].addr, bindArg[t].port)
  BY <1>1, <1>2, <1>3 DEF BindStore, Service!Bind, Boxes, Arrived
<1> QED
  BY <1>1, <1>4

\* sendTo is ChoosePort for a socket without a port, and unseen for another.
LEMMA SendRefines ==
    ASSUME TypeOK, CallsReady, NEW t \in Callers, SendLocal(t)
    PROVE  \/ \E s \in Pcbs, port \in Ports : Service!ChoosePort(s, port)
           \/ UNCHANGED Service!vars
<1>1. sock[t] \in Pcbs /\ endpoint[sock[t]] \in Endpoints
  BY DEF TypeOK
<1>2. UNCHANGED <<Boxes, Arrived, interrupted, received>>
  BY ThreadAssumption, BoxesStill DEF SendLocal, Return, Move, intrVars, TypeOK, Threads
<1>3. UNCHANGED state /\ state[sock[t]] = "OPEN"
  BY SendLocalEffect
<1>4. CASE UNCHANGED endpoint
  BY <1>2, <1>3, <1>4, Unseen
<1>5. ASSUME NEW port \in Ports \ {0},
             endpoint[sock[t]].port = 0,
             SelectsNone(LocalAddr(sock[t]), port),
             endpoint' = [endpoint EXCEPT ![sock[t]] = [addr |-> endpoint[sock[t]].addr, port |-> port]]
      PROVE  Service!ChoosePort(sock[t], port)
  <2>1. ~Service!Covered(LocalAddr(sock[t]), port)
    BY <1>5, CoversMatches
  <2>2. [endpoint[sock[t]] EXCEPT !.port = port] = [addr |-> endpoint[sock[t]].addr, port |-> port]
    BY <1>1 DEF Endpoints
  <2>3. endpoint' = [endpoint EXCEPT ![sock[t]].port = port]
    BY <1>5, <2>2
  <2> QED
    BY <1>1, <1>2, <1>3, <1>5, <2>1, <2>3 DEF Service!ChoosePort, LocalAddr, Boxes, Arrived
<1> QED
  BY <1>1, <1>4, <1>5, SendLocalEffect

\* UdpHandler delivers at the instant it has the mutex of the control block: from
\* then on nobody takes from the queue before the datagram is in it.
LEMMA LockRefines ==
    ASSUME TypeOK, CallsReady, StillSelected, HandleLock
    PROVE  \E s \in Pcbs, port \in Ports : Service!Deliver(s, port)
<1> USE ThreadAssumption DEF TypeOK, Threads, Move, intrVars, history
<1>1. /\ target \in Pcbs /\ dstPort \in Ports
      /\ pc[IntrThread] = "in_pcb" /\ pc'[IntrThread] = "in_push"
      /\ UNCHANGED <<state, endpoint, que, interrupted, received, arrivals, target>>
  BY DEF HandleLock
<1>2. arrivals \in Nat /\ Arrived = arrivals - 1 /\ Arrived' = arrivals /\ Arrived' = Arrived + 1
  BY <1>1, BoundAssumption DEF Arrived
<1>3. Boxes' = [Boxes EXCEPT ![target] = Append(@, arrivals)]
  <2>1. \A p \in Pcbs : Mailbox(p)' = IF p = target THEN Append(Mailbox(p), arrivals) ELSE Mailbox(p)
    BY <1>1 DEF Mailbox
  <2> QED
    BY <2>1 DEF Boxes
<1>4. /\ Service!Covers(target, IfAddr, dstPort)
      /\ \A r \in Pcbs : r < target => ~Service!Covers(r, IfAddr, dstPort)
  <2>1. Selects(target, IfAddr, dstPort)
    BY <1>1 DEF StillSelected
  <2>2. \A r \in Pcbs : r < target => r \in 0..(target - 1)
    BY <1>1, TableAssumption DEF Pcbs
  <2> QED
    BY <1>1, <2>1, <2>2, CoversMatches DEF Selects
<1>5. Service!Deliver(target, dstPort)
  BY <1>1, <1>2, <1>3, <1>4 DEF Service!Deliver, Boxes, Arrived
<1> QED
  BY <1>1, <1>5

\* The push itself is unseen.
LEMMA PushUnseen ==
    ASSUME TypeOK, HandlePush
    PROVE  UNCHANGED Service!vars
<1> USE ThreadAssumption DEF TypeOK, Threads, history
<1>1. /\ target \in Pcbs
      /\ pc[IntrThread] = "in_push" /\ pc'[IntrThread] = "idle"
      /\ UNCHANGED <<state, endpoint, interrupted, received, arrivals>>
      /\ que' = [que EXCEPT ![target] = Append(@, arrivals)]
  BY DEF HandlePush, NotifyAll
<1>2. UNCHANGED Boxes
  <2>1. \A p \in Pcbs : Mailbox(p)' = Mailbox(p)
    BY <1>1 DEF Mailbox
  <2> QED
    BY <2>1 DEF Boxes
<1>3. UNCHANGED Arrived
  BY <1>1 DEF Arrived
<1> QED
  BY <1>1, <1>2, <1>3, Unseen

\* recvFrom is Take when it returns a datagram, and unseen when interrupted.
LEMMA TakeRefines ==
    ASSUME TypeOK, MutexOwners, CallsReady, ReceivesOpen, NEW t \in Callers, RecvTake(t)
    PROVE  (\E s \in Pcbs : Service!Take(s)) \/ UNCHANGED Service!vars
<1> USE ThreadAssumption DEF TypeOK, Threads, Move, Return, intrVars
<1>1. PICK b \in Pcbs : b = sock[t]
  OBVIOUS
<1>2. /\ UNCHANGED <<state, endpoint, interrupted, arrivals, target>>
      /\ pc'[IntrThread] = pc[IntrThread]
      /\ state[b] = "OPEN"
  BY <1>1 DEF RecvTake, ReceivesOpen
<1>3. ~(pc[IntrThread] = "in_push" /\ target = b)
  <2>1. pcbMutex[b] = t
    BY <1>1 DEF RecvTake, MutexOwners, Block
  <2> QED
    BY <2>1 DEF MutexOwners, Block
<1>4. CASE interrupted[b]
  <2>1. UNCHANGED <<que, received>>
    BY <1>1, <1>4 DEF RecvTake
  <2>2. UNCHANGED <<Boxes, Arrived>>
    BY <1>2, <2>1, BoxesStill
  <2> QED
    BY <1>2, <2>1, <2>2, Unseen
<1>5. CASE ~interrupted[b]
  <2>1. /\ que[b] # <<>>
        /\ received' = [received EXCEPT ![b] = Append(@, Head(que[b]))]
        /\ que' = [que EXCEPT ![b] = Tail(@)]
    BY <1>1, <1>5 DEF RecvTake, CallsReady, RecvReady
  <2>2. Boxes[b] = que[b] /\ Boxes' = [Boxes EXCEPT ![b] = Tail(@)]
    <3>1. \A p \in Pcbs : Mailbox(p)' = IF p = b THEN Tail(Mailbox(p)) ELSE Mailbox(p)
      BY <1>2, <1>3, <2>1 DEF Mailbox
    <3> QED
      BY <1>3, <3>1 DEF Boxes, Mailbox
  <2>3. UNCHANGED Arrived
    BY <1>2 DEF Arrived
  <2>4. Service!Take(b)
    BY <1>2, <1>5, <2>1, <2>2, <2>3 DEF Service!Take, Boxes, Arrived
  <2> QED
    BY <2>4
<1> QED
  BY <1>4, <1>5

\* A datagram no control block matches is dropped.
LEMMA DropRefines ==
    ASSUME NEW port \in Ports, HandleNone(port)
    PROVE  Service!Drop(port)
<1>1. /\ pc[IntrThread] = "idle" /\ arrivals' = arrivals + 1
      /\ UNCHANGED <<state, endpoint, que, interrupted, received, pc, target>>
  BY DEF HandleNone, history
<1>2. ~Service!Covered(IfAddr, port)
  BY CoversMatches DEF HandleNone
<1> QED
  BY <1>1, <1>2 DEF Service!Drop, Mailbox

\* A datagram that select found a socket for has not arrived yet.
LEMMA SelectUnseen ==
    ASSUME TypeOK, NEW port \in Ports, NEW p \in Pcbs, HandleSelect(p, port)
    PROVE  UNCHANGED Service!vars
<1>1. /\ pc[IntrThread] = "idle" /\ pc'[IntrThread] = "in_pcb"
      /\ arrivals \in Nat /\ arrivals' = arrivals + 1
      /\ UNCHANGED <<state, endpoint, que, interrupted, received>>
  BY BoundAssumption DEF HandleSelect, Move, history, TypeOK, Threads
<1>2. UNCHANGED Arrived
  BY <1>1 DEF Arrived
<1>3. UNCHANGED Boxes
  BY <1>1 DEF Boxes, Mailbox
<1> QED
  BY <1>1, <1>2, <1>3, Unseen

\* interruptAll is Flag, one socket at a time, and is otherwise unseen.
LEMMA EventRefines ==
    ASSUME TypeOK, FlagsOpen, EventBegin \/ EventScan \/ EventTouch \/ EventFlag \/ EventNotify
    PROVE  (\E s \in Pcbs : Service!Flag(s)) \/ UNCHANGED Service!vars
<1> USE ThreadAssumption DEF TypeOK, Threads, Move, intrVars, history
<1>1. /\ UNCHANGED <<state, endpoint, que, received, arrivals>>
      /\ pc[IntrThread] \notin {"in_pcb", "in_push"} /\ pc'[IntrThread] \notin {"in_pcb", "in_push"}
  BY DEF EventBegin, EventScan, EventTouch, EventFlag, EventNotify, NotifyAll
<1>2. UNCHANGED <<Boxes, Arrived>>
  BY <1>1, BoxesStill
<1>3. CASE EventFlag
  <2>1. PICK b \in Pcbs : b = target /\ state[b] = "OPEN"
    BY <1>3 DEF EventFlag, FlagsOpen
  <2>2. Flagged' = Flagged \cup {b}
    BY <1>3, <2>1 DEF EventFlag, Flagged
  <2>3. Service!Flag(b)
    BY <1>1, <1>2, <2>1, <2>2 DEF Service!Flag, Boxes, Arrived, Flagged
  <2> QED
    BY <2>3
<1>4. CASE UNCHANGED interrupted
  BY <1>1, <1>2, <1>4, Unseen
<1> QED
  BY <1>3, <1>4 DEF EventBegin, EventScan, EventTouch, EventNotify

\* The other steps only take a mutex, let one go, sleep or wake up.
LEMMA RestUnseen ==
    ASSUME TypeOK, NEW t \in Callers,
           \/ \E p \in Pcbs : SendLock(t, p) \/ RecvGet(t, p)
           \/ \E p \in Pcbs, ep \in Endpoints : BindSelect(t, p, ep)
           \/ RecvTest(t) \/ RecvBlock(t) \/ RecvSpurious(t)
    PROVE  UNCHANGED Service!vars
<1>1. /\ UNCHANGED <<state, endpoint, que, interrupted, received, arrivals, target>>
      /\ pc'[IntrThread] = pc[IntrThread]
  BY ThreadAssumption DEF SendLock, RecvGet, BindSelect, RecvTest, RecvBlock, RecvSpurious,
     Move, intrVars, history, TypeOK, Threads
<1>2. UNCHANGED <<Boxes, Arrived>>
  BY <1>1, BoxesStill
<1> QED
  BY <1>1, <1>2, Unseen

\* Every step of the socket layer is one of the service, or unseen.
LEMMA ServiceStep ==
    IInv /\ ServiceReady /\ [Next]_vars => [Service!Next]_(Service!vars)
<1> SUFFICES ASSUME TypeOK, MutexOwners, CallsReady, StillSelected, FlagsOpen, ReceivesOpen,
                    [Next]_vars
             PROVE  [Service!Next]_(Service!vars)
  BY DEF IInv, ServiceReady
<1>1. ASSUME NEW t \in Callers, Call(t) PROVE [Service!Next]_(Service!vars)
  <2>1. ASSUME NEW p \in Pcbs, Open(t, p) PROVE Service!Next
    BY <2>1, OpenRefines DEF Service!Next
  <2>2. ASSUME NEW p \in Pcbs, NEW addr \in Addrs, NEW port \in BindPorts,
               BindSelect(t, p, [addr |-> addr, port |-> port])
        PROVE  UNCHANGED Service!vars
    <3>1. [addr |-> addr, port |-> port] \in Endpoints
      BY PortAssumption DEF Endpoints, Ports
    <3> QED
      BY <2>2, <3>1, RestUnseen
  <2>3. ASSUME NEW p \in Pcbs, SendLock(t, p) \/ RecvGet(t, p) PROVE UNCHANGED Service!vars
    BY <2>3, RestUnseen
  <2> QED
    BY <1>1, <2>1, <2>2, <2>3 DEF Call
<1>2. ASSUME NEW t \in Callers, Continue(t) \/ RecvSpurious(t) PROVE [Service!Next]_(Service!vars)
  <2>1. CASE BindStore(t)
    BY <2>1, BindRefines DEF Service!Next
  <2>2. CASE SendLocal(t)
    BY <2>2, SendRefines DEF Service!Next
  <2>3. CASE RecvTest(t) \/ RecvBlock(t) \/ RecvSpurious(t)
    BY <2>3, RestUnseen
  <2>4. CASE RecvTake(t)
    BY <2>4, TakeRefines DEF Service!Next
  <2> QED
    BY <1>2, <2>1, <2>2, <2>3, <2>4 DEF Continue
<1>3. ASSUME NEW port \in Ports, HandleNone(port) PROVE Service!Next
  BY <1>3, DropRefines DEF Service!Next
<1>4. ASSUME NEW port \in Ports, NEW p \in Pcbs, HandleSelect(p, port) PROVE UNCHANGED Service!vars
  BY <1>4, SelectUnseen
<1>5. CASE HandleLock
  BY <1>5, LockRefines DEF Service!Next
<1>6. CASE HandlePush
  BY <1>6, PushUnseen
<1>7. CASE EventBegin \/ EventScan \/ EventTouch \/ EventFlag \/ EventNotify
  BY <1>7, EventRefines DEF Service!Next
<1>8. CASE UNCHANGED vars
  BY <1>8 DEF vars, intrVars, history, Service!vars, Mailbox
<1> QED
  BY <1>1, <1>2, <1>3, <1>4, <1>5, <1>6, <1>7, <1>8 DEF Next, Input, Upcall

\* The mutexes make calls and upcalls atomic to those who make them, for any
\* number of callers, sockets, ports and datagrams.
THEOREM ServiceImplemented == Spec => ImplementsService
<1>1. Init => Service!Init
  BY ServiceInit
<1>2. IInv /\ ServiceReady /\ [Next]_vars => [Service!Next]_(Service!vars)
  BY ServiceStep
<1> QED
  BY <1>1, <1>2, Inductive, ReadyForService, PTL DEF Spec, ImplementsService, Service!Spec
=============================================================================
