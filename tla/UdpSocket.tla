------------------------------ MODULE UdpSocket ------------------------------
(***************************************************************************)
(* The UDP socket layer: the table of protocol control blocks that         *)
(* UdpPcbManager owns (lib/UdpControlBlock.cpp), the four calls of         *)
(* UdpSocket and the two upcalls, UdpHandler and UdpEventHandler, that the *)
(* interrupt thread makes into the table (lib/Udp.cpp).                    *)
(*                                                                         *)
(* A step is a piece of code between two points where another thread can   *)
(* be seen or heard: the acquisition of a mutex, an access that no mutex   *)
(* protects, going to sleep in cv.wait.  A critical section that acquires  *)
(* nothing further and touches only what its mutexes protect is one step.  *)
(***************************************************************************)
EXTENDS Integers, Sequences

CONSTANTS
    NumPcbs,        \* length of udpPcbList (100 in the code)
    Callers,        \* the threads that call members of UdpSocket
    IntrThread,     \* the interrupt thread
    NoThread,       \* owner of a free mutex
    AnyAddr,        \* IP_ADDR_ANY
    IfAddr,         \* unicast address of the interface every route names
    OtherAddrs,     \* further addresses a caller may bind to
    MaxPort,        \* largest std::uint16_t (65535)
    SourcePortMin,  \* SOURCE_PORT_MIN (39584); SOURCE_PORT_MAX is MaxPort
    BindPorts,      \* bound: the ports callers bind to
    MaxArrivals,    \* bound: datagrams the interrupt thread hands over
    MaxEvents       \* bound: event signals the interrupt thread handles

ASSUME TableAssumption == NumPcbs \in Nat \ {0}

\* The uint16_t ports are more numerous than the control blocks, as 65536 and
\* 100 are: the port search of sendTo ends.
ASSUME PortAssumption ==
    /\ MaxPort \in Nat
    /\ SourcePortMin \in 1..MaxPort
    /\ BindPorts \subseteq 0..MaxPort
    /\ NumPcbs <= MaxPort

ASSUME ThreadAssumption ==
    /\ IntrThread \notin Callers
    /\ NoThread \notin Callers \cup {IntrThread}

ASSUME AddrAssumption ==
    /\ AnyAddr # IfAddr
    /\ AnyAddr \notin OtherAddrs
    /\ IfAddr \notin OtherAddrs

ASSUME BoundAssumption == MaxArrivals \in Nat /\ MaxEvents \in Nat

Pcbs == 0..(NumPcbs - 1)
Ports == 0..MaxPort
Addrs == {AnyAddr, IfAddr} \cup OtherAddrs
Threads == Callers \cup {IntrThread}
Endpoints == [addr : Addrs, port : Ports]       \* ipv4::IpEndpoint
Unbound == [addr |-> AnyAddr, port |-> 0]       \* what alloc leaves

VARIABLES
    state,          \* elm.state; CLOSING is declared in the code, never stored
    endpoint,       \* elm.endpoint
    que,            \* elm.que: a datagram is the number of its arrival
    interrupted,    \* elm.interrupted
    mgrMutex,       \* owner of UdpPcbManager::mutex
    pcbMutex,       \* owner of elm.mutex
    pc,             \* where each thread is
    sock,           \* pcbId of the socket a caller's call is made on
    bindArg,        \* the endpoint a caller's bind asks for
    target,         \* interrupt thread: control block it works on
    dstPort,        \* interrupt thread: destination port of its datagram
    arrivals,       \* datagrams handed to UdpHandler so far
    events,         \* event signals handed to UdpEventHandler so far
    received,       \* history: datagrams recvFrom returned, per socket
    autoBound       \* history: sockets whose port sendTo chose

callVars == <<sock, bindArg>>
intrVars == <<target, dstPort, arrivals, events>>
history == <<received, autoBound>>
vars == <<state, endpoint, que, interrupted, mgrMutex, pcbMutex, pc,
          callVars, intrVars, history>>

-----------------------------------------------------------------------------
(* The table: UdpPcbManager::select and the cv of a control block. *)

\* Mutant: the wildcard has no meaning of its own.
MatchesExact(p, addr, port) ==
    /\ state[p] = "OPEN"
    /\ endpoint[p].addr = addr
    /\ endpoint[p].port = port

\* The test of one element in UdpPcbManager::select.
Matches(p, addr, port) ==
    /\ state[p] = "OPEN"
    /\ endpoint[p].addr \in {AnyAddr, addr}
    /\ endpoint[p].port = port

\* select(addr, port) returns p, the first element that matches ...
Selects(p, addr, port) ==
    /\ Matches(p, addr, port)
    /\ \A q \in 0..(p - 1) : ~Matches(q, addr, port)

\* ... or unexpected{-1}.
SelectsNone(addr, port) == \A p \in Pcbs : ~Matches(p, addr, port)

\* Mutants: the loop starts one port late, or one port early.
TriedPortLate(n) == SourcePortMin + 1 + n
TriedPortEarly(n) == (SourcePortMin + n - 1) % (MaxPort + 1)

\* The n-th value of the loop variable p in sendTo: a uint16_t, so that
\* p <= SOURCE_PORT_MAX always holds and p++ wraps to 0 after MaxPort.
TriedPort(n) == (SourcePortMin + n) % (MaxPort + 1)

Sleepers(p) == {t \in Callers : pc[t] = "recv_sleep" /\ sock[t] = p}

Move(t, label) == pc' = [pc EXCEPT ![t] = label]

\* A call returns; its locals go with it.
Return(t) ==
    /\ Move(t, "idle")
    /\ sock' = [sock EXCEPT ![t] = 0]
    /\ bindArg' = [bindArg EXCEPT ![t] = Unbound]

\* The interrupt thread calls elm.cv.notify_all() and goes on at label.
NotifyAll(p, label) ==
    pc' = [t \in Threads |-> IF t = IntrThread THEN label
                             ELSE IF t \in Sleepers(p) THEN "recv_lock"
                             ELSE pc[t]]

Init ==
    /\ state = [p \in Pcbs |-> "FREE"]
    \* Not initialised by the constructor, and not read while FREE.
    /\ endpoint = [p \in Pcbs |-> Unbound]
    /\ que = [p \in Pcbs |-> <<>>]
    /\ interrupted = [p \in Pcbs |-> FALSE]
    /\ mgrMutex = NoThread
    /\ pcbMutex = [p \in Pcbs |-> NoThread]
    /\ pc = [t \in Threads |-> "idle"]
    /\ sock = [t \in Callers |-> 0]
    /\ bindArg = [t \in Callers |-> Unbound]
    /\ target = 0
    /\ dstPort = 0
    /\ arrivals = 0
    /\ events = 0
    /\ received = [p \in Pcbs |-> <<>>]
    /\ autoBound = {}

-----------------------------------------------------------------------------
(* Mutants: a plausible mistake in the handler each is named for. *)

\* The guard of bind is an unnamed temporary, as those of interruptAll are.
BindSelectUnlocked(t, p, ep) ==
    /\ pc[t] = "idle" /\ state[p] = "OPEN"
    /\ mgrMutex = NoThread
    /\ SelectsNone(ep.addr, ep.port)
    /\ sock' = [sock EXCEPT ![t] = p]
    /\ bindArg' = [bindArg EXCEPT ![t] = ep]
    /\ Move(t, "bind_pcb")
    /\ UNCHANGED <<state, endpoint, que, interrupted, mgrMutex, pcbMutex,
                   intrVars, history>>

\* bind stores the endpoint without the block's mutex.
BindStoreUnlocked(t) ==
    /\ pc[t] = "bind_pcb"
    /\ endpoint' = [endpoint EXCEPT ![sock[t]] = bindArg[t]]
    /\ autoBound' = autoBound \ {sock[t]}
    /\ mgrMutex' = NoThread
    /\ Return(t)
    /\ UNCHANGED <<state, que, interrupted, pcbMutex, intrVars, received>>

\* sendTo takes the first port of its range without a search.
SendLocalUnsearched(t) ==
    /\ pc[t] = "send_pcb" /\ pcbMutex[sock[t]] = NoThread
    /\ endpoint' = [endpoint EXCEPT ![sock[t]].port = SourcePortMin]
    /\ autoBound' = autoBound \cup {sock[t]}
    /\ mgrMutex' = NoThread
    /\ Return(t)
    /\ UNCHANGED <<state, que, interrupted, pcbMutex, intrVars, received>>

\* recvFrom reads the front of the queue and does not pop it.
RecvTakeNoPop(t) ==
    /\ pc[t] = "recv_take"
    /\ IF interrupted[sock[t]] THEN UNCHANGED received
       ELSE received' = [received EXCEPT ![sock[t]] = Append(@, Head(que[sock[t]]))]
    /\ pcbMutex' = [pcbMutex EXCEPT ![sock[t]] = NoThread]
    /\ Return(t)
    /\ UNCHANGED <<state, endpoint, que, interrupted, mgrMutex, intrVars, autoBound>>

\* The guard of UdpHandler is an unnamed temporary.
HandleSelectUnlocked(p, port) ==
    /\ pc[IntrThread] = "idle" /\ arrivals < MaxArrivals
    /\ mgrMutex = NoThread
    /\ Selects(p, IfAddr, port)
    /\ arrivals' = arrivals + 1
    /\ target' = p
    /\ dstPort' = port
    /\ Move(IntrThread, "in_pcb")
    /\ UNCHANGED <<state, endpoint, que, interrupted, mgrMutex, pcbMutex,
                   callVars, events, history>>

\* UdpHandler keeps the manager's mutex for the push.
HandleLockKeeping ==
    /\ pc[IntrThread] = "in_pcb" /\ pcbMutex[target] = NoThread
    /\ pcbMutex' = [pcbMutex EXCEPT ![target] = IntrThread]
    /\ Move(IntrThread, "in_push")
    /\ UNCHANGED <<state, endpoint, que, interrupted, mgrMutex, callVars,
                   intrVars, history>>

\* UdpHandler pushes and does not notify.
HandlePushSilent ==
    /\ pc[IntrThread] = "in_push"
    /\ que' = [que EXCEPT ![target] = Append(@, arrivals)]
    /\ Move(IntrThread, "idle")
    /\ pcbMutex' = [pcbMutex EXCEPT ![target] = NoThread]
    /\ target' = 0
    /\ dstPort' = 0
    /\ UNCHANGED <<state, endpoint, interrupted, mgrMutex, callVars, arrivals,
                   events, history>>

\* interruptAll waits for a FREE element to be opened.
EventScanStuck ==
    /\ pc[IntrThread] = "ev_scan"
    /\ \/ target = NumPcbs /\ target' = 0 /\ Move(IntrThread, "idle")
       \/ /\ target < NumPcbs /\ state[target] = "OPEN"
          /\ Move(IntrThread, "ev_touch")
          /\ UNCHANGED target
    /\ UNCHANGED <<state, endpoint, que, interrupted, mgrMutex, pcbMutex,
                   callVars, dstPort, arrivals, events, history>>

\* interruptAll stores the flag and does not notify.
EventNotifySilent ==
    /\ pc[IntrThread] = "ev_notify"
    /\ Move(IntrThread, "ev_scan")
    /\ target' = target + 1
    /\ UNCHANGED <<state, endpoint, que, interrupted, mgrMutex, pcbMutex,
                   callVars, dstPort, arrivals, events, history>>

-----------------------------------------------------------------------------
(* UdpSocket::open: UdpPcbManager::alloc under the manager's mutex.  With   *)
(* no element FREE it returns unexpected{-1} and changes nothing.          *)
Open(t, p) ==
    /\ pc[t] = "idle"
    /\ mgrMutex = NoThread
    /\ state[p] = "FREE"
    /\ \A q \in 0..(p - 1) : state[q] # "FREE"
    /\ state' = [state EXCEPT ![p] = "OPEN"]
    /\ endpoint' = [endpoint EXCEPT ![p] = Unbound]
    /\ UNCHANGED <<que, interrupted, mgrMutex, pcbMutex, pc, callVars,
                   intrVars, history>>

(* UdpSocket::bind, first half: a conflict returns unexpected{-1}; without  *)
(* one the caller keeps the manager's mutex and goes for the block's.      *)
BindSelect(t, p, ep) ==
    /\ pc[t] = "idle"
    /\ state[p] = "OPEN"
    /\ mgrMutex = NoThread
    /\ SelectsNone(ep.addr, ep.port)
    /\ mgrMutex' = t
    /\ sock' = [sock EXCEPT ![t] = p]
    /\ bindArg' = [bindArg EXCEPT ![t] = ep]
    /\ Move(t, "bind_pcb")
    /\ UNCHANGED <<state, endpoint, que, interrupted, pcbMutex, intrVars,
                   history>>

(* UdpSocket::bind, second half: the endpoint is stored with both mutexes   *)
(* held, and both are released.                                            *)
BindStore(t) ==
    /\ pc[t] = "bind_pcb"
    /\ pcbMutex[sock[t]] = NoThread
    /\ endpoint' = [endpoint EXCEPT ![sock[t]] = bindArg[t]]
    /\ autoBound' = autoBound \ {sock[t]}
    /\ mgrMutex' = NoThread
    /\ Return(t)
    /\ UNCHANGED <<state, que, interrupted, pcbMutex, intrVars,
                   received>>

(* UdpSocket::sendTo up to the block's mutex.  The socket came from open    *)
(* and nothing closes it, so the test of its state does not throw.         *)
SendLock(t, p) ==
    /\ pc[t] = "idle"
    /\ state[p] = "OPEN"
    /\ mgrMutex = NoThread
    /\ mgrMutex' = t
    /\ sock' = [sock EXCEPT ![t] = p]
    /\ Move(t, "send_pcb")
    /\ UNCHANGED <<state, endpoint, que, interrupted, pcbMutex, bindArg,
                   intrVars, history>>

\* The address a datagram leaves with: that of the route when the socket is
\* bound to the wildcard.
LocalAddr(p) ==
    IF endpoint[p].addr = AnyAddr THEN IfAddr ELSE endpoint[p].addr

(* UdpSocket::sendTo with both mutexes: a socket without a port is given    *)
(* the first one its search finds free.  Both mutexes are released before  *)
(* udp_output, which touches nothing of this module.                       *)
SendLocal(t) ==
    LET p == sock[t] IN
    /\ pc[t] = "send_pcb"
    /\ pcbMutex[p] = NoThread
    /\ \/ /\ endpoint[p].port # 0
          /\ UNCHANGED <<endpoint, autoBound>>
       \/ /\ endpoint[p].port = 0
          /\ \E n \in 0..MaxPort :
                /\ SelectsNone(LocalAddr(p), TriedPort(n))
                /\ \A m \in 0..(n - 1) : ~SelectsNone(LocalAddr(p), TriedPort(m))
                /\ endpoint' = [endpoint EXCEPT ![p].port = TriedPort(n)]
          /\ autoBound' = autoBound \cup {p}
    /\ mgrMutex' = NoThread
    /\ Return(t)
    /\ UNCHANGED <<state, que, interrupted, pcbMutex, intrVars,
                   received>>

-----------------------------------------------------------------------------
(* UdpSocket::recvFrom. *)

\* The block is looked up under the manager's mutex, which is released again
\* before the block's own is taken.
RecvGet(t, p) ==
    /\ pc[t] = "idle"
    /\ state[p] = "OPEN"
    /\ mgrMutex = NoThread
    /\ sock' = [sock EXCEPT ![t] = p]
    /\ Move(t, "recv_lock")
    /\ UNCHANGED <<state, endpoint, que, interrupted, mgrMutex, pcbMutex,
                   bindArg, intrVars, history>>

\* The predicate passed to cv.wait.
RecvReady(p) == que[p] # <<>> \/ interrupted[p]

\* Lock, or lock again after a wakeup in cv.wait, and evaluate the predicate.
RecvTest(t) ==
    /\ pc[t] = "recv_lock"
    /\ pcbMutex[sock[t]] = NoThread
    /\ pcbMutex' = [pcbMutex EXCEPT ![sock[t]] = t]
    /\ Move(t, IF RecvReady(sock[t]) THEN "recv_take" ELSE "recv_block")
    /\ UNCHANGED <<state, endpoint, que, interrupted, mgrMutex, callVars,
                   intrVars, history>>

\* cv.wait enters the wait set and releases the block's mutex, in one step.
RecvBlock(t) ==
    /\ pc[t] = "recv_block"
    /\ pcbMutex' = [pcbMutex EXCEPT ![sock[t]] = NoThread]
    /\ Move(t, "recv_sleep")
    /\ UNCHANGED <<state, endpoint, que, interrupted, mgrMutex, callVars,
                   intrVars, history>>

\* A spurious wakeup, which std::condition_variable allows.
RecvSpurious(t) ==
    /\ pc[t] = "recv_sleep"
    /\ Move(t, "recv_lock")
    /\ UNCHANGED <<state, endpoint, que, interrupted, mgrMutex, pcbMutex,
                   callVars, intrVars, history>>

\* The flag is read a second time, and it wins over a queued datagram.  The
\* code reads the sender and the size after pop(); the element's bytes are
\* still those of the datagram it took, the mutex being held.
RecvTake(t) ==
    LET p == sock[t] IN
    /\ pc[t] = "recv_take"
    /\ \/ /\ interrupted[p]
          /\ UNCHANGED <<que, received>>
       \/ /\ ~interrupted[p]
          /\ received' = [received EXCEPT ![p] = Append(@, Head(que[p]))]
          /\ que' = [que EXCEPT ![p] = Tail(@)]
    /\ pcbMutex' = [pcbMutex EXCEPT ![p] = NoThread]
    /\ Return(t)
    /\ UNCHANGED <<state, endpoint, interrupted, mgrMutex, intrVars,
                   autoBound>>

-----------------------------------------------------------------------------
(* UdpHandler::handle, for a datagram whose checksum holds.  Its            *)
(* destination address is the interface's: Ipv4ProtocolHandler saw to it.  *)

\* No control block: the datagram is dropped.
HandleNone(port) ==
    /\ pc[IntrThread] = "idle"
    /\ arrivals < MaxArrivals
    /\ mgrMutex = NoThread
    /\ SelectsNone(IfAddr, port)
    /\ arrivals' = arrivals + 1
    /\ UNCHANGED <<state, endpoint, que, interrupted, mgrMutex, pcbMutex, pc,
                   callVars, target, dstPort, events, history>>

HandleSelect(p, port) ==
    /\ pc[IntrThread] = "idle"
    /\ arrivals < MaxArrivals
    /\ mgrMutex = NoThread
    /\ Selects(p, IfAddr, port)
    /\ arrivals' = arrivals + 1
    /\ target' = p
    /\ dstPort' = port
    /\ mgrMutex' = IntrThread
    /\ Move(IntrThread, "in_pcb")
    /\ UNCHANGED <<state, endpoint, que, interrupted, pcbMutex, callVars,
                   events, history>>

\* Hand over hand: the block's mutex is taken before the manager's is let go.
HandleLock ==
    /\ pc[IntrThread] = "in_pcb"
    /\ pcbMutex[target] = NoThread
    /\ pcbMutex' = [pcbMutex EXCEPT ![target] = IntrThread]
    /\ mgrMutex' = NoThread
    /\ Move(IntrThread, "in_push")
    /\ UNCHANGED <<state, endpoint, que, interrupted, callVars, intrVars,
                   history>>

HandlePush ==
    /\ pc[IntrThread] = "in_push"
    /\ que' = [que EXCEPT ![target] = Append(@, arrivals)]
    /\ NotifyAll(target, "idle")
    /\ pcbMutex' = [pcbMutex EXCEPT ![target] = NoThread]
    /\ target' = 0
    /\ dstPort' = 0
    /\ UNCHANGED <<state, endpoint, interrupted, mgrMutex, callVars, arrivals,
                   events, history>>

-----------------------------------------------------------------------------
(* UdpEventHandler::handle and UdpPcbManager::interruptAll.  Both guards    *)
(* are unnamed temporaries, `std::lock_guard<std::mutex>(m);`: they lock   *)
(* and unlock at once, and the loop runs with no mutex held.               *)

EventBegin ==
    /\ pc[IntrThread] = "idle"
    /\ events < MaxEvents
    /\ mgrMutex = NoThread
    /\ events' = events + 1
    /\ target' = 0
    /\ Move(IntrThread, "ev_scan")
    /\ UNCHANGED <<state, endpoint, que, interrupted, mgrMutex, pcbMutex,
                   callVars, dstPort, arrivals, history>>

\* The head of the loop: the end of the table, an OPEN element or another.
EventScan ==
    /\ pc[IntrThread] = "ev_scan"
    /\ \/ /\ target = NumPcbs
          /\ target' = 0
          /\ Move(IntrThread, "idle")
       \/ /\ target < NumPcbs
          /\ state[target] = "OPEN"
          /\ Move(IntrThread, "ev_touch")
          /\ UNCHANGED target
       \/ /\ target < NumPcbs
          /\ state[target] # "OPEN"
          /\ target' = target + 1
          /\ UNCHANGED pc
    /\ UNCHANGED <<state, endpoint, que, interrupted, mgrMutex, pcbMutex,
                   callVars, dstPort, arrivals, events, history>>

EventTouch ==
    /\ pc[IntrThread] = "ev_touch"
    /\ pcbMutex[target] = NoThread
    /\ Move(IntrThread, "ev_flag")
    /\ UNCHANGED <<state, endpoint, que, interrupted, mgrMutex, pcbMutex,
                   callVars, intrVars, history>>

EventFlag ==
    /\ pc[IntrThread] = "ev_flag"
    /\ interrupted' = [interrupted EXCEPT ![target] = TRUE]
    /\ Move(IntrThread, "ev_notify")
    /\ UNCHANGED <<state, endpoint, que, mgrMutex, pcbMutex, callVars,
                   intrVars, history>>

EventNotify ==
    /\ pc[IntrThread] = "ev_notify"
    /\ NotifyAll(target, "ev_scan")
    /\ target' = target + 1
    /\ UNCHANGED <<state, endpoint, que, interrupted, mgrMutex, pcbMutex,
                   callVars, dstPort, arrivals, events, history>>

-----------------------------------------------------------------------------
\* A caller chooses its next call.
Call(t) ==
    \E p \in Pcbs :
        \/ Open(t, p)
        \/ \E addr \in Addrs, port \in BindPorts :
              BindSelect(t, p, [addr |-> addr, port |-> port])
        \/ SendLock(t, p)
        \/ RecvGet(t, p)

\* A caller goes on with the call it is in.
Continue(t) ==
    \/ BindStore(t)
    \/ SendLocal(t)
    \/ RecvTest(t)
    \/ RecvBlock(t)
    \/ RecvTake(t)

\* A datagram or an event signal reaches the interrupt thread.
Input ==
    \/ \E port \in Ports :
          \/ HandleNone(port)
          \/ \E p \in Pcbs : HandleSelect(p, port)
    \/ EventBegin

\* The interrupt thread goes on with the upcall it is in.
Upcall ==
    \/ HandleLock
    \/ HandlePush
    \/ EventScan
    \/ EventTouch
    \/ EventFlag
    \/ EventNotify

Next ==
    \/ \E t \in Callers : Call(t) \/ Continue(t) \/ RecvSpurious(t)
    \/ Input
    \/ Upcall

Spec == Init /\ [][Next]_vars

\* The threads are scheduled, and a thread that asks for a mutex again each
\* time it is released is not beaten to it for ever.  Nothing makes a caller
\* call, or a datagram or a signal arrive.
Fairness ==
    /\ \A t \in Callers : SF_vars(Continue(t))
    /\ SF_vars(Upcall)

FairSpec == Spec /\ Fairness

-----------------------------------------------------------------------------
(* Invariants. *)

Labels == {"idle", "bind_pcb", "send_pcb", "recv_lock", "recv_block",
           "recv_sleep", "recv_take"}
IntrLabels == {"idle", "in_pcb", "in_push", "ev_scan", "ev_touch", "ev_flag",
               "ev_notify"}

\* Every variable has its type; the cursor of interruptAll may stand one past
\* the table, and only between two elements.
TypeOK ==
    /\ state \in [Pcbs -> {"FREE", "OPEN"}]
    /\ endpoint \in [Pcbs -> Endpoints]
    /\ que \in [Pcbs -> Seq(1..MaxArrivals)]
    /\ interrupted \in [Pcbs -> BOOLEAN]
    /\ mgrMutex \in Threads \cup {NoThread}
    /\ pcbMutex \in [Pcbs -> Threads \cup {NoThread}]
    /\ pc \in [Threads -> Labels \cup IntrLabels]
    /\ \A t \in Callers : pc[t] \in Labels
    /\ pc[IntrThread] \in IntrLabels
    /\ sock \in [Callers -> Pcbs]
    /\ bindArg \in [Callers -> Endpoints]
    /\ target \in 0..NumPcbs
    /\ pc[IntrThread] # "ev_scan" => target \in Pcbs
    /\ dstPort \in Ports
    /\ arrivals \in 0..MaxArrivals
    /\ events \in 0..MaxEvents
    /\ received \in [Pcbs -> Seq(1..MaxArrivals)]
    /\ autoBound \subseteq Pcbs

\* The control block a thread works on.
Block(t) == IF t = IntrThread THEN target ELSE sock[t]

\* std::mutex is neither recursive nor released by a stranger: a mutex is
\* owned by the one thread that stands in code which holds it, the manager's
\* by bind, sendTo and UdpHandler, a block's by recvFrom and UdpHandler.
MutexOwners ==
    /\ \A t \in Threads :
          mgrMutex = t <=> pc[t] \in {"bind_pcb", "send_pcb", "in_pcb"}
    /\ \A t \in Threads, p \in Pcbs :
          pcbMutex[p] = t <=>
              /\ pc[t] \in {"recv_block", "recv_take", "in_push"}
              /\ Block(t) = p

\* Hand-over-hand locking in UdpHandler::handle: between select and the push
\* nobody rebinds the chosen socket, although the manager's mutex is free by
\* then, so a datagram is queued on a socket its destination still names.
DeliveredWhereBound ==
    pc[IntrThread] \in {"in_pcb", "in_push"} => Matches(target, IfAddr, dstPort)

\* bind tests for a conflict before it has the block's mutex: no two sockets
\* end up on one endpoint, whatever bind and sendTo run in other threads.
UniqueEndpoints ==
    \A p, q \in Pcbs :
        /\ state[p] = "OPEN" /\ state[q] = "OPEN"
        /\ endpoint[p] = endpoint[q]
        => p = q \/ endpoint[p] = Unbound

\* A socket whose port sendTo chose is the one select finds for that port at
\* the interface's address: an answer to what it sent is queued on it and on
\* no socket bound before or since.
AnswersReachSender ==
    \A p \in autoBound :
        endpoint[p].addr = AnyAddr => Selects(p, IfAddr, endpoint[p].port)

\* A receiver goes to sleep after it looked at the queue: it never sleeps, nor
\* is it on its way to, while a datagram is queued on its socket.
NoSleepOnDatagram ==
    \A t \in Callers :
        pc[t] \in {"recv_block", "recv_sleep"} => que[sock[t]] = <<>>

\* What recvFrom returned on a socket, followed by what waits there, is in the
\* order UdpHandler was given it, without a repetition, on one socket only.
InOrder ==
    /\ \A p \in Pcbs : LET s == received[p] \o que[p] IN
          \A i, j \in 1..Len(s) : i < j => s[i] < s[j]
    /\ \A p, q \in Pcbs : p # q =>
          \A i \in 1..Len(received[p] \o que[p]), j \in 1..Len(received[q] \o que[q]) :
              (received[p] \o que[p])[i] # (received[q] \o que[q])[j]

\* The wait predicate of recvFrom says when the caller must not be asleep: once
\* interrupted is stored, a receiver still asleep is about to be notified.
NoSleepOnInterrupt ==
    \A t \in Callers :
        pc[t] = "recv_sleep" /\ interrupted[sock[t]] =>
            pc[IntrThread] = "ev_notify" /\ target = sock[t]

-----------------------------------------------------------------------------
(* Action properties. *)

\* A port sendTo chooses lies in SOURCE_PORT_MIN..SOURCE_PORT_MAX although the
\* loop variable wraps, as long as the table is no larger than that range.
ChosenPortInRange ==
    [][\A p \in Pcbs :
          p \in autoBound' /\ p \notin autoBound /\ endpoint[p].port = 0 =>
              endpoint'[p].port \in SourcePortMin..MaxPort]_vars

\* The endpoint of an open socket changes only with the manager's mutex held
\* and the block's own free for the taking: a reader who holds either of them
\* sees it stand still.
EndpointGuarded ==
    [][\A p \in Pcbs :
          state[p] = "OPEN" /\ endpoint'[p] # endpoint[p] =>
              mgrMutex \in Callers /\ pcbMutex[p] = NoThread]_vars

\* A socket bound to the wildcard address is the only one with its port.
AloneOnPort(p) ==
    /\ state[p] = "OPEN"
    /\ endpoint[p].addr = AnyAddr /\ endpoint[p].port # 0
    /\ \A q \in Pcbs \ {p} : state[q] = "OPEN" => endpoint[q].port # endpoint[p].port

\* The conflict test of bind depends on the order of two calls: it passes a
\* wildcard after a specific address with the same port, and then the order in
\* the table says which of the two gets a datagram.  It must not pass them the
\* other way round: a wildcard socket that has its port for itself keeps it
\* until it is bound anew, whatever other threads bind or send, and however
\* long ago their test was when they store.
WildcardKeepsPort ==
    [][\A p \in Pcbs :
          AloneOnPort(p) /\ endpoint'[p] = endpoint[p] => AloneOnPort(p)']_vars

-----------------------------------------------------------------------------
(* Refinement. *)

\* The datagram UdpHandler holds both a socket and its mutex for is already
\* in that socket's mailbox; one for which it waits for the mutex has not
\* arrived yet.
Mailbox(p) ==
    IF pc[IntrThread] = "in_push" /\ target = p THEN Append(que[p], arrivals)
                                                 ELSE que[p]

Service == INSTANCE UdpService WITH
    Sockets <- Pcbs,
    open <- {p \in Pcbs : state[p] = "OPEN"},
    bound <- endpoint,
    box <- [p \in Pcbs |-> Mailbox(p)],
    taken <- received,
    flagged <- {p \in Pcbs : interrupted[p]},
    arrived <- IF pc[IntrThread] = "in_pcb" THEN arrivals - 1 ELSE arrivals

\* The mutexes make every call and upcall of the socket layer atomic: what its
\* callers see is what UdpService allows, hand-over-hand locking, the unlocked
\* interruptAll and the second read of interrupted notwithstanding.
ImplementsService == Service!Spec

-----------------------------------------------------------------------------
(* Liveness, under Fairness. *)

\* Callers cannot hold the interrupt thread up for ever: every upcall returns.
UpcallReturns == pc[IntrThread] # "idle" ~> pc[IntrThread] = "idle"

InRecv(t, p) ==
    /\ sock[t] = p
    /\ pc[t] \in {"recv_lock", "recv_block", "recv_sleep", "recv_take"}

\* A datagram queued on a socket that is being received from is taken, or the
\* receiver returns.
DatagramTaken ==
    \A t \in Callers, p \in Pcbs :
        (InRecv(t, p) /\ que[p] # <<>>) ~> (~InRecv(t, p) \/ que[p] = <<>>)

\* A receiver already asleep when an event signal is handled is woken by it.
EventWakesSleeper ==
    \A t \in Callers :
        (/\ pc[t] = "recv_sleep"
         /\ pc[IntrThread] = "ev_scan"
         /\ target = 0
         /\ state[sock[t]] = "OPEN")
        ~> pc[t] # "recv_sleep"
=============================================================================
