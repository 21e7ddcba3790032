# A TLA+ model of suika

suika is a small protocol stack in user space: a Linux tap device, Ethernet,
ARP, IPv4, ICMP and UDP, and a main program that is a UDP echo server. These
modules model the parts of it that two threads, signals, sixteen-bit numbers
and uncaught exceptions make hard to test. TLC checks them on small instances;
TLAPS proves every safety property for every instance.

## The system

| part | state | operations | talks to |
|---|---|---|---|
| Server (`main.cpp`) | `terminate` | start-up, receive/echo loop, `on_signal`, shutdown | everything below |
| Tap device (`lib/EtherDevice.*`) | file descriptor, address | `open`, `handler` (reads one frame), `transmit` | the kernel by signals; protocol queues; SIGUSR1 to its own thread |
| Interrupt thread (`lib/Interrupt.h`, `lib/Protocol.h`) | signal mask, thread, barrier, `protocolQueues` | `run`, the sigwait loop, `handleProtocolSignal`, `handleEventSignal`, `shutdown` | device handler, ARP and IPv4 handlers, UDP event handler |
| ARP (`lib/Arp.*`, `lib/ArpCache.h`) | the cache, with a mutex | handler, reply, `arpResolve`, `arpRequest` | device; called by the interrupt thread and by senders |
| IPv4 (`lib/Ipv4.*`, `lib/Ipv4Data.h`, `lib/RouteTable.h`) | routes, identification counter | handler, `ipv4_output` | ICMP and UDP handlers, ARP, device |
| ICMP (`lib/Icmp.*`) | none | handler, `replyIcmp`, `sendIcmp` (no caller) | IPv4 |
| UDP sockets (`lib/Udp.*`, `lib/UdpControlBlock.*`) | table of 100 control blocks: state, endpoint, queue, `interrupted`, mutex, condition variable; a mutex for the table | `open`, `bind`, `sendTo`, `recvFrom`; `UdpHandler`, `UdpEventHandler` as upcalls | IPv4 |
| Layouts, checksums, addresses (`lib/BinaryPayload.h`, `lib/EtherFrame.h`, `lib/ArpData.h`, `lib/Ipv4Data.h`, `lib/UdpData.h`, `lib/IcmpData.h`, `lib/IpUtils.h`) | a byte vector each | reads and writes of fields, payloads, `calculateChecksum`, text forms of addresses | used by every handler |
| Interfaces, logger, utilities, tests | constant or none | | |

Two threads run: main, which calls socket operations, and the interrupt
thread, which does everything that arrives. (Tests, and other users of the
library, may call socket operations in several threads.) They share the table
of control blocks, the ARP cache and the identification counter, each with
mutexes. The kernel announces frames by a queued real-time signal; the device
handler passes frames on through queues and SIGUSR1, which does not queue;
`on_signal` reaches a sleeping main through `terminate`, SIGUSR2, the interrupt
thread, `interrupted` and a condition variable.

What is hard, and what would make each part correct:

* **Sockets.** Hand-over-hand locking in `UdpHandler`; a check and a store with a
  wait in between in `bind`; a condition variable notified without its mutex in
  `interruptAll`; a port search whose loop condition is always true.
  Correct: endpoints are unique, a datagram is queued where its destination is
  bound, an answer reaches who asked, nothing is lost, doubled or reordered,
  nobody sleeps over a datagram or an interrupt.
* **Interrupt thread and signals.** Windows during start-up in which a signal is
  fatal or absent; a signal that does not queue; a read that blocks; a queue
  drained out of order. Correct: signals and frames stay in step, no frame is
  forgotten, the process is not killed and it can end.
* **Layouts and checksums.** Offsets that depend on lengths in the packet, bytes that
  fill up a frame, folding once, odd lengths, a payload longer than what was sent.
  Correct: what arrived intact is accepted and read as it was meant, what is sent is
  the packet the RFCs ask for.
* **ARP, IPv4, ICMP.** A cache filled in one thread and read in two, in separate
  critical sections; exceptions nobody catches in the interrupt thread; a counter
  that wraps. Correct: one entry for an address, packets go to the gateway,
  identifications differ, harmless traffic is harmless.
* **Server.** A datagram is taken before its echo can be sent, the gateway may be
  unknown then, a SIGINT may come at any moment. Correct: datagrams are answered in
  order, once each, and lost only for want of the gateway's address.

The complete list of hazards, each at its line, is in `PROJECT.json`.

## The modules

| module | models |
|---|---|
| `UdpSocket` | the table of control blocks, the four socket calls, the two upcalls |
| `UdpService` | what the socket layer promises: the same operations, each in one step, without mutexes |
| `UdpSocketProofs`, `UdpOrderProofs`, `UdpServiceProofs` | theorems about `UdpSocket`, with proofs: its invariants, the order of datagrams, that it implements `UdpService` |
| `Interrupt` | start-up, signals, the device handler, the queues, the main loop, shutdown |
| `InterruptProofs` | theorems about `Interrupt` |
| `Layout` | packets as bytes: fields, payloads, text forms of addresses, checksums; operators only |
| `LayoutProofs` | lemmas about the operators of `Layout`: loops, sums, writes and reads of fields |
| `Datagram` | one frame through all handlers, from a client's packet to the answer, as bytes |
| `DatagramProofs` | theorems about `Datagram` |
| `NetStack` | ARP, IPv4 input and output, ICMP; the cache and the counter |
| `NetStackProofs` | theorems about `NetStack` |
| `EchoServer` | the server put together: main's loop and the interrupt thread over `NetStack` and `UdpService` |
| `EchoService` | what the server promises its clients |
| `EchoServerProofs` | theorems about `EchoServer`, and that it implements `EchoService` |
| `MCUdpSocket`, `MCNetStack`, `MCDatagram` | model values, symmetry and inputs for TLC |

`map` in `PROJECT.json` gives the lines behind each definition. Each module has a
short section of mutants, marked as such: operators that no specification uses,
each a plausible mistake that one of the properties must find.

### UdpSocket

A variable for each field of a control block (`state`, `endpoint`, `que`,
`interrupted`, `pcbMutex`), one for the manager's mutex, `pc` and the locals of
each thread, and two histories: what each socket received, and which sockets had
their port chosen by `sendTo`. A datagram is the number of its arrival. A step is
the code from one acquisition of a mutex (or one unprotected access) to the
next, so every interleaving that two threads can tell apart is there:

* `bind` is `BindSelect` (manager's mutex, conflict check) and `BindStore` (block's
  mutex, store, release of both);
* `sendTo` is `SendLock` and `SendLocal`; `udp_output` touches nothing here;
* `recvFrom` is `RecvGet`, `RecvTest` (lock and predicate), `RecvBlock` (the atomic
  unlock-and-sleep of `cv.wait`), `RecvTake`; `RecvSpurious` is a spurious wakeup;
* `UdpHandler` is `HandleNone` or `HandleSelect`, `HandleLock`, `HandlePush`;
* `interruptAll` is one step for each line: its guards are unnamed temporaries and
  protect nothing.

A call that fails and changes nothing (no FREE block, a conflict) is no step. The
fields of a FREE block that the constructor does not set are not read.

`UdpService` has sockets, endpoints, mailboxes and flags, and no mutex. The
refinement mapping of `UdpSocket` puts a datagram into the mailbox at the moment
`UdpHandler` owns the block's mutex, before it is in `que`: by then the manager's
mutex is free and a later `bind` may already see another table.

### Interrupt

The process has a status (running, exited, killed, aborted) and two threads.
Start-up is one step for each system call that changes what a signal does. The
kernel's side is modelled from how the program uses it: from TUNSETIFF frames are
held, from O_ASYNC announced by SIGIO, from F_SETSIG by `ETHER_TAN_IRQ`, which is
counted, while SIGHUP, SIGUSR1 and SIGUSR2 are a set. `First` is the order in
which `sigwait` takes them. SIGINT interrupts either thread between any two
steps. A protocol handler may return, throw (the process is aborted) or, for an
IP frame, hand a datagram to the server's socket. `recvFrom` and `interruptAll`
appear once more for that one socket, with the same windows as in `UdpSocket`, the
one between test and sleep included that a spurious wakeup (`RecvSpurious`) opens again.
After the process has exited, was killed or aborted nothing happens, so these runs do
not check for deadlock; that a running process does not get stuck is what the
liveness properties say.

### Layout and Datagram

A packet is a sequence of bytes. `Layout` has the reads and writes of
`BinaryPayload`, the offsets and payloads of each header as the code computes them,
and the word loop and the fold of the checksums; offsets count from 0. TLC's
integers have 32 bits and a sign, so an address, the only `uint32_t`, is the pair of
its words; `WordSum` of a packet of the bounds is far below 2^31.

`Datagram` moves one frame through these layers. `ClientSend` and the operators
named `Rfc...` are the other hosts: they put a packet together byte after byte as
the RFCs say and use none of the offsets of the code, so that a wrong offset shows
although the code uses it both ways. A frame may be filled up to 60 bytes with
something other than 0, be addressed to everyone on the subnet, carry no UDP
checksum, or be of a type without a queue. `DeviceRead`, `IpHandle`, `UdpHandle`,
`IcmpHandle` and `ArpHandle` are the handlers, one step for each vector one of them
passes to the next; `Echo` (main and `udp_output`), `IcmpReply`, `IpOutput` and
`ArpRequest` make the answer. A read past an odd end takes any byte (`past`).
Threads and the ARP cache are in `NetStack`: here `IpOutput` and `ArpRequest` stand
for a cached and an unknown gateway.

### NetStack

Hardware and IP addresses are model values, checksums hold or not. The cache is a
sequence of pairs; `ArpHandle` and `ArpCreate` are the two critical sections of
`ArpCache::create`, `GenId`, `Resolve` and `SendPacket` or `SendRequest` those of
`ipv4_output`, which callers and the interrupt thread (an ICMP echo) run at the
same time. An exception in the interrupt thread ends the process; `frame` then
keeps the frame it ended with. Two histories serve the properties: `knew`, the threads
that found the gateway cached when they began, and `given`, how often `ip_gen_id`
returned. ARP senders are hosts of the network and claim
any hardware address, two hosts the same one included.

### EchoServer and EchoService

`EchoServer` takes `NetStack` for the network and `UdpService`, which `UdpSocket`
implements, for the socket, each with its own variables, and adds main: `open`,
`bind`, the loop with `recvFrom` and `sendTo`, the catch clause, the end. An action
is a step of one thread and conjoins the actions of both modules it is a step of:
`DatagramArrives` is `IpConsume` of a UDP frame and `Deliver` or `Drop`, `Send` is
`OutputBegin` by main, and so on. `OnSignal` is one step: its second statement is
seen by `Event` only, which comes later anyhow. The behaviour begins after
`Interrupt::run`; until `bind`, datagrams find no socket.

`EchoService` knows of no thread: datagrams accepted, answered and lost, whether the
gateway is known, whether the server works on a datagram (`begun`), and whether it
serves, has left its loop or has crashed. It may leave its loop between two datagrams
only, and crash at any time. In the refinement mapping a datagram
stays accepted while main carries it, and counts as lost from the moment
`arpResolve` has missed: the interrupt thread may cache the gateway before the ARP
request leaves, and the datagram is lost all the same. `Begun` holds from the return of
`recvFrom` until the echo is transmitted or lost. `Status` is "left" when main has left
its loop, though the socket takes datagrams until the process exits, and "crashed" when an
exception has left the interrupt thread.

## What is checked

| run | bounds | shows |
|---|---|---|
| `socket_bind` | 2 callers, 2 blocks, 3 addresses, ports 0..3 of which 2 and 3 are for `sendTo`, 1 datagram | mutex ownership, delivery where bound, unique endpoints, answers reach the sender; ports chosen in range, endpoints written under both mutexes, a wildcard keeps its port |
| `socket_service` | 2 callers, 2 blocks, binds to ports 0 and 1, `sendTo` chooses 2, 2 datagrams, 1 event | `UdpSocket` implements `UdpService`; no sleep over a datagram; order, no loss, no repetition |
| `socket_live` | 2 callers, 2 blocks, 1 datagram, 1 event, no symmetry | upcalls return, datagrams are taken, an event wakes a sleeper |
| `interrupt` | a device of 2 frames, 3 frames (1 early), 2 SIGINTs | signals match frames, queues are signalled, order, barrier, mask; shutdown ends, a SIGINT ends the process or its wakeup is lost, the next one ends it then, frames are read on |
| `datagram` | 2 clients, 3 ports, 5 bodies of 0 to 33 bytes, 4 echoes, 3 identifications, 2 values of a foreign byte, 2 ARP targets | what is rejected and why; what is received is what was sent; answers are byte for byte those of the RFCs when no carry is lost and no foreign byte read |
| `netstack` | 2 callers, gateway and 1 host, 2 hardware addresses, 3 frames, 2 outputs, 4 identifications starting at the last | one entry for an address, the next hop, no lost packet once the gateway is known, distinct identifications, what ends the process |
| `echo_server` | 4 frames of any kind, the gateway as the only host, 2 ports, 1 SIGINT, 3 identifications | `EchoServer` implements `EchoService`; every accepted datagram is answered or lost, or the server stops |

Why these bounds: every race here is between two callers, or a caller and the
interrupt thread, over one control block; the second block is the competitor for
an endpoint or a port. Two datagrams are enough to be reordered or doubled, two
ports to search are enough for the loop to pass one, and with the single one of
`socket_service` it wraps through 0 to a port below `SOURCE_PORT_MIN`. Three frames and a
device of two fill it and overflow it, coalesce SIGUSR1 and put an ARP frame
before an IP frame. A counter of four values starting at its last wraps at once.
In `datagram` bodies are empty, odd, even, too short and long enough for a frame of
60 bytes; ports and addresses are chosen so that sums carry not at all, once and
twice, lose a carry in the header, in the pseudo header, in the datagram and in the
sum of the two, and come to a checksum of 0. Four frames are enough in
`echo_server` for one datagram to be lost, the gateway to be learnt, and two more to
be queued and answered, or for an ICMP echo to end the process in between.

Every property of a passing run has a mutant of the code that breaks it: an
unlocked `bind`, a push without notify, a missing pop, a silent event, and so on
(`mutants` in `PROJECT.json`).

### Findings

Five runs check one statement of the code, of a comment or of the repository's
README, which the code does not keep:

* `socket_lost_wakeup`: the wait predicate of `recvFrom` says that an interrupted
  receiver does not sleep. `interruptAll` stores and notifies without the mutex
  its unnamed `lock_guard` was meant to hold, so a receiver between its test and
  its sleep misses both. In the server: one SIGINT may leave main asleep until a
  second one. `InterruptEnds` shows that this is the only way in which a SIGINT does not
  end the process, and `NextInterruptEnds` that the second one ends it.
* `interrupt_early`: "signals may be missed, so better read all there is" says the
  comment in the device handler, which reads one frame for each signal. `Backlog`
  says how far behind the device stays: as many frames as came early.
* `datagram_valid`: `UdpHandler` calls a valid datagram an invalid payload, because
  of the byte past an odd end or of a lost carry; and so the process ends. The
  passing invariants `RegularAccepted`, `EchoAnswered` and `PingAnswered` say that
  these two are the only reasons, for input and for the answers, but for datagrams
  sent without a checksum, which RFC 768 allows and `UdpHandler` rejects too.
* `datagram_echo`: the echo is eight bytes longer than the datagram.
* `netstack_address_size`: an ARP packet for another host ends the process with a
  message about an address size it does not have. `OnlyEchoMissEnds` lists the
  traffic that ends it: a packet that fails one of the code's own tests, and an ICMP echo
  before the gateway is known. (Some packets that are in order fail those tests:
  `datagram_valid`.)

### Fairness

`UdpSocket`: strong fairness on the steps of a call in progress and on those of an
upcall. A thread that waits for a mutex is disabled each time someone else has it;
weak fairness would let it lose every race, and the futex behind `std::mutex`
queues its waiters. Nothing makes a caller call or a datagram arrive, and a
sleeper is woken by a notification only: `RecvSpurious` has no fairness. `Interrupt`:
weak fairness on each thread and on its signal handler, and strong fairness on `Push` and
`EventTouch`, the interrupt thread's waits for the block's mutex, which a main that wakes
spuriously and sleeps again takes over and over. `RecvSpurious` has no fairness here either. `EchoServer`: weak fairness on main, on what
the interrupt thread has left to do for a frame and on `Event`; none on arrivals or
SIGINT. That `recvFrom` takes what is queued is what `DatagramTaken` shows of
`UdpSocket`; that it returns -1 is certain only if there is also a datagram, since a
sleeper may miss the interrupt (`socket_lost_wakeup`) but not a datagram
(`NoSleepOnDatagram`).

## What is proved

The theorems hold for every value of the constants that the named `ASSUME`s admit:
any number of control blocks, callers, threads, hosts, frames and signals, any
range of ports and of identifications, any addresses and bytes. Each invariant a run
checks is proved from an inductive invariant `IInv` of its module, which TLC has checked
on the bounds of the run. There is one lemma for each conjunct, with a step for each
action that can disturb it, and one that puts them together; in `DatagramProofs`, where
an action moves a packet from one stage to the next, there is one lemma for each action.

| module | theorem | property |
|---|---|---|
| `UdpSocketProofs` | `TypeCorrect` | `TypeOK` |
| | `MutualExclusion` | `MutexOwners` |
| | `DeliveryCorrect` | `DeliveredWhereBound` |
| | `EndpointsUnique` | `UniqueEndpoints` |
| | `AnswersArrive` | `AnswersReachSender` |
| | `NoMissedDatagram` | `NoSleepOnDatagram` |
| | `EndpointStable` | `EndpointGuarded` |
| | `ChosenPortsInRange` | `ChosenPortInRange` |
| | `WildcardStays` | `WildcardKeepsPort` |
| `UdpOrderProofs` | `ReceivedInOrder` | `InOrder` |
| `UdpServiceProofs` | `ServiceImplemented` | `ImplementsService` |
| `InterruptProofs` | `TypeCorrect` | `TypeOK` |
| | `ReadsKeepUp` | `Backlog` |
| | `ReadNeverBlocks` | (a consequence: `read` finds a frame) |
| | `QueuesAreSignalled` | `QueuedIsSignalled` |
| | `HandledInOrder` | `FramesInOrder` |
| | `HandlerThreadAssigned` | `HandlerHasThread` |
| | `MaskProtects` | `KilledOnlyUnmasked` |
| `NetStackProofs` | `TypeCorrect` | `TypeOK` |
| | `EntriesUnique` | `OneEntryEach` |
| | `KnownGatewayResolves` | `KnownIsSent` |
| | `PacketsGoToGateway` | `NextHopIsGateway` |
| | `IdentificationsUnique` | `IdsDiffer` |
| | `EndsWithCause` | `OnlyEchoMissEnds` |
| `DatagramProofs` | `TypeCorrect` | `TypeOK` |
| | `IntactAccepted` | `RegularAccepted` |
| | `BodyReceived` | `ReceivedBegins` |
| | `DatagramEchoed` | `EchoAnswered` |
| | `PingEchoed` | `PingAnswered` |
| | `ArpFollowed` | `ArpAnswered` |
| `EchoServerProofs` | `TypeCorrect` | `TypeOK` |
| | `EchoServiceImplemented` | `ImplementsEchoService` |

**Sockets.** Assumed: at least one block, fewer blocks than ports, distinct threads and
addresses, bounds in `Nat`. `IInv` adds two parts to the invariants. `CallsReady` is
what a thread knows in the middle of a call: the socket is OPEN, the endpoint `bind` is
about to store is covered by nobody, the predicate of `recvFrom` holds. It is kept
because the manager's mutex, or the block's, keeps everyone out who could change it
(`MutexOwners`), and is what `UniqueStep` and `AnswersStep` need when the store comes, a
wait for a mutex after the check. `ChosenPorts` says that a port `sendTo` chose is not
0: the socket itself covers 0 while it searches. `GivenOnce` and `GivenElsewhere` are
the two facts about the table on which both proofs rest.

`ChosenPortsInRange` has a hypothesis of its own: no more blocks than source ports. The
code has 100 of the one and 25952 of the other. Every other open socket can hold one
port at most, so one of the range is free (`RangeSuffices`, by the pigeonhole principle)
and the loop of `sendTo`, whose condition is always true, stops there. The run
`socket_service` has too few ports on purpose and shows what happens then: the search
wraps through 0.

`WildcardStays` is about the one conflict test that is not symmetric. `select` takes a
wildcard in the table for any address, but not a wildcard in its argument: a wildcard bind
after a specific one with the same port is accepted, and the order in the table then says
which of the two gets a datagram. The other order is refused: an endpoint that `select`
or the port search lets pass has another port than any wildcard in the table
(`GivenNotAlone`), and `CallsReady` keeps that true until the store.

`InOrder` is about histories; what is inductive is `QueuesOrdered`: each queue rises, is
above what its socket received and below the arrival `UdpHandler` has in hand, and no
datagram is in two places. For the refinement `ServiceReady` says why a step between
two critical sections is still the one the service takes: the block `UdpHandler` selected
is what `select` would find until it has the block's mutex, `interruptAll` flags only
OPEN blocks, a receiver is on an OPEN socket. Each action is then a step of
`UdpService` or changes none of its variables, one lemma each.

**Interrupt thread.** `IInv` adds `Phases` (where the interrupt thread can be while main is
in `run`: the barrier lets neither pass alone, and a thread inherits the mask),
`Counted` (no signal, datagram or handler without a cause), `TakeReady` and
`OneAtATime`: a frame that was read is handled before the next is read, so at most one
protocol queue holds one frame. That is why draining the IP queue before the ARP
queue, with a SIGUSR1 that does not queue, keeps the order of arrival; `Ordered`
carries `FramesInOrder` over what is handled, queued and unread.

**Packets.** Assumed (`BytesAssumption`): bodies and echoes of at most 1472 bytes, what a
frame of Ethernet carries in one piece, and otherwise any bytes, ports, identifications and
addresses; the byte past an odd end may be 0. `LayoutProofs` has what the code's loops and
writes compute. `WordSum` is a recursive function, and TLAPS must be shown that it exists:
`NatSets` is induction over a set of numbers, from the well-foundedness of `<`, and
`SumsExist` and `FoldsExist` follow from it. Then `WordSumConcat` says that sums add up
over parts of even length, `WriteAllIs` that the fields of a header are written one after
the other, and a lemma for each kind of packet which bytes the writes leave and the reads
return.

Three facts about the checksums carry the theorems. One fold of a multiple of
`Ones` is `Ones` (`FoldMultiple`), so a packet with the checksum of RFC 1071 is accepted
whatever carries its sum has: this is why `RegularAccepted` names UDP only, whose code adds
up the folds of two parts. Where one fold loses no carry (`FoldsOnce`) it is the sum in one's
complement arithmetic (`FoldIsOnesSum`); so a checksum the program computes is then that of
the RFCs, but for UDP's 0, which RFC 768 sends as `Ones`. And the sums are of `uint32_t`
and cannot overflow at 1472 bytes (`WordSumBound`).

The inductive part of `IInv` is `Traced`: at each stage `data`, `buf` and `peer` are,
byte for byte, what the client's request has become by then, with padding as long as
the length fields have not yet cut it off. `SentIs`, `AnswerIs` and `PongIs` say what
`IpOutput`, `Echo` and `IcmpReply` put together, and compare it with the packet that the
operators named `Rfc...` describe.

**Network layers.** `EntriesUnique` rests on `FrameInHand`: between the two critical
sections of `ArpCache::create` the sender is not in the cache, since the interrupt
thread alone inserts. `LookedUp` says that what a sender saw of the cache stays so, as no
entry is removed. For `IdsDiffer`, `IdsGiven` says that the counter stands
`given` values after its first, and that each identification in use is one of the `given`
values so far. Until `given` is the number of values there are, the next is none of them,
and so differs from those of all other packets.

**Server.** `EchoServerProofs` takes the proofs of the network layers over: it is an
instance of `NetStackProofs` with main as the only caller, whose assumptions
`NetAssumption` of `EchoServer` states; a step of the server is a step of `NetStack`, so
its invariant holds here (`NetStep`). The invariant adds that main is in `sendTo` while
`ipv4_output` runs in its thread, and that no datagram is numbered above the count of
those that arrived, which makes the next one new to `EchoService`.

Model-checked only: every liveness property (`UpcallReturns`, `DatagramTaken`,
`EventWakesSleeper`, those of `Interrupt`, and `Settled`): liveness under fairness is out of
the prover's reach, as is `ENABLED`.

## What is not modelled

* Packets whose length fields contradict their size, and the undefined behaviour
  they lead to; short frames.
* `recvFrom` using a reference to the queue's front after `pop()`: the model takes
  the values that are still in memory.
* Failures of system calls (start-up then ends with an exception), a SIGUSR2, SIGHUP
  or SIGIO from outside. The limit on queued real-time signals is not in the
  model either: `Backlog` keeps them below the number of frames the device holds.
* The per-translation-unit `protocolQueuesMutex`: the queues are used by one thread.
* Datagrams of more than a frame: the 16-bit length in `SetUdpPayload` would wrap, and the
  server echoes only what came in one frame.
* IP fragments and options. No fragment is reassembled; the first one of a datagram is
  handled as a whole, and fails the UDP checksum.
* Fields that are written and never read (`netmask`, `broadcast`), accessors without a
  caller, logger, utilities, `sendIcmp`, and the shell commands that create the device.
* What the kernel does with a frame that is too long: the echo of a datagram of more than
  1464 bytes is eight bytes longer, and `write` may refuse it. The theorems about
  `Datagram` say what is passed to `write`; TLC's run has short bodies, a sum over 1500
  bytes being too deep a recursion.
* Several devices, routes or event handlers: main registers one of each.

## Plan

1. Done: `UdpSocket`, `UdpService`, first proofs; `Interrupt`, `NetStack`; `Layout` and
   `Datagram` on bytes; `EchoServer` and `EchoService`.
2. Done: theorems for every safety property of `UdpSocket`, `Interrupt`, `NetStack`,
   `EchoServer` and `Datagram`, and both refinements.
3. Next in the proofs: shorter ones for `LayoutProofs`, whose reads and writes of fields
   have one lemma for each kind of packet.
4. Possible in the model: several sleepers for `interruptAll` in `Interrupt`; IP options
   and fragments in `Datagram`.
