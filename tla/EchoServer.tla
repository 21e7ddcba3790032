------------------------------ MODULE EchoServer ------------------------------
(***************************************************************************)
(* The server put together: main.cpp's loop and the interrupt thread over  *)
(* the network layers (module NetStack) and the socket layer, which        *)
(* appears as UdpService, the specification UdpSocket implements.  The     *)
(* behaviour begins when Interrupt::run has returned (module Interrupt has *)
(* what comes before): frames may arrive before there is a socket.         *)
(***************************************************************************)
EXTENDS Integers, Sequences, SequencesExt

CONSTANTS
    Main,           \* the main thread, the only one that sends
    IntrThread, OurIp, Gateway, OtherIps, Macs, BroadcastMac,
    IdRange, FirstId, MaxFrames, MaxOutputs,    \* of NetStack
    AnyAddr,        \* the wildcard address
    Ports,          \* ports clients send to
    Port            \* the server's, 5555

ASSUME PortAssumption == Port \in Ports

ASSUME OutputAssumption == MaxOutputs >= MaxFrames

\* What NetStack assumes, of the one thread that sends.
ASSUME NetAssumption ==
    /\ Gateway # OurIp
    /\ {Gateway, OurIp} \cap OtherIps = {}
    /\ BroadcastMac \notin Macs
    /\ IntrThread # Main
    /\ IdRange \in Nat \ {0}
    /\ FirstId \in 0..(IdRange - 1)
    /\ MaxFrames \in Nat
    /\ MaxOutputs \in Nat

VARIABLES running, cache, nextId, given, pc, frame, packetId, sent, frames, outputs, knew
VARIABLES open, bound, box, taken, flagged, arrived
VARIABLES
    mainPc,         \* where main is
    holding,        \* the datagram main has received and not yet answered, or 0
    terminate,      \* the flag of main.cpp
    event,          \* a SIGUSR2 waits for sigwait
    answered,       \* history: datagrams whose echo was transmitted
    lost            \* history: datagrams whose echo ended in ArpResolveException

netVars == <<running, cache, nextId, given, pc, frame, packetId, sent, frames, outputs, knew>>
socketVars == <<open, bound, box, taken, flagged, arrived>>
histories == <<answered, lost>>
vars == <<netVars, socketVars, mainPc, holding, terminate, event, histories>>

Socket == 1

NS == INSTANCE NetStack WITH Callers <- {Main}
US == INSTANCE UdpService WITH Sockets <- {Socket}, Addrs <- {OurIp, AnyAddr}, IfAddr <- OurIp

Init ==
    /\ NS!Init
    /\ US!Init
    /\ mainPc = "open"
    /\ holding = 0
    /\ terminate = FALSE
    /\ event = FALSE
    /\ answered = <<>>
    /\ lost = <<>>

-----------------------------------------------------------------------------
(* Mutants: a plausible mistake in the code each is named for. *)

\* main looks at terminate again before it answers.
SendUnlessTerminated ==
    /\ running /\ mainPc = "send"
    /\ \/ /\ terminate
          /\ mainPc' = "ended"
          /\ UNCHANGED netVars
       \/ /\ ~terminate
          /\ NS!OutputBegin(Main)
          /\ mainPc' = "output"
    /\ UNCHANGED <<socketVars, holding, terminate, event, histories>>

\* After its ARP request sendTo waits for an answer nobody announces.
SendMissWaiting ==
    /\ NS!SendRequest(Main)
    /\ mainPc' = "waiting"
    /\ UNCHANGED <<socketVars, holding, terminate, event, histories>>

-----------------------------------------------------------------------------
(* The main thread. *)

OpenSocket ==
    /\ running /\ mainPc = "open"
    /\ US!OpenSocket(Socket)
    /\ mainPc' = "bind"
    /\ UNCHANGED <<netVars, holding, terminate, event, histories>>

BindSocket ==
    /\ running /\ mainPc = "bind"
    /\ US!Bind(Socket, OurIp, Port)
    /\ mainPc' = "check"
    /\ UNCHANGED <<netVars, holding, terminate, event, histories>>

CheckTerminate ==
    /\ running /\ mainPc = "check"
    /\ mainPc' = IF terminate THEN "ended" ELSE "recv"
    /\ UNCHANGED <<netVars, socketVars, holding, terminate, event, histories>>

Receive ==
    /\ running /\ mainPc = "recv"
    /\ US!Take(Socket)
    /\ holding' = Head(box[Socket])
    /\ mainPc' = "send"
    /\ UNCHANGED <<netVars, terminate, event, histories>>

\* recvFrom returns -1.
ReceiveNone ==
    /\ running /\ mainPc = "recv"
    /\ Socket \in flagged
    /\ mainPc' = "check"
    /\ UNCHANGED <<netVars, socketVars, holding, terminate, event, histories>>

\* sendTo, from the bound socket, with the buffer resized to what was received.
Send ==
    /\ running /\ mainPc = "send"
    /\ NS!OutputBegin(Main)
    /\ mainPc' = "output"
    /\ UNCHANGED <<socketVars, holding, terminate, event, histories>>

SendStep ==
    /\ NS!GenId(Main) \/ NS!Resolve(Main)
    /\ UNCHANGED <<socketVars, mainPc, holding, terminate, event, histories>>

SendDone ==
    /\ NS!SendPacket(Main)
    /\ mainPc' = "check" /\ holding' = 0
    /\ answered' = Append(answered, holding)
    /\ UNCHANGED <<socketVars, terminate, event, lost>>

\* The catch clause of the loop: the datagram is gone, and not tried again.
SendMiss ==
    /\ NS!SendRequest(Main)
    /\ mainPc' = "check" /\ holding' = 0
    /\ lost' = Append(lost, holding)
    /\ UNCHANGED <<socketVars, terminate, event, answered>>

\* Interrupt::shutdown, which joins the interrupt thread when it is in sigwait.
Shutdown ==
    /\ running /\ mainPc = "ended"
    /\ pc[IntrThread] = "idle"
    /\ mainPc' = "exited"
    /\ UNCHANGED <<netVars, socketVars, holding, terminate, event, histories>>

-----------------------------------------------------------------------------
(* The interrupt thread. *)

\* A datagram goes through UdpHandler to the socket, or to none.
DatagramArrives(f, port) ==
    /\ mainPc # "exited"
    /\ f.proto = "udp" /\ NS!IpConsume(f)
    /\ US!Deliver(Socket, port) \/ US!Drop(port)
    /\ UNCHANGED <<mainPc, holding, terminate, event, histories>>

\* Every other frame, and what is left to do for one.
OtherFrame ==
    /\ mainPc # "exited"
    /\ \/ \E f \in NS!ArpFrames : NS!ArpHandle(f)
       \/ \E f \in NS!IpFrames :
             NS!IpReject(f) \/ NS!IcmpEcho(f) \/ (f.proto # "udp" /\ NS!IpConsume(f))
    /\ UNCHANGED <<socketVars, mainPc, holding, terminate, event, histories>>

FrameStep ==
    /\ \/ NS!ArpCreate \/ NS!ArpReply
       \/ NS!Output(IntrThread)
    /\ UNCHANGED <<socketVars, mainPc, holding, terminate, event, histories>>

\* UdpEventHandler, for a SIGUSR2, flags the sockets that are open.
Event ==
    /\ running /\ pc[IntrThread] = "idle" /\ mainPc # "exited"
    /\ event
    /\ event' = FALSE
    /\ IF Socket \in open THEN US!Flag(Socket) ELSE UNCHANGED socketVars
    /\ UNCHANGED <<netVars, mainPc, holding, terminate, histories>>

\* on_signal, in either thread, as a whole: only Event sees its second statement.
OnSignal ==
    /\ running /\ mainPc # "exited" /\ ~terminate
    /\ terminate' = TRUE
    /\ event' = TRUE
    /\ UNCHANGED <<netVars, socketVars, mainPc, holding, histories>>

-----------------------------------------------------------------------------
MainStep ==
    \/ OpenSocket \/ BindSocket \/ CheckTerminate \/ Receive
    \/ Send \/ SendStep \/ SendDone \/ SendMiss \/ Shutdown

Next ==
    \/ MainStep \/ ReceiveNone
    \/ \E f \in NS!IpFrames, port \in Ports : DatagramArrives(f, port)
    \/ OtherFrame \/ FrameStep \/ Event \/ OnSignal

Spec == Init /\ [][Next]_vars

\* Both threads run.  A receiver does not sleep on a datagram (UdpSocket's
\* NoSleepOnDatagram), but may on an interrupt (NoSleepOnInterrupt fails): that
\* recvFrom returns -1 is certain only when there is also a datagram.
Fairness ==
    /\ WF_vars(MainStep \/ (ReceiveNone /\ box[Socket] # <<>>))
    /\ WF_vars(FrameStep)
    /\ WF_vars(Event)

FairSpec == Spec /\ Fairness

-----------------------------------------------------------------------------
(* Properties. *)

Datagrams == 1..MaxFrames

\* Every variable has its type; a datagram is in main's hands from recvFrom to
\* the end of sendTo.
TypeOK ==
    /\ NS!TypeOK
    /\ open \subseteq {Socket} /\ flagged \subseteq open
    /\ box \in [{Socket} -> Seq(Datagrams)] /\ taken \in [{Socket} -> Seq(Datagrams)]
    /\ arrived \in 0..frames
    /\ mainPc \in {"open", "bind", "check", "recv", "send", "output", "ended", "exited"}
    /\ terminate \in BOOLEAN /\ event \in BOOLEAN
    /\ IF mainPc \in {"send", "output"} THEN holding \in Datagrams ELSE holding = 0
    /\ answered \in Seq(Datagrams) /\ lost \in Seq(Datagrams)

\* main has looked the gateway up in vain: the datagram is lost from here on, even
\* if the gateway is cached before the ARP request leaves.
Missed == pc[Main] = "request"

Begun == holding # 0 /\ ~Missed
Held == (IF Begun THEN <<holding>> ELSE <<>>) \o box[Socket]
Lost == IF Missed THEN Append(lost, holding) ELSE lost

Status ==
    IF ~running THEN "crashed"
    ELSE IF mainPc \in {"ended", "exited"} THEN "left" ELSE "serves"

Service == INSTANCE EchoService WITH
    held <- Held, begun <- Begun, lost <- Lost, known <- NS!Cached(Gateway), status <- Status

\* Whatever arrives meanwhile, in whichever order the threads run: every datagram
\* the socket took in is answered once and in order, or lost while the gateway is
\* unknown, and a SIGINT ends the server between two datagrams, never with one
\* that recvFrom has returned and sendTo has not sent.
ImplementsEchoService == Service!Spec

\* A datagram does not wait for ever: it is answered, or lost to the ARP miss, or
\* the server stops.  With ImplementsEchoService: it is answered once the gateway
\* is known.
Settled ==
    \A d \in Datagrams :
        d \in ToSet(Held) ~> d \in ToSet(answered) \cup ToSet(Lost) \/ Status # "serves"
=============================================================================
