------------------------------ MODULE Interrupt ------------------------------
(***************************************************************************)
(* The two threads of the server and the signals between them: start-up    *)
(* (EtherDevice::open, Interrupt::run), the sigwait loop of the interrupt  *)
(* thread (lib/Interrupt.h), the device handler it calls for each frame    *)
(* (lib/EtherDevice.cpp), the protocol queues, and how on_signal, the main *)
(* loop and Interrupt::shutdown bring it to an end (main.cpp).             *)
(*                                                                         *)
(* recvFrom appears as the main loop sees it, one socket without its table *)
(* (module UdpSocket has the table), but with the window between its test  *)
(* and its sleep, and the spurious return from it.  Signals follow the Linux kernel, which /dev/net/tun and *)
(* F_SETSIG tie the program to.                                            *)
(***************************************************************************)
EXTENDS Integers, Sequences

CONSTANTS
    RingSize,       \* frames the tap device holds before it drops
    MaxFrames,      \* bound: frames the network sends
    MaxEarly,       \* bound: how many of them before O_ASYNC is set
    MaxSignals      \* bound: SIGINTs and SIGTERMs

ASSUME BoundAssumption ==
    /\ RingSize \in Nat \ {0}
    /\ MaxFrames \in Nat
    /\ MaxEarly \in 0..MaxFrames
    /\ MaxSignals \in Nat

Types == {"ip", "arp", "other"}     \* ether types; the last has no queue
Frames == [n : 1..MaxFrames, type : Types]

VARIABLES
    status,         \* of the process: running, exited, killed or aborted
    mainPc,         \* where the main thread is
    intrPc,         \* where the interrupt thread is
    blocked,        \* the threads that block the signals of sigmask
    pending,        \* the SIGHUP, SIGUSR1 and SIGUSR2 that wait for sigwait
    rt,             \* how many ETHER_TAN_IRQ (a queued, real-time signal) do
    ring,           \* frames in the tap device
    queues,         \* protocolQueues
    ptrSet,         \* interruptThreadPtr is assigned
    terminate,      \* the flag of main.cpp
    handlers,       \* on_signal calls between their two statements, by thread
    flagged,        \* interrupted of the server's socket
    inbox,          \* length of that socket's que
    arrived,        \* frames the network sent so far
    raised,         \* SIGINTs and SIGTERMs so far
    early,          \* history: frames that came without a signal
    handled         \* history: the frames given to a protocol handler

kernelVars == <<blocked, pending, rt, ring, arrived, raised, early>>
sockVars == <<flagged, inbox>>
vars == <<status, mainPc, intrPc, kernelVars, queues, ptrSet, terminate,
          handlers, sockVars, handled>>

\* main before run has set the mask: the last system call it made is named.
Unmasked == {"start", "attached", "async", "setsig"}

\* The server's socket is OPEN.
Serving == {"check", "pred", "block", "asleep", "take", "shutdown", "joining"}

Init ==
    /\ status = "running"
    /\ mainPc = "start"
    /\ intrPc = "none"
    /\ blocked = {}
    /\ pending = {}
    /\ rt = 0
    /\ ring = <<>>
    /\ queues = [type \in {"ip", "arp"} |-> <<>>]
    /\ ptrSet = FALSE
    /\ terminate = FALSE
    /\ handlers = [t \in {"main", "intr"} |-> 0]
    /\ flagged = FALSE
    /\ inbox = 0
    /\ arrived = 0
    /\ raised = 0
    /\ early = 0
    /\ handled = <<>>

-----------------------------------------------------------------------------
(* The kernel. *)

Live == {"main"} \cup (IF intrPc \in {"none", "ended"} THEN {} ELSE {"intr"})

\* A signal nobody installed a handler for, sent to the process: it waits
\* when every thread blocks it; else it is delivered, and its default action
\* kills the process.
Fatal == ~(Live \subseteq blocked)

\* A frame for the tap device.  From TUNSETIFF on it is held; from O_ASYNC on
\* it is announced by SIGIO, which nothing ever blocks, and from F_SETSIG on
\* by ETHER_TAN_IRQ.  A full device drops it and announces nothing.
Frame(type) ==
    /\ status = "running"
    /\ mainPc # "start"
    /\ arrived < MaxFrames
    /\ mainPc = "attached" => early < MaxEarly
    /\ arrived' = arrived + 1
    /\ \/ /\ Len(ring) = RingSize
          /\ UNCHANGED <<status, ring, rt, early>>
       \/ /\ Len(ring) < RingSize
          /\ ring' = Append(ring, [n |-> arrived', type |-> type])
          /\ early' = IF mainPc = "attached" THEN early + 1 ELSE early
          /\ \/ /\ mainPc = "attached"
                /\ UNCHANGED <<status, rt>>
             \/ /\ mainPc # "attached"
                /\ mainPc = "async" \/ Fatal
                /\ status' = "killed"
                /\ UNCHANGED rt
             \/ /\ mainPc \notin {"attached", "async"}
                /\ ~Fatal
                /\ rt' = rt + 1
                /\ UNCHANGED status
    /\ UNCHANGED <<mainPc, intrPc, blocked, pending, raised, queues, ptrSet,
                   terminate, handlers, sockVars, handled>>

\* A SIGINT or SIGTERM: on_signal starts in either thread, neither of which
\* blocks these, and that thread does nothing else until it returns.
OnSignal(t) ==
    /\ status = "running"
    /\ t \in Live
    /\ raised < MaxSignals
    /\ raised' = raised + 1
    /\ terminate' = TRUE
    /\ handlers' = [handlers EXCEPT ![t] = @ + 1]
    /\ UNCHANGED <<status, mainPc, intrPc, blocked, pending, rt, ring, arrived,
                   early, queues, ptrSet, sockVars, handled>>

\* Its second statement, kill(getpid(), SIGUSR2).
OnSignalKill(t) ==
    /\ status = "running"
    /\ handlers[t] > 0
    /\ handlers' = [handlers EXCEPT ![t] = @ - 1]
    /\ \/ /\ Fatal
          /\ status' = "killed"
          /\ UNCHANGED pending
       \/ /\ ~Fatal
          /\ pending' = pending \cup {"USR2"}
          /\ UNCHANGED status
    /\ UNCHANGED <<mainPc, intrPc, blocked, rt, ring, arrived, raised, early,
                   queues, ptrSet, terminate, sockVars, handled>>

-----------------------------------------------------------------------------
(* The step of a thread that is not in a signal handler. *)

MainStep(from, to) ==
    /\ status = "running"
    /\ handlers["main"] = 0
    /\ mainPc = from
    /\ mainPc' = to

IntrStep(from, to) ==
    /\ status = "running"
    /\ handlers["intr"] = 0
    /\ intrPc = from
    /\ intrPc' = to

-----------------------------------------------------------------------------
(* Mutants: a plausible mistake in the code each is named for. *)

\* run forgets pthread_sigmask.
SetMaskNone ==
    /\ MainStep("setsig", "masked")
    /\ UNCHANGED <<status, intrPc, kernelVars, queues, ptrSet, terminate,
                   handlers, sockVars, handled>>

\* The interrupt thread does not wait at the barrier.
SpawnNoBarrier ==
    /\ MainStep("masked", "spawned")
    /\ intrPc' = "sigwait"
    /\ blocked' = blocked \cup {"intr"}
    /\ UNCHANGED <<status, pending, rt, ring, arrived, raised, early, queues,
                   ptrSet, terminate, handlers, sockVars, handled>>

\* An interrupted recvFrom pops the queue as well.
RecvTakeAlways ==
    /\ MainStep("take", "check")
    /\ inbox' = inbox - 1
    /\ UNCHANGED <<status, intrPc, kernelVars, queues, ptrSet, terminate,
                   handlers, flagged, handled>>

\* shutdown joins without a signal.
ShutdownSilent ==
    /\ MainStep("shutdown", "joining")
    /\ UNCHANGED <<status, intrPc, kernelVars, queues, ptrSet, terminate,
                   handlers, sockVars, handled>>

\* SIGUSR1 is blocked for good: its handling leaves it pending.
SigUsr1Again ==
    /\ IntrStep("sigwait", "drain")
    /\ "USR1" \in pending /\ "HUP" \notin pending
    /\ UNCHANGED <<status, mainPc, kernelVars, queues, ptrSet, terminate,
                   handlers, sockVars, handled>>

\* The device signal is taken although SIGUSR1 is pending.
SigDeviceFirst ==
    /\ IntrStep("sigwait", "device")
    /\ rt > 0
    /\ rt' = rt - 1
    /\ UNCHANGED <<status, mainPc, blocked, pending, ring, arrived, raised,
                   early, queues, ptrSet, terminate, handlers, sockVars, handled>>

\* ETHER_TAN_IRQ is an ordinary signal, which does not queue.
SigDeviceOnce ==
    /\ IntrStep("sigwait", "device")
    /\ pending = {} /\ rt > 0
    /\ rt' = 0
    /\ UNCHANGED <<status, mainPc, blocked, pending, ring, arrived, raised,
                   early, queues, ptrSet, terminate, handlers, sockVars, handled>>

\* handleProtocolSignal handles one frame and not all of them.
DrainEndEarly ==
    /\ IntrStep("drain", "sigwait")
    /\ UNCHANGED <<status, mainPc, kernelVars, queues, ptrSet, terminate,
                   handlers, sockVars, handled>>

\* interruptAll wakes the receiver and stores nothing.
EventFlagNone ==
    /\ IntrStep("ev_flag", "ev_notify")
    /\ UNCHANGED <<status, mainPc, kernelVars, queues, ptrSet, terminate,
                   handlers, sockVars, handled>>

\* interruptAll does not notify.
EventNotifySilent ==
    /\ IntrStep("ev_notify", "sigwait")
    /\ UNCHANGED <<status, mainPc, kernelVars, queues, ptrSet, terminate,
                   handlers, sockVars, handled>>

-----------------------------------------------------------------------------
(* The main thread. *)

\* EtherDevice::open, one system call at a time; F_SETOWN shows nothing.
Attach ==
    /\ MainStep("start", "attached")
    /\ UNCHANGED <<status, intrPc, kernelVars, queues, ptrSet, terminate,
                   handlers, sockVars, handled>>

SetAsync ==
    /\ MainStep("attached", "async")
    /\ UNCHANGED <<status, intrPc, kernelVars, queues, ptrSet, terminate,
                   handlers, sockVars, handled>>

SetSig ==
    /\ MainStep("async", "setsig")
    /\ UNCHANGED <<status, intrPc, kernelVars, queues, ptrSet, terminate,
                   handlers, sockVars, handled>>

\* Interrupt::run: pthread_sigmask, the thread, which inherits the mask, the
\* assignment of interruptThreadPtr, and the barrier of two.
SetMask ==
    /\ MainStep("setsig", "masked")
    /\ blocked' = blocked \cup {"main"}
    /\ UNCHANGED <<status, intrPc, pending, rt, ring, arrived, raised, early,
                   queues, ptrSet, terminate, handlers, sockVars, handled>>

Spawn ==
    /\ MainStep("masked", "spawned")
    /\ intrPc' = "barrier"
    /\ blocked' = IF "main" \in blocked THEN blocked \cup {"intr"} ELSE blocked
    /\ UNCHANGED <<status, pending, rt, ring, arrived, raised, early, queues,
                   ptrSet, terminate, handlers, sockVars, handled>>

Assign ==
    /\ MainStep("spawned", "barrier")
    /\ ptrSet' = TRUE
    /\ UNCHANGED <<status, intrPc, kernelVars, queues, terminate, handlers,
                   sockVars, handled>>

\* The last of the two to arrive lets both go.
Barrier ==
    /\ MainStep("barrier", "serve")
    /\ intrPc = "barrier"
    /\ intrPc' = "sigwait"
    /\ UNCHANGED <<status, kernelVars, queues, ptrSet, terminate, handlers,
                   sockVars, handled>>

\* UdpSocket::open and bind.
OpenSocket ==
    /\ MainStep("serve", "check")
    /\ UNCHANGED <<status, intrPc, kernelVars, queues, ptrSet, terminate,
                   handlers, sockVars, handled>>

\* while (!terminate)
CheckTerminate ==
    /\ MainStep("check", IF terminate THEN "shutdown" ELSE "pred")
    /\ UNCHANGED <<status, intrPc, kernelVars, queues, ptrSet, terminate,
                   handlers, sockVars, handled>>

\* recvFrom: the wait predicate with the block's mutex, which is held from
\* here until the sleep or the return.
RecvTest ==
    /\ MainStep("pred", IF inbox > 0 \/ flagged THEN "take" ELSE "block")
    /\ UNCHANGED <<status, intrPc, kernelVars, queues, ptrSet, terminate,
                   handlers, sockVars, handled>>

RecvBlock ==
    /\ MainStep("block", "asleep")
    /\ UNCHANGED <<status, intrPc, kernelVars, queues, ptrSet, terminate,
                   handlers, sockVars, handled>>

\* A return from the sleep that nobody notified, which condition_variable
\* allows: the predicate is tested again.
RecvSpurious ==
    /\ MainStep("asleep", "pred")
    /\ UNCHANGED <<status, intrPc, kernelVars, queues, ptrSet, terminate,
                   handlers, sockVars, handled>>

\* recvFrom returns, -1 or a datagram, which main answers.
RecvTake ==
    /\ MainStep("take", "check")
    /\ inbox' = IF flagged THEN inbox ELSE inbox - 1
    /\ UNCHANGED <<status, intrPc, kernelVars, queues, ptrSet, terminate,
                   handlers, flagged, handled>>

\* Interrupt::shutdown: pthread_kill of SIGHUP, then join.
Shutdown ==
    /\ MainStep("shutdown", "joining")
    /\ pending' = IF intrPc = "ended" THEN pending ELSE pending \cup {"HUP"}
    /\ UNCHANGED <<status, intrPc, blocked, rt, ring, arrived, raised, early,
                   queues, ptrSet, terminate, handlers, sockVars, handled>>

Join ==
    /\ status = "running"
    /\ handlers["main"] = 0
    /\ mainPc = "joining"
    /\ intrPc = "ended"
    /\ status' = "exited"
    /\ UNCHANGED <<mainPc, intrPc, kernelVars, queues, ptrSet, terminate,
                   handlers, sockVars, handled>>

-----------------------------------------------------------------------------
(* The interrupt thread. *)

\* sigwait takes what was sent to the thread (SIGHUP, SIGUSR1) before what
\* was sent to the process (SIGUSR2, ETHER_TAN_IRQ), each in order of number.
First(sig) ==
    /\ sig \in pending
    /\ sig = "USR1" => "HUP" \notin pending
    /\ sig = "USR2" => pending = {"USR2"}

SigHup ==
    /\ IntrStep("sigwait", "ended")
    /\ First("HUP")
    /\ pending' = pending \ {"HUP"}
    /\ UNCHANGED <<status, mainPc, blocked, rt, ring, arrived, raised, early,
                   queues, ptrSet, terminate, handlers, sockVars, handled>>

SigUsr1 ==
    /\ IntrStep("sigwait", "drain")
    /\ First("USR1")
    /\ pending' = pending \ {"USR1"}
    /\ UNCHANGED <<status, mainPc, blocked, rt, ring, arrived, raised, early,
                   queues, ptrSet, terminate, handlers, sockVars, handled>>

SigUsr2 ==
    /\ IntrStep("sigwait", IF mainPc \in Serving THEN "ev_touch" ELSE "sigwait")
    /\ First("USR2")
    /\ pending' = pending \ {"USR2"}
    /\ UNCHANGED <<status, mainPc, blocked, rt, ring, arrived, raised, early,
                   queues, ptrSet, terminate, handlers, sockVars, handled>>

SigDevice ==
    /\ IntrStep("sigwait", "device")
    /\ pending = {}
    /\ rt > 0
    /\ rt' = rt - 1
    /\ UNCHANGED <<status, mainPc, blocked, pending, ring, arrived, raised,
                   early, queues, ptrSet, terminate, handlers, sockVars, handled>>

\* EtherDevice::handler: one frame is read, a read of the empty device blocks;
\* a frame whose type has a queue is pushed, and the thread signals itself.
ReadFrame ==
    LET frame == Head(ring) IN
    /\ IntrStep("device", "sigwait")
    /\ ring # <<>>
    /\ ring' = Tail(ring)
    /\ \/ /\ frame.type \notin DOMAIN queues
          /\ UNCHANGED <<queues, pending>>
       \/ /\ frame.type \in DOMAIN queues
          /\ queues' = [queues EXCEPT ![frame.type] = Append(@, frame.n)]
          /\ pending' = pending \cup {"USR1"}
    /\ UNCHANGED <<status, mainPc, blocked, rt, arrived, raised, early, ptrSet,
                   terminate, handlers, sockVars, handled>>

\* handleProtocolSignal: the queues in the order of their keys, 0x0800 before
\* 0x0806, each until it is empty.  No exception of a handler is caught in
\* this thread: the process is aborted.  An IP frame may hold a datagram for
\* the server, which goes on to UdpHandler.
DrainOne(type) ==
    /\ intrPc = "drain" /\ status = "running" /\ handlers["intr"] = 0
    /\ queues[type] # <<>>
    /\ type = "arp" => queues["ip"] = <<>>
    /\ queues' = [queues EXCEPT ![type] = Tail(@)]
    /\ handled' = Append(handled, Head(queues[type]))
    /\ \/ /\ status' = "aborted"
          /\ UNCHANGED intrPc
       \/ UNCHANGED <<status, intrPc>>
       \/ /\ type = "ip" /\ mainPc \in Serving
          /\ intrPc' = "push"
          /\ UNCHANGED status
    /\ UNCHANGED <<mainPc, kernelVars, ptrSet, terminate, handlers, sockVars>>

DrainEnd ==
    /\ IntrStep("drain", "sigwait")
    /\ \A type \in DOMAIN queues : queues[type] = <<>>
    /\ UNCHANGED <<status, mainPc, kernelVars, queues, ptrSet, terminate,
                   handlers, sockVars, handled>>

\* notify_all on the server's socket.
Notify == mainPc' = IF mainPc = "asleep" THEN "pred" ELSE mainPc

\* UdpHandler with the block's mutex.
Push ==
    /\ IntrStep("push", "drain")
    /\ mainPc \notin {"block", "take"}
    /\ inbox' = inbox + 1
    /\ Notify
    /\ UNCHANGED <<status, kernelVars, queues, ptrSet, terminate, handlers,
                   flagged, handled>>

\* handleEventSignal and interruptAll: the block's mutex is taken and let go,
\* then the flag is stored, then notify_all is called.
EventTouch ==
    /\ IntrStep("ev_touch", "ev_flag")
    /\ mainPc \notin {"block", "take"}
    /\ UNCHANGED <<status, mainPc, kernelVars, queues, ptrSet, terminate,
                   handlers, sockVars, handled>>

EventFlag ==
    /\ IntrStep("ev_flag", "ev_notify")
    /\ flagged' = TRUE
    /\ UNCHANGED <<status, mainPc, kernelVars, queues, ptrSet, terminate,
                   handlers, inbox, handled>>

EventNotify ==
    /\ IntrStep("ev_notify", "sigwait")
    /\ Notify
    /\ UNCHANGED <<status, kernelVars, queues, ptrSet, terminate, handlers,
                   sockVars, handled>>

-----------------------------------------------------------------------------
Startup ==
    \/ Attach \/ SetAsync \/ SetSig \/ SetMask \/ Spawn \/ Assign \/ Barrier
    \/ OpenSocket

Main ==
    \/ CheckTerminate \/ RecvTest \/ RecvBlock \/ RecvTake \/ Shutdown \/ Join

Intr ==
    \/ SigHup \/ SigUsr1 \/ SigUsr2 \/ SigDevice
    \/ ReadFrame
    \/ \E type \in {"ip", "arp"} : DrainOne(type)
    \/ DrainEnd \/ Push \/ EventTouch \/ EventFlag \/ EventNotify

Environment ==
    \/ \E type \in Types : Frame(type)
    \/ \E t \in {"main", "intr"} : OnSignal(t)

Next ==
    \/ Startup \/ Main \/ RecvSpurious \/ Intr \/ Environment
    \/ \E t \in {"main", "intr"} : OnSignalKill(t)

Spec == Init /\ [][Next]_vars

\* Both threads run, a signal handler too; nothing is asked of the network, of
\* whoever sends SIGINT, or of the library, which need not wake a sleeper.  The
\* block's mutex is given in the end to a thread that waits for it, although a
\* receiver that wakes and sleeps takes it again and again.
Fairness ==
    /\ WF_vars(Startup \/ Main)
    /\ WF_vars(Intr)
    /\ SF_vars(Push \/ EventTouch)
    /\ \A t \in {"main", "intr"} : WF_vars(OnSignalKill(t))

FairSpec == Spec /\ Fairness

-----------------------------------------------------------------------------
(* Invariants. *)

MainLabels == Unmasked \cup {"masked", "spawned", "barrier", "serve"} \cup Serving
IntrLabels == {"none", "barrier", "sigwait", "device", "drain", "push",
               "ev_touch", "ev_flag", "ev_notify", "ended"}

\* Every variable has its type, and the bounds of the model are kept.
TypeOK ==
    /\ status \in {"running", "exited", "killed", "aborted"}
    /\ mainPc \in MainLabels
    /\ intrPc \in IntrLabels
    /\ blocked \subseteq {"main", "intr"}
    /\ pending \subseteq {"HUP", "USR1", "USR2"}
    /\ rt \in 0..MaxFrames
    /\ ring \in Seq(Frames) /\ Len(ring) <= RingSize
    /\ queues \in [{"ip", "arp"} -> Seq(1..MaxFrames)]
    /\ ptrSet \in BOOLEAN
    /\ terminate \in BOOLEAN
    /\ handlers \in [{"main", "intr"} -> 0..MaxSignals]
    /\ flagged \in BOOLEAN
    /\ inbox \in 0..MaxFrames
    /\ arrived \in 0..MaxFrames
    /\ raised \in 0..MaxSignals
    /\ early \in 0..MaxEarly
    /\ handled \in Seq(1..MaxFrames)

\* The handler reads one frame for each signal, and read has no O_NONBLOCK:
\* the frames left unread are as many as the signals still to be handled and
\* the frames that came before O_ASYNC, so that a read never blocks and a
\* frame that came early leaves the device one behind for good.
Backlog ==
    status = "running" =>
        Len(ring) = rt + early + (IF intrPc = "device" THEN 1 ELSE 0)

\* SIGUSR1 does not queue: however many frames were pushed since the last one
\* was handled, a non-empty protocol queue has one pending or being handled.
QueuedIsSignalled ==
    (\E type \in DOMAIN queues : queues[type] # <<>>) =>
        \/ "USR1" \in pending
        \/ intrPc \in {"drain", "push"}
        \/ status # "running"

\* Frames are handled in the order the network sent them, although the IP
\* queue is always drained before the ARP queue: a frame is handled before the
\* next is read.
FramesInOrder ==
    \A i, j \in 1..Len(handled) : i < j => handled[i] < handled[j]

\* handleSignal passes interruptThreadPtr on: the barrier keeps it from doing
\* so before run has assigned it.
HandlerHasThread == intrPc = "device" => ptrSet

\* Once run has set the mask, no frame and no SIGINT can kill the server: the
\* threads it has block all that is sent to the process.
KilledOnlyUnmasked == status = "killed" => mainPc \in Unmasked

\* When nothing is left to do for the interrupt thread, no frame is left
\* unread in the device.
NothingUnread ==
    (status = "running" /\ intrPc = "sigwait" /\ pending = {} /\ rt = 0)
        => ring = <<>>

-----------------------------------------------------------------------------
(* Liveness, under Fairness. *)

Gone == status # "running"

\* Once the main loop is left, the process ends: the join does not hang.
ShutdownEnds == mainPc = "shutdown" ~> Gone

\* A SIGINT is on its way to a notify_all that finds main asleep: a notify_all
\* while main stands between its test and its sleep is lost, and the mutex
\* that EventTouch takes keeps any other from coming there.
WakeToCome ==
    \/ \E t \in {"main", "intr"} : handlers[t] > 0
    \/ "USR2" \in pending
    \/ intrPc \in {"ev_touch", "ev_flag"}
    \/ intrPc = "ev_notify" /\ mainPc # "block"

WakeupLost == flagged /\ mainPc \in {"block", "asleep"} /\ ~WakeToCome

\* A SIGINT or SIGTERM ends the process wherever it finds the two threads, in
\* start-up, in a handler, in the shutdown, with the one exception of the
\* wakeup that interruptAll loses: the flag is set, and main sleeps.
InterruptEnds == terminate ~> (Gone \/ WakeupLost)

\* The next SIGINT makes up for a lost wakeup: once the flag is set, a second
\* run of interruptAll finds main asleep or awake, never between the two.
NextInterruptEnds == (flagged /\ WakeToCome) ~> Gone

\* The handler goes on reading: a frame does not stay behind more frames than
\* came without a signal, whatever else sigwait has to take before it.
Behind(n) == \E i \in DOMAIN ring : i > early /\ ring[i].n = n

FramesAreRead == \A n \in 1..MaxFrames : Behind(n) ~> (~Behind(n) \/ Gone)
=============================================================================
