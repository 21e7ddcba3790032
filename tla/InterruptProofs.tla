--------------------------- MODULE InterruptProofs ---------------------------
(***************************************************************************)
(* Proofs about Interrupt, for every size of the tap device's ring and      *)
(* every bound on frames and signals.                                      *)
(***************************************************************************)
EXTENDS Interrupt, SequenceTheorems, TLAPS

\* Where the interrupt thread can be while main is in run, and what each of
\* them has inherited or stored by then.
Phases ==
    /\ intrPc = "none" <=> mainPc \in Unmasked \cup {"masked"}
    /\ intrPc = "barrier" <=> mainPc \in {"spawned", "barrier"}
    /\ mainPc \in {"barrier", "serve"} \cup Serving => ptrSet
    /\ mainPc \notin Unmasked => "main" \in blocked
    /\ intrPc # "none" => "intr" \in blocked

\* No signal, datagram or SIGINT handler without a cause of its own.
Counted ==
    /\ rt + early <= arrived
    /\ inbox <= Len(handled)
    /\ intrPc = "push" => inbox < Len(handled)
    /\ \A t \in {"main", "intr"} : handlers[t] <= raised

\* recvFrom returns with a datagram or with the flag set.
TakeReady == mainPc = "take" => inbox > 0 \/ flagged

\* A frame that was read is handled before the next one is.
OneAtATime ==
    /\ \A type \in {"ip", "arp"} : Len(queues[type]) \in {0, 1}
    /\ \E type \in {"ip", "arp"} : queues[type] = <<>>
    /\ intrPc \in {"device", "push"} => \A type \in {"ip", "arp"} : queues[type] = <<>>

\* What was handled came before what is queued, and that before what is unread.
Queued == {n \in 1..MaxFrames :
              \E type \in {"ip", "arp"} : \E i \in DOMAIN queues[type] : queues[type][i] = n}

Ordered ==
    /\ FramesInOrder
    /\ \A i, j \in DOMAIN ring : i < j => ring[i].n < ring[j].n
    /\ \A i \in DOMAIN handled, n \in Queued : handled[i] < n
    /\ \A i \in DOMAIN handled, j \in DOMAIN ring : handled[i] < ring[j].n
    /\ \A n \in Queued, j \in DOMAIN ring : n < ring[j].n
    /\ \A j \in DOMAIN ring : ring[j].n <= arrived
    /\ \A n \in Queued : n <= arrived
    /\ \A i \in DOMAIN handled : i <= handled[i] /\ handled[i] <= arrived

IInv ==
    /\ TypeOK
    /\ Phases
    /\ Counted
    /\ TakeReady
    /\ Backlog
    /\ QueuedIsSignalled
    /\ OneAtATime
    /\ Ordered
    /\ KilledOnlyUnmasked

-----------------------------------------------------------------------------
\* What a queue is known to be once its type is picked.
LEMMA QueueFacts ==
    ASSUME TypeOK, NEW type \in {"ip", "arp"}, queues[type] # <<>>
    PROVE  /\ queues[type] \in Seq(1..MaxFrames) /\ Len(queues[type]) \in Nat \ {0}
           /\ Head(queues[type]) = queues[type][1] /\ Head(queues[type]) \in 1..MaxFrames
           /\ Tail(queues[type]) \in Seq(1..MaxFrames)
           /\ Len(Tail(queues[type])) = Len(queues[type]) - 1
<1>1. queues[type] \in Seq(1..MaxFrames)
  BY DEF TypeOK
<1>2. Len(queues[type]) \in Nat \ {0}
  BY <1>1, EmptySeq
<1>3. /\ Head(queues[type]) \in 1..MaxFrames /\ Tail(queues[type]) \in Seq(1..MaxFrames)
      /\ Len(Tail(queues[type])) = Len(queues[type]) - 1
  BY <1>1, HeadTailProperties
<1>4. Head(queues[type]) = queues[type][1]
  BY <1>1, <1>2
<1> QED
  BY <1>1, <1>2, <1>3, <1>4

\* The state the process starts in satisfies the invariant.
LEMMA InitIInv == Init => IInv
<1> SUFFICES ASSUME Init PROVE IInv
  OBVIOUS
<1> USE DEF Init
<1>1. TypeOK
  <2>1. 0 \in 0..MaxFrames /\ 0 \in 0..MaxSignals /\ 0 \in 0..MaxEarly /\ 0 <= RingSize
    BY BoundAssumption
  <2>2. ring \in Seq(Frames) /\ Len(ring) <= RingSize /\ handled \in Seq(1..MaxFrames)
    BY <2>1, EmptySeq
  <2>3. queues \in [{"ip", "arp"} -> Seq(1..MaxFrames)]
    BY EmptySeq
  <2> QED
    BY <2>1, <2>2, <2>3 DEF TypeOK, MainLabels, IntrLabels, Unmasked
<1>2. Phases /\ Counted /\ TakeReady /\ OneAtATime
  BY DEF Phases, Counted, TakeReady, OneAtATime, Unmasked, Serving
<1>3. Backlog /\ QueuedIsSignalled /\ KilledOnlyUnmasked
  BY DEF Backlog, QueuedIsSignalled, KilledOnlyUnmasked
<1>4. Queued = {}
  BY DEF Queued
<1>5. Ordered
  BY <1>4 DEF Ordered, FramesInOrder
<1> QED
  BY <1>1, <1>2, <1>3, <1>5 DEF IInv

\* Every step keeps every variable in its type and in its bound.
LEMMA TypeStep == TypeOK /\ Counted /\ Ordered /\ TakeReady /\ [Next]_vars => TypeOK'
<1> SUFFICES ASSUME TypeOK, Counted, Ordered, TakeReady, [Next]_vars PROVE TypeOK'
  OBVIOUS
<1> USE BoundAssumption
    DEF TypeOK, MainStep, IntrStep, kernelVars, sockVars, MainLabels, IntrLabels, Unmasked,
        Serving
<1>1. CASE Startup
  BY <1>1 DEF Startup, Attach, SetAsync, SetSig, SetMask, Spawn, Assign, Barrier, OpenSocket
<1>2. CASE CheckTerminate \/ RecvTest \/ RecvBlock \/ RecvSpurious \/ Shutdown \/ Join
  BY <1>2 DEF CheckTerminate, RecvTest, RecvBlock, RecvSpurious, Shutdown, Join
<1>3. CASE RecvTake
  BY <1>3 DEF RecvTake, TakeReady
<1>4. CASE SigHup \/ SigUsr1
  BY <1>4 DEF SigHup, SigUsr1
<1>4a. CASE SigUsr2
  BY <1>4a DEF SigUsr2
<1>4b. CASE SigDevice
  BY <1>4b DEF SigDevice
<1>5. CASE ReadFrame
  <2>1. /\ ring' \in Seq(Frames) /\ Len(ring') <= RingSize
        /\ Head(ring) \in Frames
    BY <1>5, HeadTailProperties DEF ReadFrame
  <2>2. queues' \in [{"ip", "arp"} -> Seq(1..MaxFrames)]
    <3>1. ASSUME NEW type \in {"ip", "arp"}, NEW n \in 1..MaxFrames,
                 queues' = [queues EXCEPT ![type] = Append(@, n)]
          PROVE  queues' \in [{"ip", "arp"} -> Seq(1..MaxFrames)]
      <4>1. Append(queues[type], n) \in Seq(1..MaxFrames)
        BY AppendProperties
      <4> QED
        BY <3>1, <4>1
    <3> QED
      BY <1>5, <2>1, <3>1 DEF ReadFrame, Frames
  <2> QED
    BY <1>5, <2>1, <2>2 DEF ReadFrame
<1>6. ASSUME NEW type \in {"ip", "arp"}, DrainOne(type) PROVE TypeOK'
  <2>1. Tail(queues[type]) \in Seq(1..MaxFrames) /\ Head(queues[type]) \in 1..MaxFrames
    BY <1>6, QueueFacts DEF DrainOne
  <2>2. queues' \in [{"ip", "arp"} -> Seq(1..MaxFrames)]
    BY <1>6, <2>1 DEF DrainOne
  <2>3. handled' \in Seq(1..MaxFrames)
    BY <1>6, <2>1, AppendProperties DEF DrainOne
  <2>4. intrPc' \in IntrLabels /\ status' \in {"running", "exited", "killed", "aborted"}
    BY <1>6 DEF DrainOne
  <2> QED
    BY <1>6, <2>2, <2>3, <2>4 DEF DrainOne
<1>7. CASE DrainEnd \/ EventTouch \/ EventFlag \/ EventNotify
  BY <1>7 DEF DrainEnd, EventTouch, EventFlag, EventNotify, Notify
<1>8. CASE Push
  <2>1. inbox + 1 <= MaxFrames
    <3>1. Len(handled) \in Nat /\ DOMAIN handled = 1..Len(handled)
      BY LenProperties
    <3>2. inbox < Len(handled)
      BY <1>8 DEF Push, Counted
    <3>3. Len(handled) \in DOMAIN handled /\ handled[Len(handled)] \in Int
      BY <3>1, <3>2
    <3>4. Len(handled) <= MaxFrames
      BY <3>3 DEF Ordered
    <3> QED
      BY <3>1, <3>2, <3>4
  <2> QED
    BY <1>8, <2>1 DEF Push, Notify
<1>9. ASSUME NEW type \in Types, Frame(type) PROVE TypeOK'
  <2>1. [n |-> arrived + 1, type |-> type] \in Frames
    BY <1>9 DEF Frame, Frames
  <2>2. ring' \in Seq(Frames) /\ Len(ring') <= RingSize
    <3>1. CASE UNCHANGED ring
      BY <3>1
    <3>2. CASE Len(ring) < RingSize /\ ring' = Append(ring, [n |-> arrived + 1, type |-> type])
      BY <2>1, <3>2, AppendProperties, LenProperties
    <3> QED
      BY <1>9, <3>1, <3>2 DEF Frame
  <2>3. rt' \in 0..MaxFrames /\ early' \in 0..MaxEarly /\ arrived' \in 0..MaxFrames
    <3>1. rt + 1 <= MaxFrames /\ arrived + 1 <= MaxFrames
      BY <1>9 DEF Frame, Counted
    <3>2. arrived' = arrived + 1 /\ rt' \in {rt, rt + 1}
      BY <1>9 DEF Frame
    <3>3. early' \in 0..MaxEarly
      BY <1>9 DEF Frame
    <3> QED
      BY <3>1, <3>2, <3>3
  <2>4. status' \in {"running", "exited", "killed", "aborted"}
    BY <1>9 DEF Frame
  <2> QED
    BY <1>9, <2>2, <2>3, <2>4 DEF Frame
<1>10. ASSUME NEW t \in {"main", "intr"}, OnSignal(t) PROVE TypeOK'
  <2>1. handlers[t] + 1 \in 0..MaxSignals /\ raised + 1 \in 0..MaxSignals
    BY <1>10 DEF OnSignal, Counted
  <2>2. handlers' \in [{"main", "intr"} -> 0..MaxSignals]
    BY <1>10, <2>1 DEF OnSignal
  <2> QED
    BY <1>10, <2>1, <2>2 DEF OnSignal
<1>11. ASSUME NEW t \in {"main", "intr"}, OnSignalKill(t) PROVE TypeOK'
  <2>1. handlers[t] - 1 \in 0..MaxSignals
    BY <1>11 DEF OnSignalKill
  <2>2. handlers' \in [{"main", "intr"} -> 0..MaxSignals]
    BY <1>11, <2>1 DEF OnSignalKill
  <2>3. status' \in {"running", "exited", "killed", "aborted"} /\ pending' \subseteq {"HUP", "USR1", "USR2"}
    BY <1>11 DEF OnSignalKill
  <2> QED
    BY <1>11, <2>2, <2>3 DEF OnSignalKill
<1>12. CASE UNCHANGED vars
  BY <1>12 DEF vars
<1> QED
  BY <1>1, <1>2, <1>3, <1>4, <1>4a, <1>4b, <1>5, <1>6, <1>7, <1>8, <1>9, <1>10, <1>11, <1>12
  DEF Next, Main, Intr, Environment

\* run creates the interrupt thread under the mask it has set, and the barrier
\* lets neither thread go on before interruptThreadPtr is assigned.
LEMMA PhasesStep == TypeOK /\ Phases /\ [Next]_vars => Phases'
<1> SUFFICES ASSUME TypeOK, Phases, [Next]_vars PROVE Phases'
  OBVIOUS
<1> USE DEF TypeOK, Phases, MainStep, IntrStep, kernelVars, sockVars, Unmasked, Serving,
            IntrLabels, MainLabels
<1>1. CASE Startup
  BY <1>1 DEF Startup, Attach, SetAsync, SetSig, SetMask, Spawn, Assign, Barrier, OpenSocket
<1>2. CASE Main \/ RecvSpurious
  BY <1>2 DEF Main, CheckTerminate, RecvTest, RecvBlock, RecvSpurious, RecvTake, Shutdown, Join
<1>3. CASE SigHup \/ SigUsr1 \/ SigUsr2 \/ SigDevice
  BY <1>3 DEF SigHup, SigUsr1, SigUsr2, SigDevice
<1>4. CASE ReadFrame
  BY <1>4 DEF ReadFrame
<1>5. ASSUME NEW type \in {"ip", "arp"}, DrainOne(type) PROVE Phases'
  BY <1>5 DEF DrainOne
<1>6. CASE DrainEnd \/ Push \/ EventTouch \/ EventFlag \/ EventNotify
  BY <1>6 DEF DrainEnd, Push, EventTouch, EventFlag, EventNotify, Notify
<1>7. ASSUME NEW type \in Types, Frame(type) PROVE Phases'
  BY <1>7 DEF Frame
<1>8. ASSUME NEW t \in {"main", "intr"}, OnSignal(t) \/ OnSignalKill(t) PROVE Phases'
  BY <1>8 DEF OnSignal, OnSignalKill
<1>9. CASE UNCHANGED vars
  BY <1>9 DEF vars
<1> QED
  BY <1>1, <1>2, <1>3, <1>4, <1>5, <1>6, <1>7, <1>8, <1>9 DEF Next, Intr, Environment

\* With the mask set, each thread there is blocks what is sent to the process.
LEMMA NotFatal == TypeOK /\ Phases /\ mainPc \notin Unmasked => ~Fatal
BY DEF TypeOK, Phases, Fatal, Live, Unmasked

\* Only Frame and the second half of on_signal kill, and only before the mask.
LEMMA KilledStep == TypeOK /\ Phases /\ KilledOnlyUnmasked /\ [Next]_vars => KilledOnlyUnmasked'
<1> SUFFICES ASSUME TypeOK, Phases, KilledOnlyUnmasked, [Next]_vars, status' = "killed"
             PROVE  mainPc' \in Unmasked
  BY DEF KilledOnlyUnmasked
<1>1. ASSUME NEW type \in Types, Frame(type) PROVE mainPc' \in Unmasked
  <2>1. mainPc = "async" \/ Fatal
    BY <1>1 DEF Frame
  <2> QED
    BY <1>1, <2>1, NotFatal DEF Frame, Unmasked
<1>2. ASSUME NEW t \in {"main", "intr"}, OnSignalKill(t) PROVE mainPc' \in Unmasked
  <2>1. Fatal
    BY <1>2 DEF OnSignalKill
  <2> QED
    BY <1>2, <2>1, NotFatal DEF OnSignalKill
<1>3. CASE UNCHANGED vars
  BY <1>3 DEF vars, KilledOnlyUnmasked
<1>4. ~Startup /\ ~Main /\ ~RecvSpurious
  BY DEF Startup, Attach, SetAsync, SetSig, SetMask, Spawn, Assign, Barrier, OpenSocket,
     Main, CheckTerminate, RecvTest, RecvBlock, RecvSpurious, RecvTake, Shutdown, Join, MainStep
<1>5. ~Intr
  BY DEF Intr, SigHup, SigUsr1, SigUsr2, SigDevice, ReadFrame, DrainOne, DrainEnd, Push,
     EventTouch, EventFlag, EventNotify, IntrStep
<1>6. \A t \in {"main", "intr"} : ~OnSignal(t)
  BY DEF OnSignal
<1> QED
  BY <1>1, <1>2, <1>3, <1>4, <1>5, <1>6 DEF Next, Environment

\* A return from recvFrom is decided under the block's mutex, which a push needs.
LEMMA TakeStep == TypeOK /\ TakeReady /\ [Next]_vars => TakeReady'
<1> SUFFICES ASSUME TypeOK, TakeReady, [Next]_vars PROVE TakeReady'
  OBVIOUS
<1> USE DEF TypeOK, TakeReady, MainStep, IntrStep, kernelVars, sockVars, Notify
<1>1. CASE Startup
  BY <1>1 DEF Startup, Attach, SetAsync, SetSig, SetMask, Spawn, Assign, Barrier, OpenSocket
<1>2. CASE Main \/ RecvSpurious
  BY <1>2 DEF Main, CheckTerminate, RecvTest, RecvBlock, RecvSpurious, RecvTake, Shutdown, Join
<1>3. CASE SigHup \/ SigUsr1 \/ SigUsr2 \/ SigDevice \/ ReadFrame
  BY <1>3 DEF SigHup, SigUsr1, SigUsr2, SigDevice, ReadFrame
<1>4. ASSUME NEW type \in {"ip", "arp"}, DrainOne(type) PROVE TakeReady'
  BY <1>4 DEF DrainOne
<1>5. CASE DrainEnd \/ Push \/ EventTouch \/ EventFlag \/ EventNotify
  BY <1>5 DEF DrainEnd, Push, EventTouch, EventFlag, EventNotify
<1>6. ASSUME NEW type \in Types, Frame(type) PROVE TakeReady'
  BY <1>6 DEF Frame
<1>7. ASSUME NEW t \in {"main", "intr"}, OnSignal(t) \/ OnSignalKill(t) PROVE TakeReady'
  BY <1>7 DEF OnSignal, OnSignalKill
<1>8. CASE UNCHANGED vars
  BY <1>8 DEF vars
<1> QED
  BY <1>1, <1>2, <1>3, <1>4, <1>5, <1>6, <1>7, <1>8 DEF Next, Intr, Environment

-----------------------------------------------------------------------------
(* The way of a frame: the device, a queue, a handler, the socket. *)

\* A step that moves no frame.
Still ==
    /\ UNCHANGED <<rt, ring, queues, handled, arrived, early>>
    /\ intrPc' = "device" <=> intrPc = "device"
    /\ intrPc' = "push" <=> intrPc = "push"
    /\ status' = "running" => status = "running"

\* Five actions move frames.
LEMMA Movers ==
    ASSUME TypeOK, Phases, [Next]_vars,
           \A type \in Types : ~Frame(type), ~SigDevice, ~ReadFrame,
           \A type \in {"ip", "arp"} : ~DrainOne(type), ~Push
    PROVE  Still
<1> USE DEF MainStep, IntrStep, kernelVars, sockVars, Still
<1>1. CASE Startup
  BY <1>1 DEF Phases, Unmasked, Startup, Attach, SetAsync, SetSig, SetMask, Spawn, Assign, Barrier, OpenSocket
<1>2. CASE Main \/ RecvSpurious
  BY <1>2 DEF Main, CheckTerminate, RecvTest, RecvBlock, RecvSpurious, RecvTake, Shutdown, Join
<1>3. CASE SigHup \/ SigUsr1 \/ SigUsr2
  BY <1>3 DEF SigHup, SigUsr1, SigUsr2
<1>4. CASE DrainEnd \/ EventTouch \/ EventFlag \/ EventNotify
  BY <1>4 DEF DrainEnd, EventTouch, EventFlag, EventNotify
<1>5. ASSUME NEW t \in {"main", "intr"}, OnSignal(t) \/ OnSignalKill(t) PROVE Still
  BY <1>5 DEF OnSignal, OnSignalKill
<1>6. CASE UNCHANGED vars
  BY <1>6 DEF vars
<1> QED
  BY <1>1, <1>2, <1>3, <1>4, <1>5, <1>6 DEF Next, Intr, Environment

\* One read for each signal.
LEMMA BacklogStep == TypeOK /\ Phases /\ Backlog /\ [Next]_vars => Backlog'
<1> SUFFICES ASSUME TypeOK, Phases, Backlog, [Next]_vars, status' = "running"
             PROVE  Len(ring') = rt' + early' + (IF intrPc' = "device" THEN 1 ELSE 0)
  BY DEF Backlog
<1>0. Len(ring) \in Nat /\ rt \in Nat /\ early \in Nat /\ ring \in Seq(Frames)
  BY LenProperties, BoundAssumption DEF TypeOK
<1>1. ASSUME NEW type \in Types, Frame(type)
      PROVE  Len(ring') = rt' + early' + (IF intrPc' = "device" THEN 1 ELSE 0)
  <2>1. Len(ring) = rt + early + (IF intrPc = "device" THEN 1 ELSE 0) /\ intrPc' = intrPc
    BY <1>1 DEF Frame, Backlog
  <2>2. CASE UNCHANGED <<ring, rt, early>>
    BY <1>0, <2>1, <2>2
  <2>3. CASE mainPc = "attached" /\ ~UNCHANGED ring
    <3>1. Len(ring') = Len(ring) + 1 /\ rt' = rt /\ early' = early + 1
      BY <1>0, <1>1, <2>3, AppendProperties DEF Frame
    <3> QED
      BY <1>0, <2>1, <3>1
  <2>4. CASE mainPc # "attached" /\ ~UNCHANGED ring
    <3>1. Len(ring') = Len(ring) + 1 /\ rt' = rt + 1 /\ early' = early
      BY <1>0, <1>1, <2>4, AppendProperties DEF Frame
    <3> QED
      BY <1>0, <2>1, <3>1
  <2>5. UNCHANGED ring => UNCHANGED <<ring, rt, early>>
    BY <1>0, <1>1, AppendProperties DEF Frame
  <2> QED
    BY <2>2, <2>3, <2>4, <2>5
<1>2. CASE SigDevice
  BY <1>0, <1>2 DEF SigDevice, IntrStep, Backlog
<1>3. CASE ReadFrame
  <2>1. Len(ring') = Len(ring) - 1
    BY <1>0, <1>3, HeadTailProperties DEF ReadFrame
  <2> QED
    BY <1>0, <1>3, <2>1 DEF ReadFrame, IntrStep, Backlog
<1>4. ASSUME NEW type \in {"ip", "arp"}, DrainOne(type)
      PROVE  Len(ring') = rt' + early' + (IF intrPc' = "device" THEN 1 ELSE 0)
  BY <1>0, <1>4 DEF DrainOne, Backlog, kernelVars
<1>5. CASE Push
  BY <1>0, <1>5 DEF Push, IntrStep, Backlog, kernelVars
<1>6. CASE Still
  BY <1>0, <1>6 DEF Still, Backlog
<1> QED
  BY <1>1, <1>2, <1>3, <1>4, <1>5, <1>6, Movers

\* A queue that is not empty keeps its signal.
LEMMA QueuedStep ==
    TypeOK /\ Phases /\ QueuedIsSignalled /\ [Next]_vars => QueuedIsSignalled'
<1> SUFFICES ASSUME TypeOK, Phases, QueuedIsSignalled, [Next]_vars PROVE QueuedIsSignalled'
  OBVIOUS
<1> USE DEF TypeOK, QueuedIsSignalled, MainStep, IntrStep, kernelVars, sockVars
<1>1. CASE Startup
  BY <1>1 DEF Phases, Unmasked, Startup, Attach, SetAsync, SetSig, SetMask, Spawn, Assign, Barrier, OpenSocket
<1>2. CASE Main \/ RecvSpurious
  BY <1>2 DEF Main, CheckTerminate, RecvTest, RecvBlock, RecvSpurious, RecvTake, Shutdown, Join
<1>3. CASE SigHup \/ SigUsr1 \/ SigUsr2 \/ SigDevice
  BY <1>3 DEF SigHup, SigUsr1, SigUsr2, SigDevice, First
<1>4. CASE ReadFrame
  <2>1. CASE UNCHANGED <<queues, pending>>
    BY <1>4, <2>1 DEF ReadFrame
  <2>2. CASE pending' = pending \cup {"USR1"}
    BY <2>2
  <2> QED
    BY <1>4, <2>1, <2>2 DEF ReadFrame
<1>5. ASSUME NEW type \in {"ip", "arp"}, DrainOne(type) PROVE QueuedIsSignalled'
  <2>1. status' # "running" \/ intrPc' \in {"drain", "push"}
    BY <1>5 DEF DrainOne
  <2> QED
    BY <2>1
<1>6. CASE DrainEnd \/ Push \/ EventTouch \/ EventFlag \/ EventNotify
  BY <1>6 DEF DrainEnd, Push, EventTouch, EventFlag, EventNotify
<1>7. ASSUME NEW type \in Types, Frame(type) PROVE QueuedIsSignalled'
  BY <1>7 DEF Frame
<1>8. ASSUME NEW t \in {"main", "intr"}, OnSignal(t) \/ OnSignalKill(t) PROVE QueuedIsSignalled'
  BY <1>8 DEF OnSignal, OnSignalKill
<1>9. CASE UNCHANGED vars
  BY <1>9 DEF vars
<1> QED
  BY <1>1, <1>2, <1>3, <1>4, <1>5, <1>6, <1>7, <1>8, <1>9 DEF Next, Intr, Environment

\* What one push_back makes of an empty queue.
LEMMA Single ==
    ASSUME NEW S, NEW x \in S
    PROVE  /\ Append(<<>>, x) = <<x>>
           /\ <<x>> \in Seq(S) /\ Len(<<x>>) = 1 /\ DOMAIN <<x>> = {1} /\ <<x>>[1] = x
<1>1. <<x>> \in Seq(S) /\ Len(<<x>>) = 1 /\ <<x>>[1] = x /\ DOMAIN <<x>> = {1}
  OBVIOUS
<1>2. <<>> \in Seq(S) /\ Len(<<>>) = 0
  BY EmptySeq
<1>3. /\ Append(<<>>, x) \in Seq(S)
      /\ Len(Append(<<>>, x)) = 1
      /\ Append(<<>>, x)[1] = x
  BY <1>2, AppendProperties
<1>4. Append(<<>>, x) = <<x>>
  BY <1>1, <1>3, SeqEqual
<1> QED
  BY <1>1, <1>4

\* With one frame at a time, a read fills one of two empty queues ...
LEMMA ReadEffect ==
    ASSUME TypeOK, OneAtATime, ReadFrame
    PROVE  /\ ring # <<>> /\ ring[1] \in Frames
           /\ Len(ring) \in Nat \ {0} /\ Len(ring') = Len(ring) - 1
           /\ \A i \in 1..(Len(ring) - 1) : ring'[i] = ring[i + 1]
           /\ \A type \in {"ip", "arp"} : queues[type] = <<>>
           /\ \/ UNCHANGED queues
              \/ \E type \in {"ip", "arp"} :
                    queues' = [queues EXCEPT ![type] = <<ring[1].n>>]
<1>1. ring \in Seq(Frames) /\ ring # <<>> /\ Len(ring) \in Nat \ {0} /\ ring' = Tail(ring)
  BY EmptySeq DEF TypeOK, ReadFrame
<1>2. Head(ring) = ring[1] /\ ring[1] \in Frames
  BY <1>1, ElementOfSeq
<1>3. Len(ring') = Len(ring) - 1 /\ \A i \in 1..(Len(ring) - 1) : ring'[i] = ring[i + 1]
  BY <1>1, HeadTailProperties
<1>4. \A type \in {"ip", "arp"} : queues[type] = <<>>
  BY DEF OneAtATime, ReadFrame, IntrStep
<1>5. \/ UNCHANGED queues
      \/ \E type \in {"ip", "arp"} : queues' = [queues EXCEPT ![type] = Append(@, ring[1].n)]
  BY <1>2 DEF ReadFrame, TypeOK
<1>6. \A type \in {"ip", "arp"} : Append(queues[type], ring[1].n) = <<ring[1].n>>
  BY <1>2, <1>4, Single DEF Frames
<1>7. \/ UNCHANGED queues
      \/ \E type \in {"ip", "arp"} : queues' = [queues EXCEPT ![type] = <<ring[1].n>>]
  <2>1. ASSUME NEW type \in {"ip", "arp"}, queues' = [queues EXCEPT ![type] = Append(@, ring[1].n)]
        PROVE  queues' = [queues EXCEPT ![type] = <<ring[1].n>>]
    BY <1>6, <2>1 DEF TypeOK
  <2> QED
    BY <1>5, <2>1
<1> QED
  BY <1>1, <1>2, <1>3, <1>4, <1>7

\* ... and what handleProtocolSignal takes out leaves both of them empty.
LEMMA DrainEffect ==
    ASSUME TypeOK, OneAtATime, NEW type \in {"ip", "arp"}, DrainOne(type)
    PROVE  /\ Len(queues[type]) = 1 /\ queues[type][1] \in Queued
           /\ \A other \in {"ip", "arp"} :
                 /\ queues'[other] = <<>>
                 /\ other # type => queues[other] = <<>>
           /\ handled' = Append(handled, queues[type][1])
           /\ UNCHANGED <<kernelVars, sockVars>>
<1>1. queues[type] # <<>> /\ queues' = [queues EXCEPT ![type] = Tail(queues[type])]
  BY DEF DrainOne, TypeOK
<1>2. /\ queues[type] \in Seq(1..MaxFrames) /\ Len(queues[type]) \in Nat \ {0}
      /\ Head(queues[type]) = queues[type][1] /\ Head(queues[type]) \in 1..MaxFrames
      /\ Tail(queues[type]) \in Seq(1..MaxFrames)
      /\ Len(Tail(queues[type])) = Len(queues[type]) - 1
  BY <1>1, QueueFacts
<1>3. Len(queues[type]) = 1 /\ \A other \in {"ip", "arp"} : other # type => queues[other] = <<>>
  <2>1. Len(queues[type]) \in {0, 1}
    BY DEF OneAtATime
  <2>2. PICK empty \in {"ip", "arp"} : queues[empty] = <<>>
    BY DEF OneAtATime
  <2>3. \A other \in {"ip", "arp"} : other # type => other = empty
    BY <1>1, <2>2
  <2>4. Len(queues[type]) = 1
    BY <1>2, <2>1
  <2> QED
    BY <2>2, <2>3, <2>4
<1>4. Tail(queues[type]) = <<>>
  <2>1. \A s \in Seq(1..MaxFrames) : s # <<>> => Len(s) \in Nat \ {0}
    BY EmptySeq
  <2>2. Len(Tail(queues[type])) = 0
    BY <1>2, <1>3
  <2> QED
    BY <1>2, <2>1, <2>2
<1>5. queues[type][1] \in Queued
  <2>1. 1 \in DOMAIN queues[type]
    BY <1>2
  <2> QED
    BY <1>2, <2>1 DEF Queued
<1>6. \A other \in {"ip", "arp"} : queues'[other] = <<>>
  BY <1>1, <1>3, <1>4 DEF TypeOK
<1>7. handled' = Append(handled, queues[type][1]) /\ UNCHANGED <<kernelVars, sockVars>>
  BY <1>2 DEF DrainOne
<1> QED
  BY <1>3, <1>5, <1>6, <1>7

\* The interrupt thread takes a device signal only when no queue holds a frame.
LEMMA OneStep ==
    TypeOK /\ Phases /\ QueuedIsSignalled /\ OneAtATime /\ [Next]_vars => OneAtATime'
<1> SUFFICES ASSUME TypeOK, Phases, QueuedIsSignalled, OneAtATime, [Next]_vars
             PROVE  OneAtATime'
  OBVIOUS
<1>1. ASSUME NEW type \in Types, Frame(type) PROVE OneAtATime'
  BY <1>1 DEF Frame, OneAtATime
<1>2. CASE SigDevice
  BY <1>2 DEF SigDevice, IntrStep, OneAtATime, QueuedIsSignalled, TypeOK
<1>3. CASE ReadFrame
  <2>1. intrPc' = "sigwait"
    BY <1>3 DEF ReadFrame, IntrStep
  <2>2. CASE UNCHANGED queues
    BY <2>1, <2>2 DEF OneAtATime
  <2>3. ASSUME NEW type \in {"ip", "arp"}, queues' = [queues EXCEPT ![type] = <<ring[1].n>>]
        PROVE  OneAtATime'
    <3>1. \A other \in {"ip", "arp"} : other # type => queues'[other] = <<>>
      BY <1>3, <2>3, ReadEffect DEF TypeOK
    <3>2. queues'[type] = <<ring[1].n>>
      BY <2>3 DEF TypeOK
    <3>3. \A other \in {"ip", "arp"} : Len(queues'[other]) \in {0, 1}
      <4>1. Len(<<>>) = 0 /\ Len(<<ring[1].n>>) = 1
        OBVIOUS
      <4>2. SUFFICES ASSUME NEW other \in {"ip", "arp"} PROVE Len(queues'[other]) \in {0, 1}
        OBVIOUS
      <4>3. CASE other = type
        BY <3>2, <4>1, <4>3
      <4>4. CASE other # type
        BY <3>1, <4>1, <4>4
      <4> QED
        BY <4>3, <4>4
    <3>4. \E other \in {"ip", "arp"} : queues'[other] = <<>>
      BY <3>1
    <3> QED
      BY <2>1, <3>3, <3>4 DEF OneAtATime
  <2> QED
    BY <1>3, <2>2, <2>3, ReadEffect
<1>4. ASSUME NEW type \in {"ip", "arp"}, DrainOne(type) PROVE OneAtATime'
  <2>1. \A other \in {"ip", "arp"} : queues'[other] = <<>>
    BY <1>4, DrainEffect
  <2> QED
    BY <2>1 DEF OneAtATime
<1>5. CASE Push
  BY <1>5 DEF Push, IntrStep, OneAtATime
<1>6. CASE Still
  BY <1>6 DEF Still, OneAtATime
<1> QED
  BY <1>1, <1>2, <1>3, <1>4, <1>5, <1>6, Movers

\* A signal is queued for one frame that came, and so is a SIGINT's handler.
LEMMA SignalsCounted ==
    TypeOK /\ Phases /\ Counted /\ [Next]_vars =>
        (rt + early <= arrived)' /\ \A t \in {"main", "intr"} : handlers'[t] <= raised'
<1> SUFFICES ASSUME TypeOK, Phases, Counted, [Next]_vars
             PROVE  (rt + early <= arrived)' /\ \A t \in {"main", "intr"} : handlers'[t] <= raised'
  OBVIOUS
<1>0. /\ rt \in Nat /\ early \in Nat /\ arrived \in Nat /\ raised \in Nat
      /\ rt + early <= arrived /\ \A t \in {"main", "intr"} : handlers[t] <= raised
      /\ handlers \in [{"main", "intr"} -> Nat]
  BY BoundAssumption DEF TypeOK, Counted
<1>1. (rt + early <= arrived)'
  <2>1. ASSUME NEW type \in Types, Frame(type) PROVE (rt + early <= arrived)'
    <3>1. arrived' = arrived + 1
      BY <2>1 DEF Frame
    <3>2. \/ UNCHANGED <<rt, early>>
          \/ rt' = rt /\ early' = early + 1
          \/ rt' = rt + 1 /\ early' = early
      BY <2>1 DEF Frame
    <3>3. CASE UNCHANGED <<rt, early>>
      BY <1>0, <3>1, <3>3
    <3>4. CASE rt' = rt /\ early' = early + 1
      BY <1>0, <3>1, <3>4
    <3>5. CASE rt' = rt + 1 /\ early' = early
      BY <1>0, <3>1, <3>5
    <3> QED
      BY <3>2, <3>3, <3>4, <3>5
  <2>2. CASE SigDevice
    BY <1>0, <2>2 DEF SigDevice
  <2>3. CASE ReadFrame \/ Push
    BY <1>0, <2>3 DEF ReadFrame, Push, kernelVars
  <2>4. ASSUME NEW type \in {"ip", "arp"}, DrainOne(type) PROVE (rt + early <= arrived)'
    BY <1>0, <2>4 DEF DrainOne, kernelVars
  <2>5. CASE Still
    BY <1>0, <2>5 DEF Still
  <2> QED
    BY <2>1, <2>2, <2>3, <2>4, <2>5, Movers
<1>2. ASSUME NEW t \in {"main", "intr"} PROVE handlers'[t] <= raised'
  <2>1. ASSUME NEW u \in {"main", "intr"}, OnSignal(u) PROVE handlers'[t] <= raised'
    BY <1>0, <2>1 DEF OnSignal
  <2>2. ASSUME NEW u \in {"main", "intr"}, OnSignalKill(u) PROVE handlers'[t] <= raised'
    BY <1>0, <2>2 DEF OnSignalKill
  <2>3. CASE \A u \in {"main", "intr"} : ~OnSignal(u) /\ ~OnSignalKill(u)
    <3>1. UNCHANGED <<handlers, raised>>
      BY <2>3 DEF Next, vars, Startup, Attach, SetAsync, SetSig, SetMask, Spawn, Assign, Barrier,
         OpenSocket, Main, CheckTerminate, RecvTest, RecvBlock, RecvSpurious, RecvTake, Shutdown, Join,
         Intr, SigHup, SigUsr1, SigUsr2, SigDevice, ReadFrame, DrainOne, DrainEnd, Push,
         EventTouch, EventFlag, EventNotify, Environment, Frame, kernelVars
    <3> QED
      BY <1>0, <3>1
  <2> QED
    BY <2>1, <2>2, <2>3
<1> QED
  BY <1>1, <1>2

\* A datagram in the socket was a frame given to a handler.
LEMMA InboxCounted ==
    TypeOK /\ Phases /\ OneAtATime /\ Counted /\ [Next]_vars =>
        inbox' <= Len(handled') /\ (intrPc' = "push" => inbox' < Len(handled'))
<1> SUFFICES ASSUME TypeOK, Phases, OneAtATime, Counted, [Next]_vars
             PROVE  inbox' <= Len(handled') /\ (intrPc' = "push" => inbox' < Len(handled'))
  OBVIOUS
<1> DEFINE Goal == inbox' <= Len(handled') /\ (intrPc' = "push" => inbox' < Len(handled'))
<1>0. /\ Len(handled) \in Nat /\ inbox \in Nat /\ handled \in Seq(1..MaxFrames)
      /\ inbox <= Len(handled) /\ (intrPc = "push" => inbox < Len(handled))
  BY LenProperties, BoundAssumption DEF TypeOK, Counted
<1>1. CASE Push
  <2>1. /\ inbox < Len(handled) /\ inbox' = inbox + 1 /\ UNCHANGED handled
        /\ intrPc' = "drain"
    BY <1>0, <1>1 DEF Push, IntrStep
  <2> QED
    BY <1>0, <2>1
<1>2. CASE ~Push
  <2>1. inbox' \in {inbox, inbox - 1}
    BY <1>2 DEF Next, vars, sockVars, Startup, Attach, SetAsync, SetSig, SetMask, Spawn, Assign,
       Barrier, OpenSocket, Main, CheckTerminate, RecvTest, RecvBlock, RecvSpurious, RecvTake, Shutdown, Join,
       Intr, SigHup, SigUsr1, SigUsr2, SigDevice, ReadFrame, DrainOne, DrainEnd,
       EventTouch, EventFlag, EventNotify, Environment, Frame, OnSignal, OnSignalKill
  <2>2. ASSUME NEW type \in {"ip", "arp"}, DrainOne(type) PROVE Goal
    <3>1. queues[type][1] \in 1..MaxFrames /\ handled' = Append(handled, queues[type][1])
      BY <2>2, DrainEffect DEF Queued
    <3>2. Len(handled') = Len(handled) + 1
      BY <1>0, <3>1, AppendProperties
    <3> QED
      BY <1>0, <2>1, <3>2
  <2>3. CASE \A type \in {"ip", "arp"} : ~DrainOne(type)
    <3>1. UNCHANGED handled /\ (intrPc' = "push" => intrPc = "push")
      <4>1. ASSUME NEW type \in Types, Frame(type) PROVE <3>1
        BY <4>1 DEF Frame
      <4>2. CASE SigDevice \/ ReadFrame
        BY <4>2 DEF SigDevice, ReadFrame, IntrStep
      <4>3. CASE Still
        BY <4>3 DEF Still
      <4> QED
        BY <1>2, <2>3, <4>1, <4>2, <4>3, Movers
    <3> QED
      BY <1>0, <2>1, <3>1
  <2> QED
    BY <2>2, <2>3
<1> QED
  BY <1>1, <1>2

\* Pending signals and frames stay within what was raised.
LEMMA CountedStep ==
    TypeOK /\ Phases /\ OneAtATime /\ Counted /\ [Next]_vars => Counted'
BY SignalsCounted, InboxCounted DEF Counted

\* Where an append puts the new element.
LEMMA Appended ==
    ASSUME NEW S, NEW s \in Seq(S), NEW e \in S
    PROVE  /\ Append(s, e) \in Seq(S)
           /\ Len(Append(s, e)) = Len(s) + 1
           /\ DOMAIN Append(s, e) = 1..(Len(s) + 1)
           /\ \A i \in 1..Len(s) : Append(s, e)[i] = s[i]
           /\ Append(s, e)[Len(s) + 1] = e
BY AppendProperties, LenProperties

\* What is compared are numbers.
LEMMA Numbers ==
    ASSUME TypeOK
    PROVE  /\ ring \in Seq(Frames) /\ Len(ring) \in Nat /\ DOMAIN ring = 1..Len(ring)
           /\ handled \in Seq(1..MaxFrames) /\ Len(handled) \in Nat
           /\ DOMAIN handled = 1..Len(handled) /\ arrived \in Nat
           /\ \A j \in DOMAIN ring : ring[j].n \in Int
           /\ \A i \in DOMAIN handled : handled[i] \in Int
           /\ Queued \subseteq Int
<1>1. /\ ring \in Seq(Frames) /\ Len(ring) \in Nat /\ DOMAIN ring = 1..Len(ring)
      /\ handled \in Seq(1..MaxFrames) /\ Len(handled) \in Nat
      /\ DOMAIN handled = 1..Len(handled) /\ arrived \in Nat
  BY LenProperties DEF TypeOK
<1>2. \A j \in DOMAIN ring : ring[j] \in Frames
  BY <1>1, ElementOfSeq
<1>3. \A i \in DOMAIN handled : handled[i] \in 1..MaxFrames
  BY <1>1, ElementOfSeq
<1>4. \A f \in Frames : f.n \in Int
  BY DEF Frames
<1>5. \A n \in 1..MaxFrames : n \in Int
  OBVIOUS
<1>6. \A j \in DOMAIN ring : ring[j].n \in Int
  BY <1>2, <1>4
<1>7. \A i \in DOMAIN handled : handled[i] \in Int
  BY <1>3, <1>5
<1>8. Queued \subseteq Int
  BY <1>5 DEF Queued
<1> QED
  BY <1>1, <1>6, <1>7, <1>8

\* A frame joins the end of the line, moves up one place, or is handled.
LEMMA OrderedStep ==
    TypeOK /\ Phases /\ OneAtATime /\ Ordered /\ [Next]_vars => Ordered'
<1> SUFFICES ASSUME TypeOK, Phases, OneAtATime, Ordered, [Next]_vars PROVE Ordered'
  OBVIOUS
<1>0. /\ ring \in Seq(Frames) /\ Len(ring) \in Nat /\ DOMAIN ring = 1..Len(ring)
      /\ handled \in Seq(1..MaxFrames) /\ Len(handled) \in Nat
      /\ DOMAIN handled = 1..Len(handled) /\ arrived \in Nat
      /\ \A j \in DOMAIN ring : ring[j].n \in Int
      /\ \A i \in DOMAIN handled : handled[i] \in Int
      /\ Queued \subseteq Int
  BY Numbers
<1>1. ASSUME NEW type \in Types, Frame(type) PROVE Ordered'
  <2>1. UNCHANGED <<Queued, handled>> /\ arrived' = arrived + 1
    BY <1>1 DEF Frame, Queued
  <2> HIDE DEF Queued
  <2>2. CASE UNCHANGED ring
    BY <1>0, <2>1, <2>2 DEF Ordered, FramesInOrder
  <2>3. CASE ring' = Append(ring, [n |-> arrived + 1, type |-> type])
    <3> DEFINE f == [n |-> arrived + 1, type |-> type]
    <3>1. arrived < MaxFrames /\ MaxFrames \in Nat
      BY <1>1, BoundAssumption DEF Frame
    <3>2. f \in Frames /\ f.n = arrived + 1
      BY <1>0, <3>1 DEF Frames
    <3>3. ring' = Append(ring, f)
      BY <2>3
    <3> HIDE DEF f
    <3>4. /\ DOMAIN ring' = 1..(Len(ring) + 1)
          /\ \A j \in 1..Len(ring) : ring'[j] = ring[j]
          /\ ring'[Len(ring) + 1] = f
      BY <1>0, <3>2, <3>3, Appended
    <3>5. \A j \in DOMAIN ring' :
             \/ j \in DOMAIN ring /\ ring'[j].n = ring[j].n /\ j < Len(ring) + 1
             \/ j = Len(ring) + 1 /\ ring'[j].n = arrived + 1
      BY <1>0, <3>2, <3>4
    <3>6. FramesInOrder'
      BY <2>1 DEF Ordered, FramesInOrder
    <3>7. \A i, j \in DOMAIN ring' : i < j => ring'[i].n < ring'[j].n
      BY <1>0, <3>5 DEF Ordered
    <3>8. /\ \A i \in DOMAIN handled', n \in Queued' : handled'[i] < n
          /\ \A n \in Queued' : n <= arrived'
          /\ \A i \in DOMAIN handled' : i <= handled'[i] /\ handled'[i] <= arrived'
      BY <1>0, <2>1 DEF Ordered
    <3>9. /\ \A i \in DOMAIN handled', j \in DOMAIN ring' : handled'[i] < ring'[j].n
          /\ \A n \in Queued', j \in DOMAIN ring' : n < ring'[j].n
          /\ \A j \in DOMAIN ring' : ring'[j].n <= arrived'
      BY <1>0, <2>1, <3>5 DEF Ordered
    <3> QED
      BY <3>6, <3>7, <3>8, <3>9 DEF Ordered
  <2> QED
    BY <1>1, <2>1, <2>2, <2>3 DEF Frame
<1>2. CASE ReadFrame
  <2>1. /\ DOMAIN ring' = 1..(Len(ring) - 1) /\ 1 \in DOMAIN ring
        /\ \A j \in 1..(Len(ring) - 1) : ring'[j] = ring[j + 1]
        /\ UNCHANGED <<handled, arrived>>
    <3>1. ring # <<>> /\ ring' = Tail(ring)
      BY <1>2 DEF ReadFrame
    <3>2. Tail(ring) \in Seq(Frames) /\ Len(Tail(ring)) = Len(ring) - 1
      BY <1>0, <3>1, HeadTailProperties
    <3>3. DOMAIN ring' = 1..(Len(ring) - 1)
      BY <3>1, <3>2, LenProperties
    <3>4. Len(ring) \in Nat \ {0} /\ \A j \in 1..(Len(ring) - 1) : ring'[j] = ring[j + 1]
      BY <1>2, ReadEffect
    <3> QED
      BY <1>0, <1>2, <3>3, <3>4 DEF ReadFrame
  <2>2. Queued' \subseteq {ring[1].n}
    <3>1. \A type \in {"ip", "arp"} : queues[type] = <<>>
      BY <1>2, ReadEffect
    <3>2. CASE UNCHANGED queues
      BY <3>1, <3>2 DEF Queued
    <3>3. ASSUME NEW type \in {"ip", "arp"}, queues' = [queues EXCEPT ![type] = <<ring[1].n>>]
          PROVE  Queued' \subseteq {ring[1].n}
      <4>1. \A other \in {"ip", "arp"} : queues'[other] = <<>> \/ queues'[other] = <<ring[1].n>>
        BY <3>1, <3>3 DEF TypeOK
      <4>2. DOMAIN <<ring[1].n>> = {1} /\ <<ring[1].n>>[1] = ring[1].n
        BY Single
      <4> QED
        BY <4>1, <4>2 DEF Queued
    <3> QED
      BY <1>2, <3>2, <3>3, ReadEffect
  <2>3. \A j \in DOMAIN ring' : j \in Int /\ ring'[j] = ring[j + 1] /\ j + 1 \in DOMAIN ring /\ 1 < j + 1
    BY <1>0, <2>1
  <2> HIDE DEF Queued
  <2>4. FramesInOrder' /\ \A i \in DOMAIN handled' : i <= handled'[i] /\ handled'[i] <= arrived'
    BY <1>0, <2>1 DEF Ordered, FramesInOrder
  <2>5. \A i, j \in DOMAIN ring' : i < j => ring'[i].n < ring'[j].n
    BY <1>0, <2>3 DEF Ordered
  <2>6. /\ \A i \in DOMAIN handled', n \in Queued' : handled'[i] < n
        /\ \A n \in Queued' : n <= arrived'
    BY <1>0, <2>1, <2>2 DEF Ordered
  <2>7. /\ \A i \in DOMAIN handled', j \in DOMAIN ring' : handled'[i] < ring'[j].n
        /\ \A j \in DOMAIN ring' : ring'[j].n <= arrived'
    BY <1>0, <2>1, <2>3 DEF Ordered
  <2>8. \A n \in Queued', j \in DOMAIN ring' : n < ring'[j].n
    BY <1>0, <2>1, <2>2, <2>3 DEF Ordered
  <2> QED
    BY <2>4, <2>5, <2>6, <2>7, <2>8 DEF Ordered
<1>3. ASSUME NEW type \in {"ip", "arp"}, DrainOne(type) PROVE Ordered'
  <2> DEFINE q == queues[type][1]
  <2>1. q \in Queued /\ handled' = Append(handled, q) /\ UNCHANGED <<ring, arrived>>
    BY <1>3, DrainEffect DEF kernelVars
  <2>2. Queued' = {} /\ q \in 1..MaxFrames
    BY <1>3, <2>1, DrainEffect DEF Queued
  <2> HIDE DEF q, Queued
  <2>3. /\ DOMAIN handled' = 1..(Len(handled) + 1)
        /\ Len(handled') = Len(handled) + 1
        /\ \A i \in 1..Len(handled) : handled'[i] = handled[i]
        /\ handled'[Len(handled) + 1] = q
    BY <1>0, <2>1, <2>2, Appended
  <2>4. Len(handled) + 1 <= q
    <3>1. CASE Len(handled) = 0
      BY <2>2, <3>1
    <3>2. CASE Len(handled) # 0
      BY <1>0, <2>1, <2>2, <3>2 DEF Ordered
    <3> QED
      BY <3>1, <3>2
  <2>5. \A i \in DOMAIN handled' :
           \/ i \in DOMAIN handled /\ handled'[i] = handled[i] /\ i < Len(handled) + 1
           \/ i = Len(handled) + 1 /\ handled'[i] = q
    BY <1>0, <2>3
  <2>6. \A i, j \in DOMAIN handled' : i < j => handled'[i] < handled'[j]
    BY <1>0, <2>1, <2>2, <2>5 DEF Ordered, FramesInOrder
  <2>7. FramesInOrder'
    BY <2>3, <2>6 DEF FramesInOrder
  <2>8. \A i \in DOMAIN handled' : i <= handled'[i] /\ handled'[i] <= arrived'
    BY <1>0, <2>1, <2>4, <2>5 DEF Ordered
  <2>9. \A i \in DOMAIN handled', j \in DOMAIN ring' : handled'[i] < ring'[j].n
    BY <1>0, <2>1, <2>5 DEF Ordered
  <2> QED
    BY <2>1, <2>2, <2>7, <2>8, <2>9 DEF Ordered
<1>4. CASE SigDevice \/ Push \/ Still
  BY <1>4 DEF SigDevice, Push, Still, kernelVars, Ordered, FramesInOrder, Queued
<1> QED
  BY <1>1, <1>2, <1>3, <1>4, Movers

-----------------------------------------------------------------------------
\* The invariant is inductive: every part of it is kept by the lemma of its name.
LEMMA NextIInv == IInv /\ [Next]_vars => IInv'
BY TypeStep, PhasesStep, CountedStep, TakeStep, BacklogStep, QueuedStep, OneStep, OrderedStep,
   KilledStep DEF IInv

\* It holds of every reachable state.
THEOREM Inductive == Spec => []IInv
<1> QED
  BY InitIInv, NextIInv, PTL DEF Spec

\* Every variable keeps its type, and what has room only for the frames that
\* came (the signals queued, the frames handled, the socket's queue) its bound.
THEOREM TypeCorrect == Spec => []TypeOK
<1>1. IInv => TypeOK
  BY DEF IInv
<1> QED
  BY <1>1, Inductive, PTL

\* The frames in the device are those announced by a signal still to be handled
\* and those that came before O_ASYNC: EtherDevice::handler, which reads one
\* frame for each signal, neither blocks nor catches up.
THEOREM ReadsKeepUp == Spec => []Backlog
<1>1. IInv => Backlog
  BY DEF IInv
<1> QED
  BY <1>1, Inductive, PTL

\* read in EtherDevice::handler, which has no O_NONBLOCK, finds a frame.
THEOREM ReadNeverBlocks ==
    Spec => [](status = "running" /\ intrPc = "device" => ring # <<>>)
<1>1. IInv => (status = "running" /\ intrPc = "device" => ring # <<>>)
  <2> SUFFICES ASSUME IInv, status = "running", intrPc = "device" PROVE ring # <<>>
    OBVIOUS
  <2>1. rt \in Nat /\ early \in Nat
    BY BoundAssumption DEF IInv, TypeOK
  <2>2. Len(ring) = rt + early + 1
    BY DEF IInv, Backlog
  <2>3. Len(ring) # 0
    BY <2>1, <2>2
  <2> QED
    BY <2>3, EmptySeq
<1> QED
  BY <1>1, Inductive, PTL

\* A frame in a protocol queue has a SIGUSR1 pending or being handled, although
\* SIGUSR1 does not queue and the queues are filled and drained by turns.
THEOREM QueuesAreSignalled == Spec => []QueuedIsSignalled
<1>1. IInv => QueuedIsSignalled
  BY DEF IInv
<1> QED
  BY <1>1, Inductive, PTL

\* handleProtocolSignal drains the IP queue before the ARP queue, and yet hands
\* frames to the protocols in the order of their arrival, for any number of them.
THEOREM HandledInOrder == Spec => []FramesInOrder
<1>1. IInv => FramesInOrder
  BY DEF IInv, Ordered
<1> QED
  BY <1>1, Inductive, PTL

\* The device handler never gets an interruptThreadPtr that is not assigned.
THEOREM HandlerThreadAssigned == Spec => []HandlerHasThread
<1>1. IInv => HandlerHasThread
  BY DEF IInv, TypeOK, Phases, HandlerHasThread, MainLabels, Unmasked, Serving
<1> QED
  BY <1>1, Inductive, PTL

\* From pthread_sigmask on, no number of frames, SIGINTs and SIGTERMs kills the
\* process by a signal's default action.
THEOREM MaskProtects == Spec => []KilledOnlyUnmasked
<1>1. IInv => KilledOnlyUnmasked
  BY DEF IInv
<1> QED
  BY <1>1, Inductive, PTL
=============================================================================
