--------------------------- MODULE UdpOrderProofs ---------------------------
(***************************************************************************)
(* The order in which recvFrom returns datagrams, for every instance: that *)
(* of their arrival, each on one socket and once.  What waits in a queue   *)
(* and what was returned are related to the count of arrivals.             *)
(***************************************************************************)
EXTENDS UdpSocketProofs

\* The number of the last datagram that was handed over to a socket or dropped.
Settled == IF pc[IntrThread] \in {"in_pcb", "in_push"} THEN arrivals - 1 ELSE arrivals

\* The datagrams a socket returned or has queued.
Holds(p) == {n \in 1..MaxArrivals :
                \/ \E i \in DOMAIN received[p] : received[p][i] = n
                \/ \E i \in DOMAIN que[p] : que[p][i] = n}

Rising(s) == \A i, j \in DOMAIN s : i < j => s[i] < s[j]

\* InOrder, one sequence at a time, and what makes the next push keep it.
QueuesOrdered ==
    /\ \A p \in Pcbs :
          /\ Rising(received[p])
          /\ Rising(que[p])
          /\ \A i \in DOMAIN received[p], j \in DOMAIN que[p] : received[p][i] < que[p][j]
          /\ \A n \in Holds(p) : n <= Settled
    /\ \A p, q \in Pcbs : p # q => Holds(p) \cap Holds(q) = {}

-----------------------------------------------------------------------------
\* Where an append puts the new element.
LEMMA Appended ==
    ASSUME NEW S, NEW s \in Seq(S), NEW e \in S
    PROVE  /\ Append(s, e) \in Seq(S)
           /\ Len(Append(s, e)) = Len(s) + 1
           /\ DOMAIN Append(s, e) = 1..(Len(s) + 1)
           /\ \A i \in 1..Len(s) : Append(s, e)[i] = s[i]
           /\ Append(s, e)[Len(s) + 1] = e
BY AppendProperties, LenProperties

\* A rising sequence stays so when a larger number is appended.
LEMMA RisingAppend ==
    ASSUME NEW s \in Seq(Nat), Rising(s), NEW e \in Nat, \A i \in DOMAIN s : s[i] < e
    PROVE  Rising(Append(s, e))
<1>1. Len(s) \in Nat /\ DOMAIN s = 1..Len(s) /\ \A i \in DOMAIN s : s[i] \in Nat
  BY LenProperties, ElementOfSeq
<1>2. /\ DOMAIN Append(s, e) = 1..(Len(s) + 1)
      /\ \A i \in 1..Len(s) : Append(s, e)[i] = s[i]
      /\ Append(s, e)[Len(s) + 1] = e
  BY Appended
<1> QED
  BY <1>1, <1>2 DEF Rising

\* A rising sequence stays so without its head, which is smaller than the rest.
LEMMA RisingTail ==
    ASSUME NEW s \in Seq(Nat), s # <<>>, Rising(s)
    PROVE  /\ Rising(Tail(s))
           /\ Tail(s) \in Seq(Nat) /\ Head(s) \in Nat
           /\ 1 \in DOMAIN s /\ Head(s) = s[1]
           /\ DOMAIN Tail(s) = 1..(Len(s) - 1)
           /\ \A i \in DOMAIN Tail(s) : Tail(s)[i] = s[i + 1] /\ i + 1 \in DOMAIN s
           /\ \A i \in DOMAIN Tail(s) : Head(s) < Tail(s)[i]
<1>1. Len(s) \in Nat \ {0} /\ DOMAIN s = 1..Len(s) /\ \A i \in DOMAIN s : s[i] \in Nat
  BY LenProperties, ElementOfSeq, EmptySeq
<1>2. Tail(s) \in Seq(Nat) /\ Len(Tail(s)) = Len(s) - 1 /\ Head(s) \in Nat
  BY HeadTailProperties
<1>3. \A i \in 1..(Len(s) - 1) : Tail(s)[i] = s[i + 1]
  BY <1>2, HeadTailProperties
<1>4. DOMAIN Tail(s) = 1..(Len(s) - 1)
  BY <1>2, LenProperties
<1>5. Head(s) = s[1] /\ 1 \in DOMAIN s
  BY <1>1
<1>6. \A i \in DOMAIN Tail(s) : i \in Int /\ Tail(s)[i] = s[i + 1] /\ i + 1 \in DOMAIN s
  BY <1>1, <1>3, <1>4
<1>7. Rising(Tail(s))
  BY <1>1, <1>6 DEF Rising
<1>8. \A i \in DOMAIN Tail(s) : Head(s) < Tail(s)[i]
  BY <1>1, <1>4, <1>5, <1>6 DEF Rising
<1> QED
  BY <1>2, <1>4, <1>5, <1>6, <1>7, <1>8

\* A queue and what it gave are sequences of numbers.
LEMMA QueueTypes ==
    ASSUME TypeOK, NEW p \in Pcbs
    PROVE  /\ que[p] \in Seq(1..MaxArrivals) /\ que[p] \in Seq(Nat)
           /\ received[p] \in Seq(1..MaxArrivals) /\ received[p] \in Seq(Nat)
           /\ \A i \in DOMAIN que[p] : que[p][i] \in Holds(p)
           /\ \A i \in DOMAIN received[p] : received[p][i] \in Holds(p)
           /\ Holds(p) \subseteq Nat
<1>1. que[p] \in Seq(1..MaxArrivals) /\ received[p] \in Seq(1..MaxArrivals)
  BY DEF TypeOK
<1>2. 1..MaxArrivals \subseteq Nat
  BY BoundAssumption
<1>3. que[p] \in Seq(Nat) /\ received[p] \in Seq(Nat)
  BY <1>1, <1>2, SeqMonotonic
<1>4. /\ \A i \in DOMAIN que[p] : que[p][i] \in 1..MaxArrivals
      /\ \A i \in DOMAIN received[p] : received[p][i] \in 1..MaxArrivals
  BY <1>1, ElementOfSeq, LenProperties
<1> QED
  BY <1>1, <1>2, <1>3, <1>4 DEF Holds

\* Four actions touch a queue or the count of arrivals.
LEMMA QueuesStill ==
    ASSUME TypeOK, [Next]_vars,
           \A port \in Ports : ~HandleNone(port) /\ \A p \in Pcbs : ~HandleSelect(p, port),
           ~HandlePush,
           \A t \in Callers : ~RecvTake(t)
    PROVE  UNCHANGED <<que, received, arrivals>> /\ Settled' = Settled
<1> USE ThreadAssumption DEF Move, Return, Threads, Settled, TypeOK, callVars, intrVars, history
<1>1. ASSUME NEW t \in Callers, Call(t)
      PROVE  UNCHANGED <<que, received, arrivals>> /\ Settled' = Settled
  BY <1>1 DEF Call, Open, BindSelect, SendLock, RecvGet
<1>2. ASSUME NEW t \in Callers, BindStore(t) \/ SendLocal(t) \/ RecvTest(t) \/ RecvBlock(t) \/ RecvSpurious(t)
      PROVE  UNCHANGED <<que, received, arrivals>> /\ Settled' = Settled
  BY <1>2 DEF BindStore, SendLocal, RecvTest, RecvBlock, RecvSpurious
<1>3. CASE HandleLock \/ EventBegin \/ EventScan \/ EventTouch \/ EventFlag
  BY <1>3 DEF HandleLock, EventBegin, EventScan, EventTouch, EventFlag
<1>4. CASE EventNotify
  BY <1>4 DEF EventNotify, NotifyAll
<1>5. CASE UNCHANGED vars
  BY <1>5 DEF vars
<1> QED
  BY <1>1, <1>2, <1>3, <1>4, <1>5 DEF Next, Continue, Input, Upcall

\* HandlePush queues the latest datagram, which no socket holds yet.
LEMMA PushOrdered ==
    ASSUME TypeOK, CallsReady, QueuesOrdered, HandlePush
    PROVE  QueuesOrdered'
<1>1. /\ target \in Pcbs /\ pc[IntrThread] = "in_push" /\ arrivals \in 1..MaxArrivals
      /\ Settled = arrivals - 1
  BY BoundAssumption DEF HandlePush, TypeOK, CallsReady, Settled
<1>2. Settled' = arrivals
  BY DEF HandlePush, NotifyAll, Threads, TypeOK, Settled
<1>3. PICK b \in Pcbs, e \in 1..MaxArrivals :
         /\ e = arrivals
         /\ que' = [que EXCEPT ![b] = Append(que[b], e)] /\ UNCHANGED received
  BY <1>1 DEF HandlePush, TypeOK, history
<1>4. e \in Nat
  BY BoundAssumption
<1>5. /\ que[b] \in Seq(1..MaxArrivals) /\ que[b] \in Seq(Nat)
      /\ received[b] \in Seq(1..MaxArrivals) /\ received[b] \in Seq(Nat)
      /\ \A i \in DOMAIN que[b] : que[b][i] \in Holds(b)
      /\ \A i \in DOMAIN received[b] : received[b][i] \in Holds(b)
  BY <1>4, QueueTypes
<1>6. \A p \in Pcbs : \A n \in Holds(p) : n \in Nat /\ n < e
  <2>1. \A p \in Pcbs : \A n \in Holds(p) : n \in Nat /\ n <= Settled
    BY QueueTypes DEF QueuesOrdered
  <2> QED
    BY <1>1, <1>3, <2>1
<1>7. /\ que'[b] = Append(que[b], e)
      /\ \A p \in Pcbs : p # b => que'[p] = que[p]
  BY <1>3, <1>4 DEF TypeOK
<1>8. Len(que[b]) \in Nat /\ DOMAIN que[b] = 1..Len(que[b])
  BY <1>5, LenProperties
<1>9. /\ DOMAIN que'[b] = 1..(Len(que[b]) + 1)
      /\ \A i \in 1..Len(que[b]) : que'[b][i] = que[b][i]
      /\ que'[b][Len(que[b]) + 1] = e
  BY <1>4, <1>5, <1>7, Appended
<1>10. \A i \in DOMAIN que'[b] : (i \in DOMAIN que[b] /\ que'[b][i] = que[b][i]) \/ que'[b][i] = e
  BY <1>8, <1>9
<1>11. Rising(que'[b])
  BY <1>4, <1>5, <1>6, <1>7, RisingAppend DEF QueuesOrdered
<1>12. Holds(b)' = Holds(b) \cup {e}
  <2>1. Len(que[b]) + 1 \in DOMAIN que'[b]
    BY <1>8, <1>9
  <2>2. DOMAIN que[b] \subseteq DOMAIN que'[b] /\ \A i \in DOMAIN que[b] : que'[b][i] = que[b][i]
    BY <1>8, <1>9
  <2> QED
    BY <1>3, <1>4, <1>9, <1>10, <2>1, <2>2 DEF Holds
<1>13. \A p \in Pcbs : p # b => Holds(p)' = Holds(p)
  BY <1>3, <1>7 DEF Holds
<1>14. \A i \in DOMAIN received'[b], j \in DOMAIN que'[b] : received'[b][i] < que'[b][j]
  BY <1>3, <1>4, <1>5, <1>6, <1>10 DEF QueuesOrdered
<1>15. \A p \in Pcbs : \A n \in Holds(p)' : n <= Settled'
  <2>1. Settled' = e
    BY <1>2, <1>3 DEF HandlePush
  <2> QED
    BY <1>4, <1>6, <1>12, <1>13, <2>1
<1>16. \A p, q \in Pcbs : p # q => Holds(p)' \cap Holds(q)' = {}
  <2>1. \A p \in Pcbs : e \notin Holds(p)
    BY <1>4, <1>6
  <2> QED
    BY <1>12, <1>13, <2>1 DEF QueuesOrdered
<1>17. \A p \in Pcbs :
          /\ Rising(received'[p])
          /\ Rising(que'[p])
          /\ \A i \in DOMAIN received'[p], j \in DOMAIN que'[p] : received'[p][i] < que'[p][j]
  BY <1>3, <1>7, <1>11, <1>14 DEF QueuesOrdered
<1> QED
  BY <1>15, <1>16, <1>17 DEF QueuesOrdered, Rising

\* recvFrom moves the oldest queued datagram behind those it returned before.
LEMMA TakeOrdered ==
    ASSUME TypeOK, CallsReady, QueuesOrdered, NEW t \in Callers, RecvTake(t)
    PROVE  QueuesOrdered'
<1>1. Settled' = Settled
  BY ThreadAssumption DEF RecvTake, Return, Move, Threads, TypeOK, Settled, intrVars
<1>2. sock[t] \in Pcbs
  BY DEF TypeOK
<1>3. CASE UNCHANGED <<que, received>>
  BY <1>1, <1>3 DEF QueuesOrdered, Rising, Holds
<1>4. ASSUME NEW b \in Pcbs, que[b] # <<>>,
             received' = [received EXCEPT ![b] = Append(received[b], Head(que[b]))],
             que' = [que EXCEPT ![b] = Tail(que[b])]
      PROVE  QueuesOrdered'
  <2> DEFINE e == Head(que[b])
             r == received[b]
             q == que[b]
  <2>1. /\ q \in Seq(Nat) /\ r \in Seq(Nat)
        /\ Holds(b) \subseteq Nat
    BY QueueTypes
  <2>2. /\ Rising(q) /\ Rising(r)
        /\ \A i \in DOMAIN r, j \in DOMAIN q : r[i] < q[j]
    BY DEF QueuesOrdered
  <2>3. /\ received'[b] = Append(r, e) /\ que'[b] = Tail(q)
        /\ \A p \in Pcbs : p # b => que'[p] = que[p] /\ received'[p] = received[p]
    BY <1>4 DEF TypeOK
  <2>4. /\ Rising(Tail(q)) /\ e \in Nat /\ 1 \in DOMAIN q /\ e = q[1]
        /\ DOMAIN Tail(q) = 1..(Len(q) - 1)
        /\ \A i \in DOMAIN Tail(q) : Tail(q)[i] = q[i + 1] /\ i + 1 \in DOMAIN q /\ e < Tail(q)[i]
    BY <1>4, <2>1, <2>2, RisingTail
  <2>5. \A i \in DOMAIN r : r[i] < e
    BY <2>2, <2>4
  <2>6. Len(q) \in Nat /\ DOMAIN q = 1..Len(q) /\ Len(r) \in Nat /\ DOMAIN r = 1..Len(r)
    BY <2>1, LenProperties
  <2> HIDE DEF e, r, q
  <2>7. Rising(Append(r, e))
    BY <2>1, <2>2, <2>4, <2>5, RisingAppend
  <2>8. /\ DOMAIN Append(r, e) = 1..(Len(r) + 1)
        /\ \A i \in 1..Len(r) : Append(r, e)[i] = r[i]
        /\ Append(r, e)[Len(r) + 1] = e
    BY <2>1, <2>4, Appended
  <2>9. \A i \in DOMAIN Append(r, e) : (i \in DOMAIN r /\ Append(r, e)[i] = r[i]) \/ Append(r, e)[i] = e
    BY <2>6, <2>8
  <2>10. \A i \in DOMAIN Append(r, e), j \in DOMAIN Tail(q) : Append(r, e)[i] < Tail(q)[j]
    BY <2>2, <2>4, <2>9
  <2>11. Holds(b)' \subseteq Holds(b)
    <3> SUFFICES ASSUME NEW n \in 1..MaxArrivals,
                        \/ \E i \in DOMAIN Append(r, e) : Append(r, e)[i] = n
                        \/ \E i \in DOMAIN Tail(q) : Tail(q)[i] = n
                 PROVE  n \in Holds(b)
      BY <2>3 DEF Holds
    <3> QED
      BY <2>4, <2>9 DEF Holds, r, q
  <2>12. \A p \in Pcbs : p # b => Holds(p)' = Holds(p)
    BY <2>3 DEF Holds
  <2>13. \A p \in Pcbs : Holds(p)' \subseteq Holds(p)
    BY <2>11, <2>12
  <2>14. \A p \in Pcbs :
            /\ Rising(received'[p])
            /\ Rising(que'[p])
            /\ \A i \in DOMAIN received'[p], j \in DOMAIN que'[p] : received'[p][i] < que'[p][j]
    BY <2>3, <2>4, <2>7, <2>10 DEF QueuesOrdered
  <2>15. \A p \in Pcbs : \A n \in Holds(p)' : n <= Settled'
    BY <1>1, <2>13 DEF QueuesOrdered
  <2>16. \A p, s \in Pcbs : p # s => Holds(p)' \cap Holds(s)' = {}
    BY <2>13 DEF QueuesOrdered
  <2> QED
    BY <2>14, <2>15, <2>16 DEF QueuesOrdered, Rising
<1> QED
  BY <1>2, <1>3, <1>4 DEF RecvTake, CallsReady, RecvReady

\* A datagram that arrives is newer than every other, whether or not a control
\* block is found for it.
LEMMA ArrivalOrdered ==
    ASSUME TypeOK, QueuesOrdered, NEW port \in Ports,
           HandleNone(port) \/ \E p \in Pcbs : HandleSelect(p, port)
    PROVE  QueuesOrdered'
<1>1. UNCHANGED <<que, received>>
  BY DEF HandleNone, HandleSelect, history
<1>2. arrivals \in Nat /\ Settled = arrivals
  BY BoundAssumption DEF TypeOK, Settled, HandleNone, HandleSelect
<1>3. Settled' = arrivals \/ Settled' = arrivals + 1
  <2>1. CASE HandleNone(port)
    BY <2>1 DEF HandleNone, Settled
  <2>2. ASSUME NEW p \in Pcbs, HandleSelect(p, port) PROVE Settled' = arrivals
    <3>1. arrivals' = arrivals + 1 /\ pc'[IntrThread] = "in_pcb"
      BY <2>2 DEF HandleSelect, Move, TypeOK, Threads
    <3> QED
      BY <1>2, <3>1 DEF Settled
  <2> QED
    BY <2>1, <2>2
<1>4. \A p \in Pcbs : Holds(p)' = Holds(p) /\ Holds(p) \subseteq Nat
  BY <1>1, QueueTypes DEF Holds
<1>5. \A p \in Pcbs : \A n \in Holds(p)' : n <= Settled'
  BY <1>2, <1>3, <1>4 DEF QueuesOrdered
<1> QED
  BY <1>1, <1>4, <1>5 DEF QueuesOrdered, Rising

\* No action disturbs the order.
LEMMA OrderedStep ==
    TypeOK /\ CallsReady /\ QueuesOrdered /\ [Next]_vars => QueuesOrdered'
<1> SUFFICES ASSUME TypeOK, CallsReady, QueuesOrdered, [Next]_vars PROVE QueuesOrdered'
  OBVIOUS
<1>1. CASE HandlePush
  BY <1>1, PushOrdered
<1>2. CASE \E t \in Callers : RecvTake(t)
  BY <1>2, TakeOrdered
<1>3. CASE \E port \in Ports : HandleNone(port) \/ \E p \in Pcbs : HandleSelect(p, port)
  BY <1>3, ArrivalOrdered
<1>4. CASE UNCHANGED <<que, received>> /\ Settled' = Settled
  BY <1>4 DEF QueuesOrdered, Rising, Holds
<1> QED
  BY <1>1, <1>2, <1>3, <1>4, QueuesStill

\* QueuesOrdered holds in every reachable state.
THEOREM QueuesStayOrdered == Spec => []QueuesOrdered
<1>1. Init => QueuesOrdered
  BY DEF Init, QueuesOrdered, Holds, Rising
<1>2. IInv /\ QueuesOrdered /\ [Next]_vars => QueuesOrdered'
  BY OrderedStep DEF IInv
<1> QED
  BY <1>1, <1>2, Inductive, PTL DEF Spec

\* An element of one sequence followed by another is an element of one of them.
LEMMA Concatenated ==
    ASSUME NEW S, NEW r \in Seq(S), NEW q \in Seq(S), NEW i \in 1..Len(r \o q)
    PROVE  /\ i \in Int /\ Len(r) \in Nat /\ DOMAIN r = 1..Len(r)
           /\ \/ /\ i \in DOMAIN r
                 /\ (r \o q)[i] = r[i]
              \/ /\ i > Len(r)
                 /\ i - Len(r) \in DOMAIN q
                 /\ (r \o q)[i] = q[i - Len(r)]
<1>1. Len(r) \in Nat /\ Len(q) \in Nat /\ DOMAIN r = 1..Len(r) /\ DOMAIN q = 1..Len(q)
  BY LenProperties
<1>2. Len(r \o q) = Len(r) + Len(q)
      /\ \A k \in 1..(Len(r) + Len(q)) :
            (r \o q)[k] = IF k <= Len(r) THEN r[k] ELSE q[k - Len(r)]
  BY ConcatProperties
<1> QED
  BY <1>1, <1>2

\* recvFrom returns datagrams in the order UdpHandler was given them, without a
\* repetition, each on one socket only, for any number of sockets and callers.
THEOREM ReceivedInOrder == Spec => []InOrder
<1>1. TypeOK /\ QueuesOrdered => InOrder
  <2> SUFFICES ASSUME TypeOK, QueuesOrdered PROVE InOrder
    OBVIOUS
  <2>1. \A p \in Pcbs : \A i \in 1..Len(received[p] \o que[p]) : (received[p] \o que[p])[i] \in Holds(p)
    <3> SUFFICES ASSUME NEW p \in Pcbs, NEW i \in 1..Len(received[p] \o que[p])
                 PROVE  (received[p] \o que[p])[i] \in Holds(p)
      OBVIOUS
    <3> DEFINE r == received[p]
               q == que[p]
    <3>1. /\ r \in Seq(Nat) /\ q \in Seq(Nat) /\ i \in 1..Len(r \o q)
          /\ \A k \in DOMAIN r : r[k] \in Holds(p)
          /\ \A k \in DOMAIN q : q[k] \in Holds(p)
      BY QueueTypes
    <3> HIDE DEF r, q
    <3>2. \/ i \in DOMAIN r /\ (r \o q)[i] = r[i]
          \/ i - Len(r) \in DOMAIN q /\ (r \o q)[i] = q[i - Len(r)]
      BY <3>1, Concatenated
    <3>3. (r \o q)[i] \in Holds(p)
      BY <3>1, <3>2
    <3> QED
      BY <3>3 DEF r, q
  <2>2. \A p, q \in Pcbs : p # q =>
           \A i \in 1..Len(received[p] \o que[p]), j \in 1..Len(received[q] \o que[q]) :
               (received[p] \o que[p])[i] # (received[q] \o que[q])[j]
    <3> SUFFICES ASSUME NEW p \in Pcbs, NEW q \in Pcbs, p # q,
                        NEW i \in 1..Len(received[p] \o que[p]),
                        NEW j \in 1..Len(received[q] \o que[q])
                 PROVE  (received[p] \o que[p])[i] # (received[q] \o que[q])[j]
      OBVIOUS
    <3>1. (received[p] \o que[p])[i] \in Holds(p) /\ (received[q] \o que[q])[j] \in Holds(q)
      BY <2>1
    <3>2. Holds(p) \cap Holds(q) = {}
      BY DEF QueuesOrdered
    <3> HIDE DEF Holds
    <3> QED
      BY <3>1, <3>2
  <2>3. ASSUME NEW p \in Pcbs,
               NEW i \in 1..Len(received[p] \o que[p]), NEW j \in 1..Len(received[p] \o que[p]),
               i < j
        PROVE  (received[p] \o que[p])[i] < (received[p] \o que[p])[j]
    <3> DEFINE r == received[p]
               q == que[p]
    <3>1. r \in Seq(Nat) /\ q \in Seq(Nat)
      BY QueueTypes
    <3>2. Rising(r) /\ Rising(q) /\ \A k \in DOMAIN r, l \in DOMAIN q : r[k] < q[l]
      BY DEF QueuesOrdered
    <3>3. i \in 1..Len(r \o q) /\ j \in 1..Len(r \o q)
      OBVIOUS
    <3> HIDE DEF r, q
    <3>4. /\ i \in Int /\ j \in Int /\ Len(r) \in Nat /\ DOMAIN r = 1..Len(r)
          /\ \/ /\ i \in DOMAIN r
                /\ (r \o q)[i] = r[i]
             \/ /\ i > Len(r)
                /\ i - Len(r) \in DOMAIN q
                /\ (r \o q)[i] = q[i - Len(r)]
      BY <3>1, <3>3, Concatenated
    <3>5. \/ /\ j \in DOMAIN r
             /\ (r \o q)[j] = r[j]
          \/ /\ j > Len(r)
             /\ j - Len(r) \in DOMAIN q
             /\ (r \o q)[j] = q[j - Len(r)]
      BY <3>1, <3>3, Concatenated
    <3>6. i - Len(r) < j - Len(r)
      BY <2>3, <3>4
    <3>7. (r \o q)[i] < (r \o q)[j]
      BY <2>3, <3>2, <3>4, <3>5, <3>6 DEF Rising
    <3> QED
      BY <3>7 DEF r, q
  <2> QED
    BY <2>2, <2>3 DEF InOrder
<1> QED
  BY <1>1, TypeCorrect, QueuesStayOrdered, PTL
=============================================================================
