----------------------------- MODULE UdpService -----------------------------
(***************************************************************************)
(* What the UDP socket layer promises its callers, whatever its locking:   *)
(* every call and every upcall takes effect at one instant, and a datagram *)
(* is in the mailbox of one socket from the instant it is addressed until  *)
(* it is received.  UdpSocket is shown to implement this.                  *)
(***************************************************************************)
EXTENDS Integers, Sequences

CONSTANTS
    Sockets,        \* a set of numbers: of two sockets the lower is older
    Addrs, Ports,
    AnyAddr,        \* the wildcard address
    IfAddr          \* the address datagrams arrive for

VARIABLES
    open,           \* the sockets that are open
    bound,          \* the endpoint of each
    box,            \* datagrams addressed to each and not yet received
    taken,          \* datagrams each has received
    flagged,        \* the sockets whose receivers were told to stop
    arrived         \* how many datagrams arrived, delivered or dropped

vars == <<open, bound, box, taken, flagged, arrived>>

Fresh == [addr |-> AnyAddr, port |-> 0]

\* Socket s receives what is addressed to addr and port.
Covers(s, addr, port) ==
    /\ s \in open
    /\ bound[s].addr \in {AnyAddr, addr}
    /\ bound[s].port = port

Covered(addr, port) == \E s \in Sockets : Covers(s, addr, port)

Init ==
    /\ open = {}
    /\ bound = [s \in Sockets |-> Fresh]
    /\ box = [s \in Sockets |-> <<>>]
    /\ taken = [s \in Sockets |-> <<>>]
    /\ flagged = {}
    /\ arrived = 0

OpenSocket(s) ==
    /\ s \notin open
    /\ open' = open \cup {s}
    /\ bound' = [bound EXCEPT ![s] = Fresh]
    /\ UNCHANGED <<box, taken, flagged, arrived>>

\* A socket moves to an endpoint nobody covered.
Bind(s, addr, port) ==
    /\ s \in open
    /\ ~Covered(addr, port)
    /\ bound' = [bound EXCEPT ![s] = [addr |-> addr, port |-> port]]
    /\ UNCHANGED <<open, box, taken, flagged, arrived>>

\* A socket that sends without a port is given one nobody covered at the
\* address it sends from.
ChoosePort(s, port) ==
    /\ s \in open
    /\ bound[s].port = 0
    /\ port # 0
    /\ ~Covered(IF bound[s].addr = AnyAddr THEN IfAddr ELSE bound[s].addr, port)
    /\ bound' = [bound EXCEPT ![s].port = port]
    /\ UNCHANGED <<open, box, taken, flagged, arrived>>

\* A datagram goes to the oldest socket that covers its destination port.
Deliver(s, port) ==
    /\ Covers(s, IfAddr, port)
    /\ \A r \in Sockets : r < s => ~Covers(r, IfAddr, port)
    /\ arrived' = arrived + 1
    /\ box' = [box EXCEPT ![s] = Append(@, arrived')]
    /\ UNCHANGED <<open, bound, taken, flagged>>

Drop(port) ==
    /\ ~Covered(IfAddr, port)
    /\ arrived' = arrived + 1
    /\ UNCHANGED <<open, bound, box, taken, flagged>>

\* Nothing is received on a socket once it is flagged.
Take(s) ==
    /\ s \in open
    /\ s \notin flagged
    /\ box[s] # <<>>
    /\ taken' = [taken EXCEPT ![s] = Append(@, Head(box[s]))]
    /\ box' = [box EXCEPT ![s] = Tail(@)]
    /\ UNCHANGED <<open, bound, flagged, arrived>>

Flag(s) ==
    /\ s \in open
    /\ flagged' = flagged \cup {s}
    /\ UNCHANGED <<open, bound, box, taken, arrived>>

Next ==
    \/ \E s \in Sockets :
          \/ OpenSocket(s)
          \/ \E addr \in Addrs, port \in Ports : Bind(s, addr, port)
          \/ \E port \in Ports : ChoosePort(s, port) \/ Deliver(s, port)
          \/ Take(s)
          \/ Flag(s)
    \/ \E port \in Ports : Drop(port)

Spec == Init /\ [][Next]_vars
=============================================================================
