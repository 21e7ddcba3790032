----------------------------- MODULE EchoService -----------------------------
(***************************************************************************)
(* The echo server as its clients see it: datagrams are answered in the    *)
(* order they arrived, each at most once, and one is lost only as long as  *)
(* the server does not know the gateway.  A server that stops for a signal *)
(* finishes the datagram it has begun; one that is ended by an exception   *)
(* need not.  EchoServer is shown to implement this.                       *)
(***************************************************************************)
EXTENDS Integers, Sequences, SequencesExt

CONSTANT Datagrams      \* a set of numbers, in the order of arrival

VARIABLES
    held,           \* datagrams accepted and not yet settled
    begun,          \* it works on the first of them
    answered,       \* datagrams whose echo was sent
    lost,           \* datagrams given up
    known,          \* the server knows the gateway
    status          \* it serves, has left its loop, or has crashed

vars == <<held, begun, answered, lost, known, status>>

Accepted == ToSet(held) \cup ToSet(answered) \cup ToSet(lost)

Init ==
    /\ held = <<>>
    /\ begun = FALSE
    /\ answered = <<>>
    /\ lost = <<>>
    /\ known = FALSE
    /\ status = "serves"

\* A datagram that came before the server had its socket is skipped; one that
\* comes after the last test of the loop is taken in, too, and stays.
Accept(d) ==
    /\ status # "crashed"
    /\ \A e \in Accepted : e < d
    /\ held' = Append(held, d)
    /\ UNCHANGED <<begun, answered, lost, known, status>>

Begin ==
    /\ status = "serves"
    /\ held # <<>> /\ ~begun
    /\ begun' = TRUE
    /\ UNCHANGED <<held, answered, lost, known, status>>

Answer ==
    /\ status = "serves"
    /\ begun /\ begun' = FALSE
    /\ answered' = Append(answered, Head(held))
    /\ held' = Tail(held)
    /\ UNCHANGED <<lost, known, status>>

Lose ==
    /\ status = "serves"
    /\ begun /\ begun' = FALSE
    /\ ~known
    /\ lost' = Append(lost, Head(held))
    /\ held' = Tail(held)
    /\ UNCHANGED <<answered, known, status>>

\* What is known is never forgotten.
Learn ==
    /\ status # "crashed"
    /\ known' = TRUE
    /\ UNCHANGED <<held, begun, answered, lost, status>>

\* The loop is left between two datagrams.
Stop ==
    /\ status = "serves" /\ ~begun
    /\ status' = "left"
    /\ UNCHANGED <<held, begun, answered, lost, known>>

Crash ==
    /\ status' = "crashed"
    /\ UNCHANGED <<held, begun, answered, lost, known>>

Next ==
    \/ \E d \in Datagrams : Accept(d)
    \/ Begin \/ Answer \/ Lose \/ Learn \/ Stop \/ Crash

Spec == Init /\ [][Next]_vars
=============================================================================
