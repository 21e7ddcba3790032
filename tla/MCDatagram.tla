------------------------------ MODULE MCDatagram ------------------------------
(* Addresses, ports and bodies for which the sums carry not at all, once and     *)
(* twice, lose a carry or come to a checksum of zero; frames that are filled up, *)
(* in part and not at all.                                                       *)
EXTENDS Datagram

MCClients == {<<49152, 513>>, <<2560, 13279>>}      \* 192.0.2.1 and 10.0.51.223
MCPorts == {26135, 40000, 59961}
MCBodies ==
    {<<>>, <<1>>, <<255, 255, 255>>, <<255, 255, 255, 255>>, [i \in 1..33 |-> 7]}
MCEchoes ==
    {<<0, 1, 0, 2>>, <<0, 1, 0, 2, 7>>, <<255, 255, 255, 255, 0, 1>>, [i \in 1..24 |-> 200]}
MCIds == {128, 14274, 14278}
MCPastBytes == {0, 255}
=============================================================================
