----------------------------- MODULE MCUdpSocket -----------------------------
(* Two callers, two control blocks; the constants are given by the cfg files. *)
EXTENDS UdpSocket, TLC

CONSTANTS c1, c2

Symmetry == Permutations({c1, c2})
=============================================================================
