------------------------------ MODULE MCNetStack ------------------------------
(* Two callers and one host besides the gateway, with two hardware addresses    *)
(* that either may claim; the constants are given by the cfg files.             *)
EXTENDS NetStack, TLC

CONSTANTS c1, c2, m1, m2

Symmetry == Permutations({c1, c2}) \cup Permutations({m1, m2})
=============================================================================
