---------------------------- MODULE MCHandshake ----------------------------
(***************************************************************************)
(* Instances of Handshake for TLC.                                         *)
(***************************************************************************)
EXTENDS Handshake

CONSTANTS h1, h2

\* Three groups, each with one connection; the first two go to the same host.
ThreeGroups == [c \in 1 .. 3 |-> c]
TwoHosts == [c \in 1 .. 3 |-> IF c < 3 THEN h1 ELSE h2]
=============================================================================
