------------------------------ MODULE LockStep ------------------------------
(***************************************************************************)
(* What the barriers and the NEXT_TXN commands of uperf promise: the master *)
(* announces the transactions one after the other, each process releases    *)
(* its strands into an announced transaction when they have all finished    *)
(* the one before, and a strand executes its transactions in that order.    *)
(***************************************************************************)
EXTENDS Naturals

CONSTANTS
  Proc,      \* the processes of the run
  Master,    \* the one that announces
  Strand,    \* the strands of all processes
  Home,      \* [Strand -> Proc]
  Txns       \* [Strand -> Nat]: how many transactions the strand executes

VARIABLES
  announced,  \* how many transactions the master announced
  released,   \* [Proc -> Nat]: how many the process released its strands into
  begun,      \* [Strand -> Nat]: how many the strand began
  ended       \* [Strand -> Nat]: how many it completed

vars == <<announced, released, begun, ended>>

\* Every strand of p that has a transaction after the first n completed those n.
Completed(p, n) == \A s \in Strand : Home[s] = p /\ n < Txns[s] => ended[s] >= n

Init ==
  /\ announced = 0
  /\ released = [p \in Proc |-> 0]
  /\ begun = [s \in Strand |-> 0]
  /\ ended = [s \in Strand |-> 0]

Announce ==
  /\ released[Master] = announced
  /\ Completed(Master, announced)
  /\ announced' = announced + 1
  /\ UNCHANGED <<released, begun, ended>>

Release(p) ==
  /\ released[p] < announced
  /\ Completed(p, released[p])
  /\ released' = [released EXCEPT ![p] = @ + 1]
  /\ UNCHANGED <<announced, begun, ended>>

Begin(s) ==
  /\ begun[s] = ended[s]
  /\ begun[s] < Txns[s]
  /\ begun[s] < released[Home[s]]
  /\ begun' = [begun EXCEPT ![s] = @ + 1]
  /\ UNCHANGED <<announced, released, ended>>

End(s) ==
  /\ ended[s] < begun[s]
  /\ ended' = [ended EXCEPT ![s] = @ + 1]
  /\ UNCHANGED <<announced, released, begun>>

Next ==
  \/ Announce
  \/ \E p \in Proc : Release(p)
  \/ \E s \in Strand : Begin(s) \/ End(s)

Spec == Init /\ [][Next]_vars

TypeOK ==
  /\ announced \in Nat
  /\ released \in [Proc -> Nat]
  /\ begun \in [Strand -> Nat]
  /\ ended \in [Strand -> Nat]
=============================================================================
