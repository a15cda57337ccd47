--------------------------- MODULE MCConnections ---------------------------
(***************************************************************************)
(* Profiles for Connections.                                               *)
(***************************************************************************)
EXTENDS Connections

Do(type, id) == [type |-> type, id |-> id, canfail |-> type = "rw" /\ id = 1]

\* A strand that connects with id 1 and accepts with id 2.
TcpFlowops == {Do("connect", 1), Do("disconnect", 1), Do("rw", 1),
               Do("accept", 2), Do("disconnect", 2), Do("rw", 2)}

Txn(n, fl) == [iter |-> n, flowops |-> fl]

Opens(fl) == Cardinality({i \in DOMAIN fl : fl[i].type \in {"connect", "accept"}})

\* A transaction that opens or closes connections begins with doing so.
Disciplined(fl) == (\A i \in DOMAIN fl : fl[i].type = "rw") \/ fl[1].type # "rw"

\* Every profile with one transaction run once and one run twice, within the bounds.
Lists(n) == UNION {[1 .. k -> TcpFlowops] : k \in 1 .. n}
TcpProfiles ==
  {[proto |-> "tcp", txns |-> <<Txn(1, fl[1]), Txn(2, fl[2])>>, others |-> FALSE] :
     fl \in {p \in Lists(2) \X {l \in Lists(MaxFlowop) : Disciplined(l)} :
               Opens(p[1]) + 2 * Opens(p[2]) < NObject}}

\* Like workloads/netperf.xml, and connections that are opened and closed in a loop.
Netperf(open) == <<Txn(1, <<Do(open, 1)>>), Txn(2, <<Do("rw", 1)>>), Txn(1, <<Do("disconnect", 1)>>)>>
Loop(open) == <<Txn(2, <<Do(open, 1), Do("rw", 1), Do("disconnect", 1)>>)>>
MayFail(open) == <<Txn(2, <<[Do(open, 1) EXCEPT !.canfail = TRUE], Do("rw", 1)>>), Txn(1, <<Do("disconnect", 1)>>)>>
Workloads == {Netperf("connect"), Netperf("accept"), Loop("connect"), Loop("accept"), MayFail("connect")}

\* A strand that accepts with one socket does so once before it disconnects.
EveryProtocol ==
  {[proto |-> p, txns |-> t, others |-> o] :
     p \in {"tcp", "sctp", "vsock", "ssl", "udp", "rds"}, o \in BOOLEAN, t \in Workloads}
  \cup {[proto |-> p, txns |-> MayFail("accept"), others |-> TRUE] : p \in {"tcp", "sctp", "vsock", "ssl"}}

AllProfiles == TcpProfiles \cup EveryProtocol
=============================================================================
