----------------------------- MODULE MCDuration -----------------------------
(***************************************************************************)
(* Profiles for Duration: one or two groups of one or two strands, with     *)
(* transactions as in the profiles of workloads/.                           *)
(***************************************************************************)
EXTENDS Duration

Times(n, canfail) == [count |-> n, canfail |-> canfail]

\* <transaction iterations="n"> and <transaction duration="...">
Iterations(n, fl) == [duration |-> FALSE, iter |-> n, flowops |-> fl]
Lasting(fl) == [duration |-> TRUE, iter |-> 1, flowops |-> fl]

Once == <<Times(1, FALSE)>>
TwiceThenMayFail == <<Times(2, FALSE), Times(1, TRUE)>>

\* One group of two strands.
OneGroup == [s \in 1 .. 2 |-> 1]

\* workloads/netperf.xml: connect, read or write for a while, disconnect.
Netperf == <<<<Iterations(1, Once), Lasting(Once), Iterations(1, Once)>>>>

\* The same, ending with the duration.
ToTheEnd == <<<<Iterations(2, TwiceThenMayFail), Lasting(TwiceThenMayFail)>>>>

\* A duration that is not the last transaction.
ThenDisconnect == <<<<Lasting(Once), Iterations(1, Once)>>>>

\* A duration and then a transaction of two iterations.
ThenIterations == <<<<Lasting(Once), Iterations(2, Once)>>>>

\* Two strands in the transactions of netperf, and one in a group that lasts to the end.
ThreeStrands == [s \in 1 .. 3 |-> IF s = 3 THEN 2 ELSE 1]
TwoProfiles == Netperf \o <<<<Iterations(1, Once), Lasting(Once)>>>>

\* A master whose flowops may hit errors, one whose flowops cannot, and a slave whose
\* master may hang up.
Master(txns, outcomes) == [role |-> "master", txns |-> txns, outcomes |-> outcomes,
                           retries |-> 2]
Slave(txns) == [role |-> "slave", txns |-> txns, outcomes |-> {"hangup"}, retries |-> 1]

NetperfMaster == {Master(TwoProfiles, {"error"})}
Undisturbed == {Master(ThenIterations, {})}
MasterOrSlave == {Master(ToTheEnd, {"error"}), Slave(ThenDisconnect)}
=============================================================================
