----------------------------- MODULE Handshake -----------------------------
(***************************************************************************)
(* How a run begins: the master connects to the daemons of its slaves,     *)
(* each daemon forks a slave process per connection (slave.c), and the     *)
(* two sides go through the phases of the handshake (handshake.c): both    *)
(* check each other, the work order and the ports change hands, the        *)
(* strands of both sides are created, and the end of the handshake lets    *)
(* them go.  RunControl starts where this module ends.                     *)
(*                                                                         *)
(* A control connection is two sequences of messages, one for each struct  *)
(* that is written; a read of a struct waits for it or for the end of the  *)
(* connection.                                                             *)
(***************************************************************************)
EXTENDS Integers, Sequences, FiniteSets

CONSTANTS
  NConn,          \* control connections, in the order of the loops of the handshake
  NGroup,         \* w->ngrp
  GroupOf,        \* [Conn -> Group]: the group a connection was made for
  Host,           \* the hosts with a daemon
  HostOf,         \* [Conn -> Host]
  Suspect,        \* hosts whose uperf may be of another version, or lack a protocol
  MasterAccepts,  \* groups whose strands accept on the master
  SlaveAccepts,   \* groups whose strands accept on the slaves
  ProcGroup,      \* groups of processes (nprocs=)
  MaxFault        \* bound: how many calls fail or processes die

Conn == 1 .. NConn
Group == 1 .. NGroup

\* Every group has a connection, and the loops go through the groups in order.
ASSUME HandshakeAssumption ==
  /\ NConn \in Nat \ {0}
  /\ NGroup \in Nat \ {0}
  /\ GroupOf \in [Conn -> Group]
  /\ \A c, d \in Conn : c <= d => GroupOf[c] <= GroupOf[d]
  /\ \A g \in Group : \E c \in Conn : GroupOf[c] = g
  /\ HostOf \in [Conn -> Host]
  /\ Suspect \subseteq Host
  /\ MasterAccepts \subseteq Group
  /\ SlaveAccepts \subseteq Group
  /\ ProcGroup \subseteq Group
  /\ MaxFault \in Nat

None == 0

VARIABLES
  mpc,        \* the master
  cur,        \* the connection, or the group in "spawn", the master is at
  procs,      \* groups whose strands run as processes of their own
  listening,  \* [Group -> Nat]: how often the group's strands on the master began to listen
  known,      \* [Conn -> Nat]: the slave's ports as the master's strands know them
  spc,        \* [Conn -> SlavePC]: the slave process of the connection
  rx,         \* [Conn -> Nat]: rx_no_slave_info
  told,       \* [Conn -> Nat]: the master's ports as the slave's strands know them
  ports,      \* [Conn -> Nat]: how often the slave's strands began to listen
  to,         \* [Conn -> Seq(Message)]: from the master to the slave
  fro,        \* [Conn -> Seq(Message)]: from the slave to the master
  dpc,        \* [Host -> DaemonPC]: the loop of slave()
  backlog,    \* [Host -> Seq(Conn)]: connections that wait for accept
  held,       \* [Host -> Conn or None]: the connection the daemon has open
  zombies,    \* [Host -> Nat]: children that ended and were not waited for
  sigchld,    \* [Host -> BOOLEAN]: SIGCHLD is pending; a second one is merged with it
  reap,       \* [Host -> Nat]: reap_children
  seen,       \* [Host -> Nat]: reap_children as read by reap_children--
  crashed,    \* slaves that were killed
  faults      \* faults so far

masterVars == <<mpc, cur, procs, listening, known>>
slaveVars  == <<spc, rx, told, ports>>
netVars    == <<to, fro>>
childVars  == <<zombies, sigchld>>
reapVars   == <<reap, seen>>
daemonVars == <<dpc, backlog, held, childVars, reapVars>>
faultVars  == <<crashed, faults>>
vars == <<masterVars, slaveVars, netVars, daemonVars, faultVars>>

MasterPC == {"connect", "p1", "p1ack", "p2", "p2ack", "p2info", "spawn", "end", "endack",
             "run", "exit"}
SlavePC  == {"none", "backlog", "p1", "group", "info", "ports", "end", "run", "dead"}
DaemonPC == {"accept", "fork", "close", "wait", "load", "store"}

\* ok: the status of an acknowledgment; n: no_slave_info of a header, or the ports.
Message == [kind : {"p1", "p2", "group", "info", "end", "abort", "p1ack", "p2ack", "ports"},
            ok : BOOLEAN, n : Nat]
Msg(k) == [kind |-> k, ok |-> TRUE, n |-> 0]
Info(k, n) == [kind |-> k, ok |-> TRUE, n |-> n]
Ack(k, ok, n) == [kind |-> k, ok |-> ok, n |-> n]

TypeOK ==
  /\ mpc \in MasterPC
  /\ cur \in Nat \ {0}
  /\ procs \subseteq ProcGroup
  /\ listening \in [Group -> Nat]
  /\ known \in [Conn -> Nat]
  /\ spc \in [Conn -> SlavePC]
  /\ rx \in [Conn -> Nat]
  /\ told \in [Conn -> Nat]
  /\ ports \in [Conn -> Nat]
  /\ to \in [Conn -> Seq(Message)]
  /\ fro \in [Conn -> Seq(Message)]
  /\ dpc \in [Host -> DaemonPC]
  /\ backlog \in [Host -> Seq(Conn)]
  /\ held \in [Host -> Conn \cup {None}]
  /\ zombies \in [Host -> Nat]
  /\ sigchld \in [Host -> BOOLEAN]
  /\ reap \in [Host -> Nat]
  /\ seen \in [Host -> Nat]
  /\ crashed \subseteq Conn
  /\ faults \in 0 .. MaxFault

Init ==
  /\ mpc = "connect"
  /\ cur = 1
  /\ procs = {}
  /\ listening = [g \in Group |-> 0]
  /\ known = [c \in Conn |-> 0]
  /\ spc = [c \in Conn |-> "none"]
  /\ rx = [c \in Conn |-> 0]
  /\ told = [c \in Conn |-> 0]
  /\ ports = [c \in Conn |-> 0]
  /\ to = [c \in Conn |-> <<>>]
  /\ fro = [c \in Conn |-> <<>>]
  /\ dpc = [h \in Host |-> "accept"]
  /\ backlog = [h \in Host |-> <<>>]
  /\ held = [h \in Host |-> None]
  /\ zombies = [h \in Host |-> 0]
  /\ sigchld = [h \in Host |-> FALSE]
  /\ reap = [h \in Host |-> 0]
  /\ seen = [h \in Host |-> 0]
  /\ crashed = {}
  /\ faults = 0

\* A call fails, or a process dies.
Fault == faults < MaxFault /\ faults' = faults + 1

-----------------------------------------------------------------------------
(* Connections                                                             *)

\* A connection ends with the last process that holds it: the strands that are processes
\* were forked with the control connections open, and so was the slave by its daemon.
MasterClosed == mpc = "exit" /\ procs = {}
SlaveClosed(c) == spc[c] = "dead" /\ held[HostOf[c]] # c

Sent(c, k) == to[c] # <<>> /\ Head(to[c]).kind = k
Came(c, k) == fro[c] # <<>> /\ Head(fro[c]).kind = k

Take(c) == to' = [to EXCEPT ![c] = Tail(@)]
Reply(c, ms) == fro' = [fro EXCEPT ![c] = @ \o ms]

\* tx_group_t writes the group, its transactions and their flowops, and rx_group_t reads
\* them one by one: for the order of the messages they are one.
TxGroup == <<Msg("group")>>
RxGroup(c) == Sent(c, "group") /\ Take(c)

\* preprocess_accepts: if they accept at all, the strands of the group get new ports,
\* also when they have some already.
PreprocessAccepts(n, accepts) == IF accepts THEN n + 1 ELSE n

\* update_strand_with_slave_info
Learn(known_ports, c, m) == [known_ports EXCEPT ![c] = m.n]

-----------------------------------------------------------------------------
(* The master                                                              *)

\* ensure_write: to a slave that has gone the message is lost, or the write fails.
MasterWrites(c, ms, next) ==
  \/ ~SlaveClosed(c) /\ to' = [to EXCEPT ![c] = @ \o ms] /\ mpc' = next
  \/ SlaveClosed(c) /\ UNCHANGED to /\ mpc' \in {next, "exit"}

\* The loops over the groups and their connections.
ToNext(phase, next) ==
  IF cur < NConn THEN cur' = cur + 1 /\ mpc' = phase ELSE cur' = 1 /\ mpc' = next

Fails == mpc' = "exit" /\ UNCHANGED cur

\* new_control_connection
MasterConnect ==
  /\ mpc = "connect"
  /\ \/ /\ spc' = [spc EXCEPT ![cur] = "backlog"]
        /\ backlog' = [backlog EXCEPT ![HostOf[cur]] = Append(@, cur)]
        /\ ToNext("connect", "p1")
        /\ UNCHANGED faults
     \/ Fault /\ Fails /\ UNCHANGED <<spc, backlog>>
  /\ UNCHANGED <<procs, listening, known, rx, told, ports, netVars, dpc, held, childVars,
                 reapVars, crashed>>

\* handshake_p1_with_slave
MasterPhase1 ==
  /\ mpc = "p1"
  /\ MasterWrites(cur, <<Msg("p1")>>, "p1ack")
  /\ UNCHANGED <<cur, procs, listening, known, slaveVars, fro, daemonVars, faultVars>>

MasterPhase1Ack ==
  /\ mpc = "p1ack"
  /\ Came(cur, "p1ack")
  /\ fro' = [fro EXCEPT ![cur] = Tail(@)]
  /\ IF Head(fro[cur]).ok THEN ToNext("p1", "p2") ELSE Fails
  /\ UNCHANGED <<procs, listening, known, slaveVars, to, daemonVars, faultVars>>

\* Mutant: the first strand of the next group is not moved on (id += g->nthreads).
Ssid_NotAdvanced(c) == 1

\* The strands of the connection's group, by their first strand.
Ssid(c) == GroupOf[c]

\* handshake_p2_with_slave up to its first read: preprocess_accepts makes the group's
\* strands listen, again for each of its slaves; then the header, the work order and, if
\* there are any, the ports are written.
MasterPhase2 ==
  /\ mpc = "p2"
  /\ LET accepts == GroupOf[cur] \in MasterAccepts
         port == PreprocessAccepts(listening[Ssid(cur)], accepts)
     IN \/ /\ listening' = [listening EXCEPT ![Ssid(cur)] = port]
           /\ MasterWrites(cur, IF accepts
                                THEN <<Info("p2", 1)>> \o TxGroup \o <<Info("info", port)>>
                                ELSE <<Msg("p2")>> \o TxGroup, "p2ack")
           /\ UNCHANGED <<cur, faults>>
        \/ accepts /\ Fault /\ Fails /\ UNCHANGED <<listening, to>>
  /\ UNCHANGED <<procs, known, slaveVars, fro, daemonVars, crashed>>

MasterPhase2Ack ==
  /\ mpc = "p2ack"
  /\ Came(cur, "p2ack")
  /\ fro' = [fro EXCEPT ![cur] = Tail(@)]
  /\ LET ack == Head(fro[cur])
     IN \/ ~ack.ok /\ Fails
        \/ ack.ok /\ ack.n > 0 /\ mpc' = "p2info" /\ UNCHANGED cur
        \/ ack.ok /\ ack.n = 0 /\ ToNext("p2", "spawn")
  /\ UNCHANGED <<procs, listening, known, slaveVars, to, daemonVars, faultVars>>

\* update_strand_with_slave_info
MasterPhase2Info ==
  /\ mpc = "p2info"
  /\ Came(cur, "ports")
  /\ fro' = [fro EXCEPT ![cur] = Tail(@)]
  /\ known' = Learn(known, cur, Head(fro[cur]))
  /\ ToNext("p2", "spawn")
  /\ UNCHANGED <<procs, listening, slaveVars, to, daemonVars, faultVars>>

\* spawn_strands_group
MasterSpawn ==
  /\ mpc = "spawn"
  /\ procs' = procs \cup ({cur} \cap ProcGroup)
  /\ IF cur < NGroup THEN cur' = cur + 1 /\ UNCHANGED mpc ELSE cur' = 1 /\ mpc' = "end"
  /\ UNCHANGED <<listening, known, slaveVars, netVars, daemonVars, faultVars>>

\* A strand cannot be created: master_prepare_to_exit kills the strands and sends ABORT.
\* The signal to a thread that has not begun may end the master before all processes are
\* killed.
MasterSpawnFails ==
  /\ mpc = "spawn"
  /\ Fault
  /\ Fails
  /\ procs' \in IF ProcGroup = Group THEN {{}} ELSE SUBSET procs
  /\ \E n \in 0 .. NConn :
       to' = [c \in Conn |-> IF c <= n /\ ~SlaveClosed(c) THEN Append(to[c], Msg("abort"))
                                                          ELSE to[c]]
  /\ UNCHANGED <<listening, known, slaveVars, fro, daemonVars, crashed>>

\* handshake_end_with_slave
MasterEnd ==
  /\ mpc = "end"
  /\ MasterWrites(cur, <<Msg("end")>>, "endack")
  /\ UNCHANGED <<cur, procs, listening, known, slaveVars, fro, daemonVars, faultVars>>

\* Mutant: the answer is not waited for.
EndAcked_Always == TRUE

EndAcked == Came(cur, "end")

MasterEndAck ==
  /\ mpc = "endack"
  /\ EndAcked
  /\ fro' = [fro EXCEPT ![cur] = IF @ = <<>> THEN @ ELSE Tail(@)]
  /\ ToNext("end", "run")
  /\ UNCHANGED <<procs, listening, known, slaveVars, to, daemonVars, faultVars>>

\* ensure_read: the slave is gone.  master() returns, and kills no strand.
MasterEOF ==
  /\ mpc \in {"p1ack", "p2ack", "p2info", "endack"}
  /\ fro[cur] = <<>>
  /\ SlaveClosed(cur)
  /\ Fails
  /\ UNCHANGED <<procs, listening, known, slaveVars, netVars, daemonVars, faultVars>>

MasterStep ==
  \/ MasterConnect
  \/ MasterPhase1 \/ MasterPhase1Ack
  \/ MasterPhase2 \/ MasterPhase2Ack \/ MasterPhase2Info
  \/ MasterSpawn \/ MasterSpawnFails
  \/ MasterEnd \/ MasterEndAck
  \/ MasterEOF

-----------------------------------------------------------------------------
(* The daemon: the loop of slave()                                         *)

DaemonAccept(h) ==
  /\ dpc[h] = "accept"
  /\ backlog[h] # <<>>
  /\ held' = [held EXCEPT ![h] = Head(backlog[h])]
  /\ backlog' = [backlog EXCEPT ![h] = Tail(@)]
  /\ dpc' = [dpc EXCEPT ![h] = "fork"]
  /\ UNCHANGED <<masterVars, slaveVars, netVars, childVars, reapVars, faultVars>>

\* fork: whether it worked or not, the daemon goes on as the parent.
DaemonFork(h) ==
  /\ dpc[h] = "fork"
  /\ \/ spc' = [spc EXCEPT ![held[h]] = "p1"] /\ UNCHANGED faults
     \/ Fault /\ spc' = [spc EXCEPT ![held[h]] = "dead"]
  /\ dpc' = [dpc EXCEPT ![h] = "close"]
  /\ UNCHANGED <<masterVars, rx, told, ports, netVars, backlog, held, childVars, reapVars,
                 crashed>>

\* Mutant: the daemon keeps the connection.
ParentCloses_Forgotten(h) == UNCHANGED held

ParentCloses(h) == held' = [held EXCEPT ![h] = None]

DaemonClose(h) ==
  /\ dpc[h] = "close"
  /\ ParentCloses(h)
  /\ dpc' = [dpc EXCEPT ![h] = "accept"]
  /\ UNCHANGED <<masterVars, slaveVars, netVars, backlog, childVars, reapVars, faultVars>>

\* Mutant: a child is waited for each time accept returns.
MayReap_Always(h) == TRUE

MayReap(h) == reap[h] > 0

\* accept returned NULL, after its time or for a signal, and a connection may have come
\* since: children are waited for.
DaemonIdle(h) ==
  /\ dpc[h] = "accept"
  /\ MayReap(h)
  /\ dpc' = [dpc EXCEPT ![h] = "wait"]
  /\ UNCHANGED <<masterVars, slaveVars, netVars, backlog, held, childVars, reapVars, faultVars>>

DaemonWait(h) ==
  /\ dpc[h] = "wait"
  /\ zombies[h] > 0
  /\ zombies' = [zombies EXCEPT ![h] = @ - 1]
  /\ dpc' = [dpc EXCEPT ![h] = "load"]
  /\ UNCHANGED <<masterVars, slaveVars, netVars, backlog, held, sigchld, reapVars, faultVars>>

\* reap_children--, which the signal handler may interrupt.
DaemonLoad(h) ==
  /\ dpc[h] = "load"
  /\ seen' = [seen EXCEPT ![h] = reap[h]]
  /\ dpc' = [dpc EXCEPT ![h] = "store"]
  /\ UNCHANGED <<masterVars, slaveVars, netVars, backlog, held, childVars, reap, faultVars>>

DaemonStore(h) ==
  /\ dpc[h] = "store"
  /\ reap' = [reap EXCEPT ![h] = seen[h] - 1]
  /\ seen' = [seen EXCEPT ![h] = 0]
  /\ dpc' = [dpc EXCEPT ![h] = IF MayReap(h)' THEN "wait" ELSE "accept"]
  /\ UNCHANGED <<masterVars, slaveVars, netVars, backlog, held, childVars, faultVars>>

DaemonStep(h) ==
  \/ DaemonAccept(h) \/ DaemonFork(h) \/ DaemonClose(h)
  \/ DaemonIdle(h) \/ DaemonWait(h) \/ DaemonLoad(h) \/ DaemonStore(h)

\* Mutant: the handler counts the end of a child that was waited for already.
Counted_Twice(h) == reap[h] + 2

Counted(h) == reap[h] + 1

\* sigchld_signal
SigChld(h) ==
  /\ sigchld[h]
  /\ sigchld' = [sigchld EXCEPT ![h] = FALSE]
  /\ reap' = [reap EXCEPT ![h] = Counted(h)]
  /\ UNCHANGED <<masterVars, slaveVars, netVars, dpc, backlog, held, zombies, seen, faultVars>>

-----------------------------------------------------------------------------
(* The slave process: slave_master() up to slave_master_poll               *)

Goto(c, pc) == spc' = [spc EXCEPT ![c] = pc]

\* The process exits, after it wrote ms.  What was written is lost when the connection
\* is closed with something unread in it.
Exits(c, ms) ==
  /\ Goto(c, "dead")
  /\ fro' \in {[fro EXCEPT ![c] = q] : q \in IF to[c] = <<>> THEN {fro[c] \o ms}
                                             ELSE {fro[c] \o ms, <<>>}}
  /\ zombies' = [zombies EXCEPT ![HostOf[c]] = @ + 1]
  /\ sigchld' = [sigchld EXCEPT ![HostOf[c]] = TRUE]

Lives(c) == UNCHANGED <<childVars, faults>>

\* slave_handshake_p2_failure: neither the status nor no_slave_info of the message it
\* writes is set.
ExitsWithFailure(c) == \E ok \in BOOLEAN, n \in 0 .. 1 : Exits(c, <<Ack("p2ack", ok, n)>>)

\* The loop of slave_handshake.  A slave that rejects the master reads on.
SlavePhase1(c) ==
  /\ spc[c] = "p1"
  /\ Sent(c, "p1")
  /\ Take(c)
  /\ \E ok \in BOOLEAN :
       /\ ~ok => HostOf[c] \in Suspect
       /\ Reply(c, <<Ack("p1ack", ok, 0)>>)
  /\ UNCHANGED <<masterVars, slaveVars, daemonVars, faultVars>>

SlavePhase2(c) ==
  /\ spc[c] = "p1"
  /\ Sent(c, "p2")
  /\ Take(c)
  /\ rx' = [rx EXCEPT ![c] = Head(to[c]).n]
  /\ Goto(c, "group")
  /\ UNCHANGED <<masterVars, told, ports, fro, daemonVars, faultVars>>

\* Mutant: the ports are not read.
AfterGroup_Ports(c) == "ports"

AfterGroup(c) == IF rx[c] > 0 THEN "info" ELSE "ports"

\* rx_group_t, the rest of slave_init, strand_init_group.
SlaveGroup(c) ==
  /\ spc[c] = "group"
  /\ RxGroup(c)
  /\ \/ Goto(c, AfterGroup(c)) /\ Lives(c) /\ UNCHANGED fro
     \/ Fault /\ ExitsWithFailure(c)
  /\ UNCHANGED <<masterVars, rx, told, ports, dpc, backlog, held, reapVars, crashed>>

\* slave_handshake_p2_complete
SlaveInfo(c) ==
  /\ spc[c] = "info"
  /\ Sent(c, "info")
  /\ Take(c)
  /\ told' = Learn(told, c, Head(to[c]))
  /\ Goto(c, "ports")
  /\ UNCHANGED <<masterVars, rx, ports, fro, daemonVars, faultVars>>

\* preprocess_accepts, the barriers, slave_spawn_strands, slave_handshake_p2_success.
SlavePorts(c) ==
  /\ spc[c] = "ports"
  /\ \/ /\ LET accepts == GroupOf[c] \in SlaveAccepts
            IN /\ ports' = [ports EXCEPT ![c] = PreprocessAccepts(@, accepts)]
               /\ Reply(c, IF accepts
                           THEN <<Ack("p2ack", TRUE, 1), Info("ports", ports'[c])>>
                           ELSE <<Ack("p2ack", TRUE, 0)>>)
        /\ Goto(c, "end")
        /\ Lives(c)
     \/ Fault /\ (ExitsWithFailure(c) \/ Exits(c, <<>>)) /\ UNCHANGED ports
  /\ UNCHANGED <<masterVars, rx, told, to, dpc, backlog, held, reapVars, crashed>>

\* handshake_end_slave
SlaveEnd(c) ==
  /\ spc[c] = "end"
  /\ Sent(c, "end")
  /\ Take(c)
  /\ Reply(c, <<Msg("end")>>)
  /\ Goto(c, "run")
  /\ UNCHANGED <<masterVars, rx, told, ports, daemonVars, faultVars>>

\* The end of the connection, also in place of the rest of a struct that ABORT is too short
\* for: the slave exits.
SlaveEOF(c) ==
  /\ spc[c] \in {"p1", "group", "info", "end", "run"}
  /\ to[c] = <<>> \/ Sent(c, "abort")
  /\ MasterClosed
  /\ Exits(c, <<>>)
  /\ UNCHANGED <<masterVars, rx, told, ports, to, dpc, backlog, held, reapVars, faultVars>>

\* The slave process dies.
SlaveCrash(c) ==
  /\ spc[c] \notin {"none", "backlog", "dead"}
  /\ Fault
  /\ crashed' = crashed \cup {c}
  /\ Exits(c, <<>>)
  /\ UNCHANGED <<masterVars, rx, told, ports, to, dpc, backlog, held, reapVars>>

SlaveStep(c) ==
  \/ SlavePhase1(c) \/ SlavePhase2(c)
  \/ SlaveGroup(c) \/ SlaveInfo(c) \/ SlavePorts(c)
  \/ SlaveEnd(c) \/ SlaveEOF(c)

-----------------------------------------------------------------------------
\* Either both sides run, or the master has given up and no slave process is left.
Settled ==
  \/ mpc = "run" /\ \A c \in Conn : spc[c] = "run" \/ c \in crashed
  \/ mpc = "exit" /\ \A c \in Conn : spc[c] \in {"none", "dead"}

Terminated == Settled /\ UNCHANGED vars

Next ==
  \/ MasterStep
  \/ \E h \in Host : DaemonStep(h) \/ SigChld(h)
  \/ \E c \in Conn : SlaveStep(c) \/ SlaveCrash(c)
  \/ Terminated

Spec == Init /\ [][Next]_vars

\* Every process is scheduled, and signals are delivered.
Fairness ==
  /\ WF_vars(MasterStep)
  /\ \A h \in Host : WF_vars(DaemonStep(h)) /\ WF_vars(SigChld(h))
  /\ \A c \in Conn : WF_vars(SlaveStep(c))

FairSpec == Spec /\ Fairness

-----------------------------------------------------------------------------
(* What must hold                                                          *)

\* The master runs only with all of its slaves: each has received its work, created its
\* strands and left the handshake, whatever a failing slave wrote in its message
\* (handshake_end_master, slave_handshake_p2_failure).  RunControl begins there.
AgreedToRun == mpc = "run" => \A c \in Conn : spc[c] = "run" \/ c \in crashed

\* No struct is read as another one: what a process is about to read next is what its peer
\* wrote for this read (hs_phase1_t, group_t, slave_info_t and the acknowledgments have no
\* tag the readers look at).
Expected(c) ==
  CASE spc[c] = "p1"    -> {"p1", "p2"}
    [] spc[c] = "group" -> {"group"}
    [] spc[c] = "info"  -> {"info"}
    [] spc[c] = "end"   -> {"end", "abort"}
    [] OTHER            -> {"abort"}

Awaited ==
  CASE mpc = "p1ack"  -> {"p1ack"}
    [] mpc = "p2ack"  -> {"p2ack"}
    [] mpc = "p2info" -> {"ports"}
    [] mpc = "endack" -> {"end"}
    [] OTHER          -> {}

ReadsMatchWrites ==
  /\ \A c \in Conn : spc[c] \in {"p1", "group", "info", "end", "run"} /\ to[c] # <<>> =>
       Head(to[c]).kind \in Expected(c)
  /\ mpc \in {"p1ack", "p2ack", "p2info", "endack"} /\ fro[cur] # <<>> =>
       Head(fro[cur]).kind \in Awaited

\* When the strands are let go, they know the ports at which the other side listens, and
\* nobody has moved to another one since ("Care is taken to assign them to threads with
\* the right ID", preprocess_accepts in common.c).
PortsAreCurrent ==
  mpc = "run" =>
    \A c \in Conn \ crashed :
      /\ told[c] = listening[GroupOf[c]]
      /\ known[c] = ports[c]

\* The daemon never waits for a child that is still running: reap_children, which two
\* threads of control change, counts no child that has not ended.
DaemonNeverBlocks == \A h \in Host : dpc[h] = "wait" => zombies[h] > 0

\* The handshake ends for everybody: nobody reads for ever from a peer that has failed,
\* or that reads itself.
HandshakeEnds == <>[]Settled
=============================================================================
