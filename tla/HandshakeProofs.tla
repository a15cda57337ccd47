--------------------------- MODULE HandshakeProofs ---------------------------
(***************************************************************************)
(* Invariants of Handshake, for any number of connections, groups, hosts   *)
(* and faults.                                                             *)
(***************************************************************************)
EXTENDS Handshake, SequenceTheorems, TLAPS

-----------------------------------------------------------------------------
(* Types, and the daemon's children                                        *)

\* The loops of the master run over the connections, or the groups.
CursorInRange ==
  /\ mpc \in {"connect", "p1", "p1ack", "p2", "p2ack", "p2info", "end", "endack"} => cur \in Conn
  /\ mpc = "spawn" => cur \in Group

Pending(h) == IF sigchld[h] THEN 1 ELSE 0

\* What reap_children counts, and what SIGCHLD is about to add to it, has ended and was not
\* waited for, except for the child between waitpid and the end of reap_children--.
ChildrenCounted(h) ==
  /\ dpc[h] \in {"accept", "fork", "close", "wait"} => zombies[h] >= reap[h] + Pending(h)
  /\ dpc[h] \in {"load", "store"} => zombies[h] + 1 >= reap[h] + Pending(h)
  /\ dpc[h] \in {"wait", "load"} => reap[h] > 0
  /\ dpc[h] = "store" => seen[h] \in 1 .. reap[h]
  /\ dpc[h] = "fork" => held[h] \in Conn

Typed == TypeOK /\ CursorInRange /\ \A h \in Host : ChildrenCounted(h)

LEMMA Constants ==
  /\ NConn \in Nat /\ NGroup \in Nat /\ 1 \in Conn /\ 1 \in Group
  /\ \A c \in Conn : GroupOf[c] \in Group /\ HostOf[c] \in Host /\ c \in Nat /\ c # None
BY HandshakeAssumption DEF Conn, Group, None

LEMMA MessageTypes ==
  /\ \A ms \in {<<>>, <<Msg("p1")>>, <<Msg("end")>>} : ms \in Seq(Message)
  /\ \A ok \in BOOLEAN, n \in Nat :
       /\ <<Ack("p1ack", ok, n)>> \in Seq(Message)
       /\ <<Ack("p2ack", ok, n)>> \in Seq(Message)
       /\ <<Ack("p2ack", ok, 1), Info("ports", n)>> \in Seq(Message)
       /\ <<Info("p2", 1)>> \o TxGroup \o <<Info("info", n)>> \in Seq(Message)
       /\ <<Msg("p2")>> \o TxGroup \in Seq(Message)
  /\ Msg("abort") \in Message
BY DEF Message, Msg, Ack, Info, TxGroup

LEMMA InitTyped == Init => Typed
BY Constants, HandshakeAssumption DEF Init, Typed, TypeOK, CursorInRange, ChildrenCounted, Pending,
   MasterPC, SlavePC, DaemonPC, None, Conn, Group

\* The sequences of messages and of connections.
LEMMA SendTyped ==
  ASSUME NEW D, NEW S, NEW f \in [D -> Seq(S)], NEW d \in D, NEW ms \in Seq(S)
  PROVE  [f EXCEPT ![d] = @ \o ms] \in [D -> Seq(S)]
OBVIOUS

LEMMA AppendTyped ==
  ASSUME NEW D, NEW S, NEW f \in [D -> Seq(S)], NEW d \in D, NEW m \in S
  PROVE  [f EXCEPT ![d] = Append(@, m)] \in [D -> Seq(S)]
OBVIOUS

LEMMA TakeTyped ==
  ASSUME NEW D, NEW S, NEW f \in [D -> Seq(S)], NEW d \in D, f[d] # <<>>
  PROVE  /\ [f EXCEPT ![d] = Tail(@)] \in [D -> Seq(S)]
         /\ Head(f[d]) \in S
OBVIOUS

LEMMA FaultTyped == TypeOK /\ Fault => faults' \in 0 .. MaxFault
BY HandshakeAssumption DEF TypeOK, Fault

\* What the daemons do not do keeps their counters, or adds a child that ended.
LEMMA ChildrenKept ==
  ASSUME Typed, UNCHANGED <<dpc, held, reapVars>>,
         \/ UNCHANGED childVars
         \/ \E c \in Conn : /\ zombies' = [zombies EXCEPT ![HostOf[c]] = @ + 1]
                            /\ sigchld' = [sigchld EXCEPT ![HostOf[c]] = TRUE]
  PROVE  \A h \in Host : ChildrenCounted(h)'
<1> SUFFICES ASSUME NEW h \in Host PROVE ChildrenCounted(h)'
  OBVIOUS
<1>1. zombies[h] \in Nat /\ reap[h] \in Nat /\ sigchld[h] \in BOOLEAN /\ Pending(h) \in {0, 1} /\ ChildrenCounted(h)
  BY DEF Typed, TypeOK, Pending
<1>2. CASE zombies'[h] = zombies[h] /\ sigchld'[h] = sigchld[h]
  BY <1>1, <1>2 DEF ChildrenCounted, Pending, reapVars
<1>3. CASE zombies'[h] = zombies[h] + 1 /\ Pending(h)' = 1
  BY <1>1, <1>3 DEF ChildrenCounted, reapVars
<1>4. CASE UNCHANGED childVars
  BY <1>2, <1>4 DEF childVars
<1>5. ASSUME NEW c \in Conn,
             zombies' = [zombies EXCEPT ![HostOf[c]] = @ + 1],
             sigchld' = [sigchld EXCEPT ![HostOf[c]] = TRUE]
      PROVE  ChildrenCounted(h)'
  <2>0. zombies \in [Host -> Nat] /\ sigchld \in [Host -> BOOLEAN]
    BY DEF Typed, TypeOK
  <2>1. CASE HostOf[c] = h
    BY <1>3, <1>5, <2>0, <2>1 DEF Pending
  <2>2. CASE HostOf[c] # h
    BY <1>2, <1>5, <2>0, <2>2
  <2> QED BY <2>1, <2>2
<1> QED BY <1>4, <1>5

LEMMA MasterWritesTyped ==
  ASSUME TypeOK, cur \in Conn, NEW ms \in Seq(Message), NEW next \in MasterPC, MasterWrites(cur, ms, next)
  PROVE  to' \in [Conn -> Seq(Message)] /\ mpc' \in {next, "exit"}
<1>1. to \in [Conn -> Seq(Message)]
  BY DEF TypeOK
<1>2. [to EXCEPT ![cur] = @ \o ms] \in [Conn -> Seq(Message)]
  BY <1>1, SendTyped
<1> QED BY <1>1, <1>2 DEF MasterWrites

LEMMA ToNextTyped ==
  ASSUME cur \in Conn, NEW phase, NEW next, ToNext(phase, next)
  PROVE  cur' \in Conn /\ (mpc' = phase \/ (mpc' = next /\ cur' = 1))
BY HandshakeAssumption DEF ToNext, Conn

LEMMA MasterTyped ==
  Typed /\ MasterStep => Typed'
<1> SUFFICES ASSUME Typed, MasterStep PROVE Typed'
  OBVIOUS
<1>0. /\ \A h \in Host : ChildrenCounted(h)'
      /\ UNCHANGED <<rx, told, ports, dpc, held, zombies, sigchld, reap, seen, crashed>>
  <2>1. UNCHANGED <<rx, told, ports, dpc, held, reapVars, childVars, crashed>>
    BY DEF MasterStep, MasterConnect, MasterPhase1, MasterPhase1Ack, MasterPhase2, MasterPhase2Ack,
       MasterPhase2Info, MasterSpawn, MasterSpawnFails, MasterEnd, MasterEndAck, MasterEOF,
       slaveVars, daemonVars, faultVars
  <2> QED BY <2>1, ChildrenKept DEF reapVars, childVars
<1>a. TypeOK /\ CursorInRange /\ to \in [Conn -> Seq(Message)] /\ fro \in [Conn -> Seq(Message)]
  BY DEF Typed, TypeOK
\* It is enough to look at the variables the master changes.
<1>b. ASSUME /\ mpc' \in MasterPC /\ cur' \in Nat \ {0} /\ CursorInRange'
             /\ procs' \subseteq ProcGroup
             /\ listening' \in [Group -> Nat] /\ known' \in [Conn -> Nat]
             /\ spc' \in [Conn -> SlavePC]
             /\ to' \in [Conn -> Seq(Message)] /\ fro' \in [Conn -> Seq(Message)]
             /\ backlog' \in [Host -> Seq(Conn)] /\ faults' \in 0 .. MaxFault
      PROVE Typed'
  BY <1>0, <1>a, <1>b DEF Typed, TypeOK
<1>c. /\ cur \in Nat \ {0} /\ procs \subseteq ProcGroup
      /\ listening \in [Group -> Nat] /\ known \in [Conn -> Nat] /\ spc \in [Conn -> SlavePC]
      /\ backlog \in [Host -> Seq(Conn)] /\ faults \in 0 .. MaxFault
  BY <1>a DEF TypeOK
<1>d. mpc \in {"connect", "p1", "p1ack", "p2", "p2ack", "p2info", "end", "endack"} => cur \in Conn
  BY <1>a DEF CursorInRange
<1>e. ASSUME cur \in Conn, NEW phase \in {"connect", "p1", "p2", "end"}, NEW next \in {"p1", "p2", "spawn", "run"},
             ToNext(phase, next)
      PROVE  mpc' \in MasterPC /\ cur' \in Nat \ {0} /\ CursorInRange'
  <2>1. cur' \in Conn /\ (mpc' = phase \/ (mpc' = next /\ cur' = 1))
    BY <1>e, ToNextTyped
  <2> QED BY <2>1, Constants DEF MasterPC, CursorInRange, Conn
<1>f. Fails => mpc' \in MasterPC /\ cur' \in Nat \ {0} /\ CursorInRange'
  BY <1>c DEF Fails, MasterPC, CursorInRange
<1>g. ASSUME cur \in Conn, UNCHANGED cur, mpc' \in {"p1ack", "p2ack", "p2info", "endack", "exit"}
      PROVE  mpc' \in MasterPC /\ cur' \in Nat \ {0} /\ CursorInRange'
  BY <1>c, <1>g DEF MasterPC, CursorInRange
<1>1. CASE MasterConnect
  <2>1. cur \in Conn /\ HostOf[cur] \in Host
    BY <1>1, <1>d, Constants DEF MasterConnect
  <2>2. backlog' \in [Host -> Seq(Conn)]
    <3>1. [backlog EXCEPT ![HostOf[cur]] = Append(@, cur)] \in [Host -> Seq(Conn)]
      BY <1>c, <2>1, AppendTyped
    <3> QED BY <1>1, <1>c, <3>1 DEF MasterConnect
  <2>3. spc' \in [Conn -> SlavePC]
    BY <1>1, <1>c, <2>1 DEF MasterConnect, SlavePC
  <2>4. faults' \in 0 .. MaxFault
    BY <1>1, <1>a, <1>c, FaultTyped DEF MasterConnect
  <2>5. mpc' \in MasterPC /\ cur' \in Nat \ {0} /\ CursorInRange'
    BY <1>1, <1>e, <1>f, <2>1 DEF MasterConnect
  <2> QED BY <1>1, <1>a, <1>b, <1>c, <2>2, <2>3, <2>4, <2>5 DEF MasterConnect, netVars
<1>2. CASE MasterPhase1
  <2>1. cur \in Conn
    BY <1>2, <1>d DEF MasterPhase1
  <2>2. to' \in [Conn -> Seq(Message)] /\ mpc' \in {"p1ack", "exit"}
    BY <1>2, <1>a, <2>1, MasterWritesTyped, MessageTypes DEF MasterPhase1, MasterPC
  <2> QED BY <1>2, <1>a, <1>b, <1>c, <1>g, <2>1, <2>2 DEF MasterPhase1, slaveVars, daemonVars, faultVars
<1>3. CASE MasterPhase1Ack
  <2>1. cur \in Conn
    BY <1>3, <1>d DEF MasterPhase1Ack
  <2>2. fro' \in [Conn -> Seq(Message)]
    BY <1>3, <1>a, <2>1, TakeTyped DEF MasterPhase1Ack, Came
  <2>3. mpc' \in MasterPC /\ cur' \in Nat \ {0} /\ CursorInRange'
    BY <1>3, <1>e, <1>f, <2>1 DEF MasterPhase1Ack
  <2> QED BY <1>3, <1>a, <1>b, <1>c, <2>2, <2>3 DEF MasterPhase1Ack, slaveVars, daemonVars, faultVars
<1>4. CASE MasterPhase2
  <2> DEFINE accepts == GroupOf[cur] \in MasterAccepts
             port == PreprocessAccepts(listening[Ssid(cur)], accepts)
             ms == IF accepts THEN <<Info("p2", 1)>> \o TxGroup \o <<Info("info", port)>>
                              ELSE <<Msg("p2")>> \o TxGroup
  <2>1. cur \in Conn /\ Ssid(cur) \in Group
    BY <1>4, <1>d, Constants DEF MasterPhase2, Ssid
  <2>2. port \in Nat
    BY <1>c, <2>1 DEF PreprocessAccepts
  <2>3. ms \in Seq(Message)
    BY <2>2, MessageTypes
  <2>4. CASE listening' = [listening EXCEPT ![Ssid(cur)] = port] /\ MasterWrites(cur, ms, "p2ack") /\ UNCHANGED <<cur, faults>>
    <3>1. to' \in [Conn -> Seq(Message)] /\ mpc' \in {"p2ack", "exit"}
      BY <1>a, <2>1, <2>3, <2>4, MasterWritesTyped DEF MasterPC
    <3>2. listening' \in [Group -> Nat]
      BY <1>c, <2>1, <2>2, <2>4
    <3> HIDE DEF ms, port
    <3> QED BY <1>4, <1>a, <1>b, <1>c, <1>g, <2>1, <2>4, <3>1, <3>2 DEF MasterPhase2, slaveVars, daemonVars
  <2>5. CASE Fault /\ Fails /\ UNCHANGED <<listening, to>>
    BY <1>4, <1>a, <1>b, <1>c, <1>f, <2>5, FaultTyped DEF MasterPhase2, slaveVars, daemonVars
  <2> QED BY <1>4, <2>4, <2>5 DEF MasterPhase2
<1>5. CASE MasterPhase2Ack
  <2>1. cur \in Conn
    BY <1>5, <1>d DEF MasterPhase2Ack
  <2>2. fro' \in [Conn -> Seq(Message)]
    BY <1>5, <1>a, <2>1, TakeTyped DEF MasterPhase2Ack, Came
  <2>3. mpc' \in MasterPC /\ cur' \in Nat \ {0} /\ CursorInRange'
    BY <1>5, <1>e, <1>f, <1>g, <2>1 DEF MasterPhase2Ack
  <2> QED BY <1>5, <1>a, <1>b, <1>c, <2>2, <2>3 DEF MasterPhase2Ack, slaveVars, daemonVars, faultVars
<1>6. CASE MasterPhase2Info
  <2>1. cur \in Conn
    BY <1>6, <1>d DEF MasterPhase2Info
  <2>2. fro' \in [Conn -> Seq(Message)] /\ Head(fro[cur]) \in Message
    BY <1>6, <1>a, <2>1, TakeTyped DEF MasterPhase2Info, Came
  <2>3. known' \in [Conn -> Nat]
    BY <1>6, <1>c, <2>1, <2>2 DEF MasterPhase2Info, Learn, Message
  <2>4. mpc' \in MasterPC /\ cur' \in Nat \ {0} /\ CursorInRange'
    BY <1>6, <1>e, <2>1 DEF MasterPhase2Info
  <2> QED BY <1>6, <1>a, <1>b, <1>c, <2>2, <2>3, <2>4 DEF MasterPhase2Info, slaveVars, daemonVars, faultVars
<1>7. CASE MasterSpawn
  <2>1. cur \in Group
    BY <1>7, <1>a DEF MasterSpawn, CursorInRange
  <2>2. mpc' \in MasterPC /\ cur' \in Nat \ {0} /\ CursorInRange'
    BY <1>7, <2>1, Constants DEF MasterSpawn, MasterPC, CursorInRange, Group
  <2> QED BY <1>7, <1>a, <1>b, <1>c, <2>2 DEF MasterSpawn, slaveVars, netVars, daemonVars, faultVars
<1>8. CASE MasterSpawnFails
  <2>1. to' \in [Conn -> Seq(Message)]
    <3>1. \A c \in Conn : Append(to[c], Msg("abort")) \in Seq(Message)
      BY <1>a, MessageTypes
    <3> QED BY <1>8, <1>a, <3>1 DEF MasterSpawnFails
  <2>2. procs' \subseteq ProcGroup
    BY <1>8, <1>c DEF MasterSpawnFails
  <2> QED BY <1>8, <1>a, <1>b, <1>c, <1>f, <2>1, <2>2, FaultTyped DEF MasterSpawnFails, slaveVars, daemonVars
<1>9. CASE MasterEnd
  <2>1. cur \in Conn
    BY <1>9, <1>d DEF MasterEnd
  <2>2. to' \in [Conn -> Seq(Message)] /\ mpc' \in {"endack", "exit"}
    BY <1>9, <1>a, <2>1, MasterWritesTyped, MessageTypes DEF MasterEnd, MasterPC
  <2> QED BY <1>9, <1>a, <1>b, <1>c, <1>g, <2>1, <2>2 DEF MasterEnd, slaveVars, daemonVars, faultVars
<1>10. CASE MasterEndAck
  <2>1. cur \in Conn
    BY <1>10, <1>d DEF MasterEndAck
  <2>2. fro' \in [Conn -> Seq(Message)]
    BY <1>10, <1>a, <2>1, TakeTyped DEF MasterEndAck
  <2>3. mpc' \in MasterPC /\ cur' \in Nat \ {0} /\ CursorInRange'
    BY <1>10, <1>e, <2>1 DEF MasterEndAck
  <2> QED BY <1>10, <1>a, <1>b, <1>c, <2>2, <2>3 DEF MasterEndAck, slaveVars, daemonVars, faultVars
<1>11. CASE MasterEOF
  BY <1>11, <1>a, <1>b, <1>c, <1>f DEF MasterEOF, slaveVars, netVars, daemonVars, faultVars
<1> QED BY <1>1, <1>2, <1>3, <1>4, <1>5, <1>6, <1>7, <1>8, <1>9, <1>10, <1>11 DEF MasterStep

\* The other daemons keep theirs.
LEMMA DaemonTyped ==
  ASSUME NEW h \in Host, Typed, DaemonStep(h) \/ SigChld(h) PROVE Typed'
<1>0. /\ TypeOK /\ \A k \in Host : ChildrenCounted(k)
      /\ dpc \in [Host -> DaemonPC] /\ backlog \in [Host -> Seq(Conn)] /\ held \in [Host -> Conn \cup {None}]
      /\ zombies \in [Host -> Nat] /\ sigchld \in [Host -> BOOLEAN]
      /\ reap \in [Host -> Nat] /\ seen \in [Host -> Nat]
      /\ spc \in [Conn -> SlavePC] /\ faults \in 0 .. MaxFault
  BY DEF Typed, TypeOK
<1>1. UNCHANGED <<masterVars, rx, told, ports, netVars, crashed>>
  BY DEF DaemonStep, DaemonAccept, DaemonFork, DaemonClose, DaemonIdle, DaemonWait, DaemonLoad,
     DaemonStore, SigChld, slaveVars, faultVars
<1>2. CursorInRange'
  BY <1>1 DEF Typed, CursorInRange, masterVars
<1>3. ASSUME /\ spc' \in [Conn -> SlavePC] /\ dpc' \in [Host -> DaemonPC] /\ backlog' \in [Host -> Seq(Conn)]
             /\ held' \in [Host -> Conn \cup {None}] /\ zombies' \in [Host -> Nat]
             /\ sigchld' \in [Host -> BOOLEAN] /\ reap' \in [Host -> Nat] /\ seen' \in [Host -> Nat]
             /\ faults' \in 0 .. MaxFault /\ ChildrenCounted(h)'
             /\ \A k \in Host \ {h} :
                  /\ dpc'[k] = dpc[k] /\ held'[k] = held[k] /\ zombies'[k] = zombies[k]
                  /\ reap'[k] = reap[k] /\ seen'[k] = seen[k] /\ Pending(k)' = Pending(k)
      PROVE Typed'
  <2>1. \A k \in Host \ {h} : ChildrenCounted(k)'
    BY <1>0, <1>3 DEF ChildrenCounted
  <2>2. \A k \in Host : ChildrenCounted(k)'
    BY <1>3, <2>1
  <2>3. TypeOK'
    BY <1>0, <1>1, <1>3 DEF TypeOK, masterVars, netVars
  <2> QED BY <1>2, <2>2, <2>3 DEF Typed
<1>4. Pending(h) \in {0, 1} /\ (UNCHANGED sigchld => \A k \in Host : Pending(k)' = Pending(k))
  BY DEF Pending
<1>5. zombies[h] \in Nat /\ reap[h] \in Nat /\ seen[h] \in Nat /\ ChildrenCounted(h)
  BY <1>0
<1>6. CASE DaemonAccept(h)
  <2>1. backlog' \in [Host -> Seq(Conn)] /\ Head(backlog[h]) \in Conn
    BY <1>0, <1>6, TakeTyped DEF DaemonAccept
  <2>2. held' \in [Host -> Conn \cup {None}] /\ held'[h] \in Conn
    BY <1>0, <1>6, <2>1 DEF DaemonAccept
  <2>3. dpc[h] = "accept" /\ dpc' = [dpc EXCEPT ![h] = "fork"] /\ UNCHANGED <<zombies, sigchld, reap, seen, spc, faults>>
        /\ \A k \in Host \ {h} : held'[k] = held[k]
    BY <1>0, <1>6 DEF DaemonAccept, childVars, reapVars, slaveVars, faultVars
  <2>4. dpc' \in [Host -> DaemonPC] /\ dpc'[h] = "fork" /\ \A k \in Host \ {h} : dpc'[k] = dpc[k]
    BY <1>0, <2>3 DEF DaemonPC
  <2>5. ChildrenCounted(h)'
    BY <1>4, <1>5, <2>2, <2>3, <2>4 DEF ChildrenCounted
  <2> QED BY <1>0, <1>3, <1>4, <2>1, <2>2, <2>3, <2>4, <2>5
<1>7. CASE DaemonFork(h)
  <2>1. held[h] \in Conn /\ dpc[h] = "fork"
    BY <1>5, <1>7 DEF ChildrenCounted, DaemonFork
  <2>2. spc' \in [Conn -> SlavePC]
    BY <1>0, <1>7, <2>1 DEF DaemonFork, SlavePC
  <2>3. faults' \in 0 .. MaxFault
    BY <1>0, <1>7, FaultTyped DEF DaemonFork
  <2>4. dpc' \in [Host -> DaemonPC] /\ dpc'[h] = "close" /\ \A k \in Host \ {h} : dpc'[k] = dpc[k]
    BY <1>0, <1>7 DEF DaemonFork, DaemonPC
  <2>5. UNCHANGED <<backlog, held, zombies, sigchld, reap, seen>>
    BY <1>7 DEF DaemonFork, childVars, reapVars
  <2>6. ChildrenCounted(h)'
    BY <1>4, <1>5, <2>1, <2>4, <2>5 DEF ChildrenCounted
  <2> QED BY <1>0, <1>3, <1>4, <2>2, <2>3, <2>4, <2>5, <2>6
<1>8. CASE DaemonClose(h)
  <2>1. held' \in [Host -> Conn \cup {None}] /\ \A k \in Host \ {h} : held'[k] = held[k]
    BY <1>0, <1>8 DEF DaemonClose, ParentCloses
  <2>2. dpc[h] = "close" /\ dpc' \in [Host -> DaemonPC] /\ dpc'[h] = "accept" /\ \A k \in Host \ {h} : dpc'[k] = dpc[k]
    BY <1>0, <1>8 DEF DaemonClose, DaemonPC
  <2>3. UNCHANGED <<backlog, zombies, sigchld, reap, seen, spc, faults>>
    BY <1>8 DEF DaemonClose, childVars, reapVars, slaveVars, faultVars
  <2>4. ChildrenCounted(h)'
    BY <1>4, <1>5, <2>2, <2>3 DEF ChildrenCounted
  <2> QED BY <1>0, <1>3, <1>4, <2>1, <2>2, <2>3, <2>4
<1>9. CASE DaemonIdle(h)
  <2>1. dpc[h] = "accept" /\ reap[h] > 0 /\ dpc' \in [Host -> DaemonPC] /\ dpc'[h] = "wait"
        /\ \A k \in Host \ {h} : dpc'[k] = dpc[k]
    BY <1>0, <1>9 DEF DaemonIdle, MayReap, DaemonPC
  <2>2. UNCHANGED <<backlog, held, zombies, sigchld, reap, seen, spc, faults>>
    BY <1>9 DEF DaemonIdle, childVars, reapVars, slaveVars, faultVars
  <2>3. ChildrenCounted(h)'
    BY <1>4, <1>5, <2>1, <2>2 DEF ChildrenCounted
  <2> QED BY <1>0, <1>3, <1>4, <2>1, <2>2, <2>3
<1>10. CASE DaemonWait(h)
  <2>1. dpc[h] = "wait" /\ dpc' \in [Host -> DaemonPC] /\ dpc'[h] = "load" /\ \A k \in Host \ {h} : dpc'[k] = dpc[k]
    BY <1>0, <1>10 DEF DaemonWait, DaemonPC
  <2>2. zombies' \in [Host -> Nat] /\ zombies'[h] = zombies[h] - 1 /\ \A k \in Host \ {h} : zombies'[k] = zombies[k]
    BY <1>0, <1>5, <1>10 DEF DaemonWait
  <2>3. UNCHANGED <<backlog, held, sigchld, reap, seen, spc, faults>>
    BY <1>10 DEF DaemonWait, reapVars, slaveVars, faultVars
  <2>4. ChildrenCounted(h)'
    BY <1>4, <1>5, <2>1, <2>2, <2>3 DEF ChildrenCounted
  <2> QED BY <1>0, <1>3, <1>4, <2>1, <2>2, <2>3, <2>4
<1>11. CASE DaemonLoad(h)
  <2>1. dpc[h] = "load" /\ dpc' \in [Host -> DaemonPC] /\ dpc'[h] = "store" /\ \A k \in Host \ {h} : dpc'[k] = dpc[k]
    BY <1>0, <1>11 DEF DaemonLoad, DaemonPC
  <2>2. seen' \in [Host -> Nat] /\ seen'[h] = reap[h] /\ \A k \in Host \ {h} : seen'[k] = seen[k]
    BY <1>0, <1>5, <1>11 DEF DaemonLoad
  <2>3. UNCHANGED <<backlog, held, zombies, sigchld, reap, spc, faults>>
    BY <1>11 DEF DaemonLoad, childVars, slaveVars, faultVars
  <2>4. ChildrenCounted(h)'
    BY <1>4, <1>5, <2>1, <2>2, <2>3 DEF ChildrenCounted
  <2> QED BY <1>0, <1>3, <1>4, <2>1, <2>2, <2>3, <2>4
<1>12. CASE DaemonStore(h)
  <2>1. dpc[h] = "store" /\ seen[h] \in 1 .. reap[h]
    BY <1>5, <1>12 DEF DaemonStore, ChildrenCounted
  <2>2. reap' \in [Host -> Nat] /\ reap'[h] = seen[h] - 1 /\ \A k \in Host \ {h} : reap'[k] = reap[k]
    BY <1>0, <1>5, <1>12, <2>1 DEF DaemonStore
  <2>3. seen' \in [Host -> Nat] /\ \A k \in Host \ {h} : seen'[k] = seen[k]
    BY <1>0, <1>12 DEF DaemonStore
  <2>4. dpc' \in [Host -> DaemonPC] /\ dpc'[h] = (IF reap'[h] > 0 THEN "wait" ELSE "accept")
        /\ \A k \in Host \ {h} : dpc'[k] = dpc[k]
    BY <1>0, <1>12 DEF DaemonStore, MayReap, DaemonPC
  <2>5. UNCHANGED <<backlog, held, zombies, sigchld, spc, faults>>
    BY <1>12 DEF DaemonStore, childVars, slaveVars, faultVars
  <2>6. ChildrenCounted(h)'
    BY <1>4, <1>5, <2>1, <2>2, <2>4, <2>5 DEF ChildrenCounted
  <2> QED BY <1>0, <1>3, <1>4, <2>2, <2>3, <2>4, <2>5, <2>6
<1>13. CASE SigChld(h)
  <2>1. sigchld' \in [Host -> BOOLEAN] /\ Pending(h) = 1 /\ Pending(h)' = 0 /\ \A k \in Host \ {h} : Pending(k)' = Pending(k)
    BY <1>0, <1>13 DEF SigChld, Pending
  <2>2. reap' \in [Host -> Nat] /\ reap'[h] = reap[h] + 1 /\ \A k \in Host \ {h} : reap'[k] = reap[k]
    BY <1>0, <1>13 DEF SigChld, Counted
  <2>3. UNCHANGED <<dpc, backlog, held, zombies, seen, spc, faults>>
    BY <1>13 DEF SigChld, slaveVars, faultVars
  <2>4. ChildrenCounted(h)'
    BY <1>5, <2>1, <2>2, <2>3 DEF ChildrenCounted
  <2> QED BY <1>0, <1>3, <2>1, <2>2, <2>3, <2>4
<1> QED BY <1>6, <1>7, <1>8, <1>9, <1>10, <1>11, <1>12, <1>13 DEF DaemonStep

LEMMA ExitsTyped ==
  ASSUME Typed, NEW c \in Conn, NEW ms \in Seq(Message), Exits(c, ms), UNCHANGED <<dpc, held, reapVars>>
  PROVE  /\ spc' \in [Conn -> SlavePC] /\ fro' \in [Conn -> Seq(Message)]
         /\ zombies' \in [Host -> Nat] /\ sigchld' \in [Host -> BOOLEAN]
         /\ \A h \in Host : ChildrenCounted(h)'
<1>1. /\ fro \in [Conn -> Seq(Message)] /\ spc \in [Conn -> SlavePC]
      /\ zombies \in [Host -> Nat] /\ sigchld \in [Host -> BOOLEAN]
  BY DEF Typed, TypeOK
<1>2. fro[c] \o ms \in Seq(Message) /\ <<>> \in Seq(Message)
  BY <1>1
<1>3. PICK q \in Seq(Message) : fro' = [fro EXCEPT ![c] = q]
  BY <1>2 DEF Exits
<1>4. fro' \in [Conn -> Seq(Message)]
  BY <1>1, <1>3
<1>5. spc' \in [Conn -> SlavePC]
  BY <1>1 DEF Exits, Goto, SlavePC
<1>6. zombies' \in [Host -> Nat] /\ sigchld' \in [Host -> BOOLEAN]
  BY <1>1, Constants DEF Exits
<1>7. \A h \in Host : ChildrenCounted(h)'
  BY ChildrenKept DEF Exits
<1> QED BY <1>4, <1>5, <1>6, <1>7

LEMMA SlaveTyped ==
  ASSUME NEW c \in Conn, Typed, SlaveStep(c) \/ SlaveCrash(c) PROVE Typed'
<1>0. /\ TypeOK
      /\ spc \in [Conn -> SlavePC] /\ rx \in [Conn -> Nat] /\ told \in [Conn -> Nat] /\ ports \in [Conn -> Nat]
      /\ to \in [Conn -> Seq(Message)] /\ fro \in [Conn -> Seq(Message)]
      /\ zombies \in [Host -> Nat] /\ sigchld \in [Host -> BOOLEAN]
      /\ crashed \subseteq Conn /\ faults \in 0 .. MaxFault
  BY DEF Typed, TypeOK
<1>1. UNCHANGED <<masterVars, dpc, backlog, held, reapVars>>
  BY DEF SlaveStep, SlavePhase1, SlavePhase2, SlaveGroup, SlaveInfo, SlavePorts, SlaveEnd, SlaveEOF,
     SlaveCrash, daemonVars
<1>2. CursorInRange'
  BY <1>1 DEF Typed, CursorInRange, masterVars
<1>3. ASSUME /\ spc' \in [Conn -> SlavePC] /\ rx' \in [Conn -> Nat] /\ told' \in [Conn -> Nat]
             /\ ports' \in [Conn -> Nat]
             /\ to' \in [Conn -> Seq(Message)] /\ fro' \in [Conn -> Seq(Message)]
             /\ zombies' \in [Host -> Nat] /\ sigchld' \in [Host -> BOOLEAN]
             /\ \A h \in Host : ChildrenCounted(h)'
             /\ crashed' \subseteq Conn /\ faults' \in 0 .. MaxFault
      PROVE  Typed'
  BY <1>0, <1>1, <1>2, <1>3 DEF Typed, TypeOK, masterVars, reapVars
<1>4. ASSUME UNCHANGED childVars
      PROVE  /\ zombies' \in [Host -> Nat] /\ sigchld' \in [Host -> BOOLEAN]
             /\ \A h \in Host : ChildrenCounted(h)'
  BY <1>0, <1>1, <1>4, ChildrenKept DEF childVars
<1>5. ASSUME NEW pc \in SlavePC, Goto(c, pc) PROVE spc' \in [Conn -> SlavePC]
  BY <1>0, <1>5 DEF Goto
<1>6. ASSUME to[c] # <<>>, Take(c) PROVE to' \in [Conn -> Seq(Message)]
  BY <1>0, <1>6, TakeTyped DEF Take
<1>7. ASSUME NEW ms \in Seq(Message), Reply(c, ms) PROVE fro' \in [Conn -> Seq(Message)]
  BY <1>0, <1>7, SendTyped DEF Reply
<1>8. ASSUME ExitsWithFailure(c) \/ Exits(c, <<>>)
      PROVE  /\ spc' \in [Conn -> SlavePC] /\ fro' \in [Conn -> Seq(Message)]
             /\ zombies' \in [Host -> Nat] /\ sigchld' \in [Host -> BOOLEAN]
             /\ \A h \in Host : ChildrenCounted(h)'
  <2>1. \E ms \in Seq(Message) : Exits(c, ms)
    <3>1. CASE Exits(c, <<>>)
      BY <3>1, MessageTypes
    <3>2. ASSUME NEW ok \in BOOLEAN, NEW n \in 0 .. 1, Exits(c, <<Ack("p2ack", ok, n)>>)
          PROVE  \E ms \in Seq(Message) : Exits(c, ms)
      <4>1. <<Ack("p2ack", ok, n)>> \in Seq(Message)
        BY MessageTypes
      <4> QED BY <3>2, <4>1
    <3> QED BY <1>8, <3>1, <3>2 DEF ExitsWithFailure
  <2> QED BY <1>1, <2>1, ExitsTyped
<1>9. CASE SlavePhase1(c)
  <2>1. to' \in [Conn -> Seq(Message)] /\ UNCHANGED <<spc, rx, told, ports, crashed, faults, childVars>>
    BY <1>6, <1>9 DEF SlavePhase1, Sent, slaveVars, daemonVars, faultVars
  <2>2. fro' \in [Conn -> Seq(Message)]
    BY <1>7, <1>9, MessageTypes DEF SlavePhase1
  <2> QED BY <1>0, <1>3, <1>4, <2>1, <2>2
<1>10. CASE SlavePhase2(c)
  <2>1. to' \in [Conn -> Seq(Message)] /\ Head(to[c]) \in Message
    BY <1>0, <1>6, <1>10, TakeTyped DEF SlavePhase2, Sent
  <2>2. rx' \in [Conn -> Nat]
    BY <1>0, <1>10, <2>1 DEF SlavePhase2, Message
  <2>3. spc' \in [Conn -> SlavePC]
    BY <1>5, <1>10 DEF SlavePhase2, SlavePC
  <2>4. UNCHANGED <<told, ports, fro, crashed, faults, childVars>>
    BY <1>10 DEF SlavePhase2, daemonVars, faultVars
  <2> QED BY <1>0, <1>3, <1>4, <2>1, <2>2, <2>3, <2>4
<1>11. CASE SlaveGroup(c)
  <2>1. to' \in [Conn -> Seq(Message)] /\ UNCHANGED <<rx, told, ports, crashed>>
    BY <1>6, <1>11 DEF SlaveGroup, RxGroup, Sent
  <2>2. CASE Goto(c, AfterGroup(c)) /\ Lives(c) /\ UNCHANGED fro
    <3>1. spc' \in [Conn -> SlavePC]
      BY <1>5, <2>2 DEF AfterGroup, SlavePC
    <3> QED BY <1>0, <1>3, <1>4, <2>1, <2>2, <3>1 DEF Lives
  <2>3. CASE Fault /\ ExitsWithFailure(c)
    BY <1>0, <1>3, <1>8, <2>1, <2>3, FaultTyped
  <2> QED BY <1>11, <2>2, <2>3 DEF SlaveGroup
<1>12. CASE SlaveInfo(c)
  <2>1. to' \in [Conn -> Seq(Message)] /\ Head(to[c]) \in Message
    BY <1>0, <1>6, <1>12, TakeTyped DEF SlaveInfo, Sent
  <2>2. told' \in [Conn -> Nat]
    BY <1>0, <1>12, <2>1 DEF SlaveInfo, Learn, Message
  <2>3. spc' \in [Conn -> SlavePC]
    BY <1>5, <1>12 DEF SlaveInfo, SlavePC
  <2>4. UNCHANGED <<rx, ports, fro, crashed, faults, childVars>>
    BY <1>12 DEF SlaveInfo, daemonVars, faultVars
  <2> QED BY <1>0, <1>3, <1>4, <2>1, <2>2, <2>3, <2>4
<1>13. CASE SlavePorts(c)
  <2>1. UNCHANGED <<rx, told, to, crashed>>
    BY <1>13 DEF SlavePorts
  <2>2. CASE Fault /\ (ExitsWithFailure(c) \/ Exits(c, <<>>)) /\ UNCHANGED ports
    BY <1>0, <1>3, <1>8, <2>1, <2>2, FaultTyped
  <2>3. CASE ~(Fault /\ (ExitsWithFailure(c) \/ Exits(c, <<>>)) /\ UNCHANGED ports)
    <3>1. /\ ports' = [ports EXCEPT ![c] = PreprocessAccepts(@, GroupOf[c] \in SlaveAccepts)]
          /\ Reply(c, IF GroupOf[c] \in SlaveAccepts
                      THEN <<Ack("p2ack", TRUE, 1), Info("ports", ports'[c])>>
                      ELSE <<Ack("p2ack", TRUE, 0)>>)
          /\ Goto(c, "end") /\ UNCHANGED <<childVars, faults>>
      BY <1>13, <2>3 DEF SlavePorts, Lives
    <3>2. ports' \in [Conn -> Nat]
      BY <1>0, <3>1 DEF PreprocessAccepts
    <3>3. fro' \in [Conn -> Seq(Message)]
      <4>1. ports'[c] \in Nat
        BY <3>2
      <4>2. (IF GroupOf[c] \in SlaveAccepts
             THEN <<Ack("p2ack", TRUE, 1), Info("ports", ports'[c])>>
             ELSE <<Ack("p2ack", TRUE, 0)>>) \in Seq(Message)
        BY <4>1, MessageTypes
      <4> QED BY <1>7, <3>1, <4>2
    <3>4. spc' \in [Conn -> SlavePC]
      BY <1>5, <3>1 DEF SlavePC
    <3> QED BY <1>0, <1>3, <1>4, <2>1, <3>1, <3>2, <3>3, <3>4
  <2> QED BY <2>2, <2>3
<1>14. CASE SlaveEnd(c)
  <2>1. to' \in [Conn -> Seq(Message)] /\ UNCHANGED <<rx, told, ports, crashed, faults, childVars>>
    BY <1>6, <1>14 DEF SlaveEnd, Sent, daemonVars, faultVars
  <2>2. fro' \in [Conn -> Seq(Message)]
    <3>1. <<Msg("end")>> \in Seq(Message)
      BY MessageTypes
    <3> QED BY <1>7, <1>14, <3>1 DEF SlaveEnd
  <2>3. spc' \in [Conn -> SlavePC]
    BY <1>5, <1>14 DEF SlaveEnd, SlavePC
  <2> QED BY <1>0, <1>3, <1>4, <2>1, <2>2, <2>3
<1>15. CASE SlaveEOF(c)
  BY <1>0, <1>3, <1>8, <1>15 DEF SlaveEOF, faultVars
<1>16. CASE SlaveCrash(c)
  BY <1>0, <1>3, <1>8, <1>16, FaultTyped DEF SlaveCrash
<1> QED BY <1>9, <1>10, <1>11, <1>12, <1>13, <1>14, <1>15, <1>16 DEF SlaveStep

LEMMA TypedUnchanged == Typed /\ UNCHANGED vars => Typed'
BY DEF Typed, TypeOK, CursorInRange, ChildrenCounted, Pending, vars, masterVars, slaveVars, netVars,
   childVars, reapVars, daemonVars, faultVars

LEMMA TypedKept == Typed /\ [Next]_vars => Typed'
BY MasterTyped, DaemonTyped, SlaveTyped, TypedUnchanged DEF Next, Terminated

LEMMA TypedAlways == Spec => []Typed
BY InitTyped, TypedKept, PTL DEF Spec

\* Every variable of the handshake keeps its type; above all, reap_children and the count of
\* children that are left never become negative (slave, sigchld_signal), and the loops of the
\* master stay within their connections and groups.
THEOREM HandshakeTypes == Spec => []TypeOK
<1>1. Typed => TypeOK
  BY DEF Typed
<1> QED BY <1>1, TypedAlways, PTL

\* The daemon never waits for a child that is still running, wherever SIGCHLD interrupts
\* reap_children-- and however many ends of children it stands for (sigchld_signal, slave).
THEOREM NeverBlocks == Spec => []DaemonNeverBlocks
<1>1. Typed => DaemonNeverBlocks
  <2> SUFFICES ASSUME Typed, NEW h \in Host, dpc[h] = "wait" PROVE zombies[h] > 0
    BY DEF DaemonNeverBlocks
  <2>1. ChildrenCounted(h) /\ zombies[h] \in Nat /\ reap[h] \in Nat /\ Pending(h) \in {0, 1}
    BY DEF Typed, TypeOK, Pending
  <2> QED BY <2>1 DEF ChildrenCounted
<1> QED BY <1>1, TypedAlways, PTL

-----------------------------------------------------------------------------
(* The conversation                                                        *)

\* How far the master is with connection c.
Undialled(c) == mpc = "connect" /\ c >= cur
Dialled(c) == \/ mpc = "connect" /\ c < cur
              \/ mpc = "p1" /\ c >= cur
              \/ mpc = "p1ack" /\ c > cur
InPhase1(c) == mpc = "p1ack" /\ c = cur
PastPhase1(c) == \/ mpc \in {"p1", "p1ack"} /\ c < cur
                 \/ mpc = "p2" /\ c >= cur
                 \/ mpc \in {"p2ack", "p2info"} /\ c > cur
InPhase2(c) == mpc = "p2ack" /\ c = cur
InPhase2Info(c) == mpc = "p2info" /\ c = cur
PastPhase2(c) == \/ mpc \in {"p2", "p2ack", "p2info"} /\ c < cur
                 \/ mpc = "spawn"
                 \/ mpc = "end" /\ c >= cur
                 \/ mpc = "endack" /\ c > cur
InEnd(c) == mpc = "endack" /\ c = cur
PastEnd(c) == \/ mpc \in {"end", "endack"} /\ c < cur
              \/ mpc = "run"

\* What the master has to say in phase 2: n are the ports of its strands.
Phase2Writes(c, n) ==
  IF GroupOf[c] \in MasterAccepts THEN <<Info("p2", 1), Msg("group"), Info("info", n)>>
                                  ELSE <<Msg("p2"), Msg("group")>>

\* What is on its way to a slave, by what the slave reads next.
ToSlave(c) ==
  /\ spc[c] = "none" => to[c] = <<>>
  /\ spc[c] = "backlog" => to[c] \in {<<>>, <<Msg("p1")>>}
  /\ spc[c] = "p1" => to[c] \in {<<>>, <<Msg("p1")>>} \cup {Phase2Writes(c, n) : n \in Nat}
  /\ spc[c] = "group" =>
       \/ rx[c] = 0 /\ to[c] = <<Msg("group")>> /\ GroupOf[c] \notin MasterAccepts
       \/ /\ rx[c] = 1 /\ GroupOf[c] \in MasterAccepts
          /\ \E n \in Nat : to[c] = <<Msg("group"), Info("info", n)>>
  /\ spc[c] = "info" => \E n \in Nat : to[c] = <<Info("info", n)>>
  /\ spc[c] \in {"ports", "run"} => to[c] = <<>>
  /\ spc[c] = "end" => to[c] \in {<<>>, <<Msg("end")>>, <<Msg("abort")>>}
  /\ spc[c] \in {"none", "backlog", "p1", "group", "info", "ports"} => known[c] = ports[c]

\* The answer of a slave whose strands listen, or do not.
WithPorts(n) == <<Ack("p2ack", TRUE, 1), Info("ports", n)>>
WithoutPorts == <<Ack("p2ack", TRUE, 0)>>

\* Both directions, while the master is in a phase with c.
Phase1(c) ==
  \/ spc[c] = "dead" /\ fro[c] \in {<<>>} \cup {<<Ack("p1ack", ok, 0)>> : ok \in BOOLEAN}
  \/ spc[c] \in {"backlog", "p1"} /\ to[c] = <<Msg("p1")>> /\ fro[c] = <<>>
  \/ spc[c] = "p1" /\ to[c] = <<>> /\ fro[c] \in {<<Ack("p1ack", ok, 0)>> : ok \in BOOLEAN}

Phase2(c) ==
  \/ /\ spc[c] = "dead"
     /\ fro[c] \in {<<>>} \cup {<<Ack("p2ack", ok, n)>> : ok \in BOOLEAN, n \in Nat}
                        \cup {WithPorts(n) : n \in Nat}
  \/ spc[c] = "p1" /\ to[c] \in {Phase2Writes(c, n) : n \in Nat} /\ fro[c] = <<>>
  \/ spc[c] \in {"group", "info", "ports"} /\ fro[c] = <<>>
  \/ spc[c] = "end" /\ to[c] = <<>> /\ fro[c] = WithPorts(ports[c])
  \/ spc[c] = "end" /\ to[c] = <<>> /\ fro[c] = WithoutPorts /\ known[c] = ports[c]

Phase2Info(c) ==
  \/ spc[c] = "dead" /\ fro[c] \in {<<>>} \cup {<<Info("ports", n)>> : n \in Nat}
  \/ spc[c] = "end" /\ to[c] = <<>> /\ fro[c] = <<Info("ports", ports[c])>>

End(c) ==
  \/ spc[c] = "dead" /\ fro[c] = <<>>
  \/ spc[c] = "end" /\ fro[c] = <<>> /\ known[c] = ports[c]
  \/ spc[c] = "run" /\ fro[c] = <<Msg("end")>> /\ known[c] = ports[c]
  \/ c \in crashed /\ spc[c] = "dead" /\ fro[c] = <<Msg("end")>>

\* What is on its way to the master.
ToMaster(c) ==
  /\ Undialled(c) => spc[c] = "none" /\ fro[c] = <<>>
  /\ Dialled(c) =>
       /\ fro[c] = <<>>
       /\ spc[c] = "dead" \/ (spc[c] \in {"backlog", "p1"} /\ to[c] = <<>>)
  /\ InPhase1(c) => Phase1(c)
  /\ PastPhase1(c) => fro[c] = <<>> /\ (spc[c] = "dead" \/ (spc[c] = "p1" /\ to[c] = <<>>))
  /\ InPhase2(c) => Phase2(c)
  /\ InPhase2Info(c) => Phase2Info(c)
  /\ PastPhase2(c) =>
       /\ fro[c] = <<>>
       /\ spc[c] = "dead" \/ (spc[c] = "end" /\ to[c] = <<>> /\ known[c] = ports[c])
  /\ InEnd(c) => End(c)
  /\ PastEnd(c) => c \in crashed \/ (spc[c] = "run" /\ known[c] = ports[c])

\* Connections wait for accept, or for fork, once, and at the daemon they were made to.
Queued(h) ==
  /\ dpc[h] = "fork" => spc[held[h]] = "backlog" /\ HostOf[held[h]] = h
  /\ \A i \in DOMAIN backlog[h] :
       /\ spc[backlog[h][i]] = "backlog" /\ HostOf[backlog[h][i]] = h
       /\ dpc[h] = "fork" => backlog[h][i] # held[h]
       /\ \A j \in DOMAIN backlog[h] : backlog[h][i] = backlog[h][j] => i = j

Conversation ==
  /\ \A c \in Conn : ToSlave(c) /\ ToMaster(c)
  /\ \A h \in Host : Queued(h)

LEMMA Tuples ==
  /\ \A a : Head(<<a>>) = a /\ Tail(<<a>>) = <<>> /\ <<a>> # <<>> /\ <<>> \o <<a>> = <<a>>
  /\ \A a, b : Head(<<a, b>>) = a /\ Tail(<<a, b>>) = <<b>> /\ <<a, b>> # <<>> /\ <<>> \o <<a, b>> = <<a, b>>
  /\ \A a, b, d : Head(<<a, b, d>>) = a /\ Tail(<<a, b, d>>) = <<b, d>> /\ <<a, b, d>> # <<>>
                  /\ <<>> \o <<a, b, d>> = <<a, b, d>>
OBVIOUS

\* A step that neither brings the master to a phase with d nor touches the connection.
Keeps(d) ==
  /\ Undialled(d)' => Undialled(d)
  /\ Dialled(d)' => Dialled(d)
  /\ InPhase1(d)' => InPhase1(d)
  /\ PastPhase1(d)' => PastPhase1(d)
  /\ InPhase2(d)' => InPhase2(d)
  /\ InPhase2Info(d)' => InPhase2Info(d)
  /\ PastPhase2(d)' => PastPhase2(d)
  /\ InEnd(d)' => InEnd(d)
  /\ PastEnd(d)' => PastEnd(d)

Same(d) ==
  /\ spc'[d] = spc[d] /\ rx'[d] = rx[d] /\ to'[d] = to[d] /\ fro'[d] = fro[d]
  /\ known'[d] = known[d] /\ ports'[d] = ports[d]
  /\ crashed \subseteq crashed'

LEMMA OthersKept ==
  ASSUME NEW d \in Conn, ToSlave(d), ToMaster(d), Keeps(d), Same(d)
  PROVE  ToSlave(d)' /\ ToMaster(d)'
<1>1. ToSlave(d)'
  BY DEF Same, ToSlave, Phase2Writes
<1>2. ToMaster(d)'
  <2>1. /\ Phase1(d) => Phase1(d)'
        /\ Phase2(d) => Phase2(d)'
        /\ Phase2Info(d) => Phase2Info(d)'
        /\ End(d) => End(d)'
    BY DEF Same, Phase1, Phase2, Phase2Info, End, Phase2Writes
  <2> QED BY <2>1 DEF Keeps, Same, ToMaster
<1> QED BY <1>1, <1>2

LEMMA MasterStaysSame == ASSUME UNCHANGED <<mpc, cur>>, NEW d \in Conn PROVE Keeps(d)
BY DEF Keeps, Undialled, Dialled, InPhase1, PastPhase1, InPhase2, InPhase2Info, PastPhase2, InEnd, PastEnd

LEMMA ExitKeeps == ASSUME mpc' = "exit", NEW d \in Conn PROVE Keeps(d)
BY DEF Keeps, Undialled, Dialled, InPhase1, PastPhase1, InPhase2, InPhase2Info, PastPhase2, InEnd, PastEnd

\* The master goes on with one connection at a time.
LEMMA MasterKeeps ==
  ASSUME Typed, MasterStep, NEW d \in Conn, d # cur \/ mpc = "spawn"
  PROVE  Keeps(d)
<1>1. CASE mpc' = "exit"
  BY <1>1, ExitKeeps
<1>2. CASE mpc' # "exit"
  <2>1. cur \in Nat /\ d \in Nat /\ d >= 1 /\ d <= NConn /\ NConn \in Nat
    BY HandshakeAssumption DEF Typed, TypeOK, Conn
  <2>2. mpc \in {"connect", "p1", "p1ack", "p2", "p2ack", "p2info", "end", "endack"} => cur <= NConn
    BY HandshakeAssumption DEF Typed, CursorInRange, Conn
  <2> USE DEF Undialled, Dialled, InPhase1, PastPhase1, InPhase2, InPhase2Info, PastPhase2, InEnd, PastEnd
  <2>3. CASE MasterConnect
    BY <1>2, <2>1, <2>2, <2>3 DEF MasterConnect, ToNext, Fails, Keeps
  <2>4. CASE MasterPhase1
    BY <1>2, <2>1, <2>2, <2>4 DEF MasterPhase1, MasterWrites, Keeps
  <2>5. CASE MasterPhase1Ack
    BY <1>2, <2>1, <2>2, <2>5 DEF MasterPhase1Ack, ToNext, Fails, Keeps
  <2>6. CASE MasterPhase2
    <3>1. mpc = "p2" /\ mpc' = "p2ack" /\ cur' = cur
      BY <1>2, <2>6 DEF MasterPhase2, MasterWrites, Fails
    <3> QED BY <2>1, <2>2, <3>1 DEF Keeps
  <2>7. CASE MasterPhase2Ack
    BY <1>2, <2>1, <2>2, <2>7 DEF MasterPhase2Ack, ToNext, Fails, Keeps
  <2>8. CASE MasterPhase2Info
    BY <1>2, <2>1, <2>2, <2>8 DEF MasterPhase2Info, ToNext, Keeps
  <2>9. CASE MasterSpawn
    BY <1>2, <2>1, <2>9 DEF MasterSpawn, Keeps
  <2>10. CASE MasterSpawnFails
    BY <1>2, <2>10 DEF MasterSpawnFails, Fails
  <2>11. CASE MasterEnd
    BY <1>2, <2>1, <2>2, <2>11 DEF MasterEnd, MasterWrites, Keeps
  <2>12. CASE MasterEndAck
    BY <1>2, <2>1, <2>2, <2>12 DEF MasterEndAck, ToNext, Keeps
  <2>13. CASE MasterEOF
    BY <1>2, <2>13 DEF MasterEOF, Fails
  <2> QED BY <2>3, <2>4, <2>5, <2>6, <2>7, <2>8, <2>9, <2>10, <2>11, <2>12, <2>13 DEF MasterStep
<1> QED BY <1>1, <1>2

LEMMA QueuedKept ==
  ASSUME Typed, NEW h \in Host, Queued(h), UNCHANGED <<dpc, backlog, held>>,
         \A c \in Conn : spc[c] = "backlog" => spc'[c] = "backlog"
  PROVE  Queued(h)'
<1>1. \A i \in DOMAIN backlog[h] : backlog[h][i] \in Conn
  BY DEF Typed, TypeOK
<1>2. dpc[h] = "fork" => held[h] \in Conn
  BY DEF Typed, ChildrenCounted
<1>3. dpc[h] = "fork" => spc'[held[h]] = "backlog"
  BY <1>2 DEF Queued
<1>4. ASSUME NEW i \in DOMAIN backlog[h] PROVE spc'[backlog[h][i]] = "backlog"
  BY <1>1, <1>4 DEF Queued
<1>5. dpc'[h] = dpc[h] /\ backlog'[h] = backlog[h] /\ held'[h] = held[h]
  OBVIOUS
<1> HIDE DEF Queued
<1> QED BY <1>3, <1>4, <1>5 DEF Queued

\* Where the master is with the connection it was at.
LEMMA Comes ==
  ASSUME NEW c \in Conn, cur = c,
         \/ mpc' = "exit"
         \/ /\ ToNext("connect", "p1") /\ fro'[c] = <<>>
            /\ spc'[c] = "dead" \/ (spc'[c] \in {"backlog", "p1"} /\ to'[c] = <<>>)
         \/ mpc' = "p1ack" /\ cur' = c /\ Phase1(c)'
         \/ /\ ToNext("p1", "p2") /\ fro'[c] = <<>>
            /\ spc'[c] = "dead" \/ (spc'[c] = "p1" /\ to'[c] = <<>>)
         \/ mpc' = "p2ack" /\ cur' = c /\ Phase2(c)'
         \/ mpc' = "p2info" /\ cur' = c /\ Phase2Info(c)'
         \/ /\ ToNext("p2", "spawn") /\ fro'[c] = <<>>
            /\ spc'[c] = "dead" \/ (spc'[c] = "end" /\ to'[c] = <<>> /\ known'[c] = ports'[c])
         \/ mpc' = "endack" /\ cur' = c /\ End(c)'
         \/ ToNext("end", "run") /\ (c \in crashed' \/ (spc'[c] = "run" /\ known'[c] = ports'[c]))
  PROVE  ToMaster(c)'
<1>1. c \in Nat /\ c >= 1 /\ c <= NConn /\ NConn \in Nat
  BY HandshakeAssumption DEF Conn
<1> USE DEF ToMaster, Undialled, Dialled, InPhase1, PastPhase1, InPhase2, InPhase2Info, PastPhase2, InEnd, PastEnd
<1>2. CASE mpc' = "exit"
  BY <1>2
<1>3. CASE /\ ToNext("connect", "p1") /\ fro'[c] = <<>>
           /\ spc'[c] = "dead" \/ (spc'[c] \in {"backlog", "p1"} /\ to'[c] = <<>>)
  BY <1>1, <1>3 DEF ToNext
<1>4. CASE mpc' = "p1ack" /\ cur' = c /\ Phase1(c)'
  BY <1>1, <1>4
<1>5. CASE /\ ToNext("p1", "p2") /\ fro'[c] = <<>>
           /\ spc'[c] = "dead" \/ (spc'[c] = "p1" /\ to'[c] = <<>>)
  BY <1>1, <1>5 DEF ToNext
<1>6. CASE mpc' = "p2ack" /\ cur' = c /\ Phase2(c)'
  BY <1>1, <1>6
<1>7. CASE mpc' = "p2info" /\ cur' = c /\ Phase2Info(c)'
  BY <1>1, <1>7
<1>8. CASE /\ ToNext("p2", "spawn") /\ fro'[c] = <<>>
           /\ spc'[c] = "dead" \/ (spc'[c] = "end" /\ to'[c] = <<>> /\ known'[c] = ports'[c])
  BY <1>1, <1>8 DEF ToNext
<1>9. CASE mpc' = "endack" /\ cur' = c /\ End(c)'
  BY <1>1, <1>9
<1>10. CASE ToNext("end", "run") /\ (c \in crashed' \/ (spc'[c] = "run" /\ known'[c] = ports'[c]))
  BY <1>1, <1>10 DEF ToNext
<1> QED BY <1>2, <1>3, <1>4, <1>5, <1>6, <1>7, <1>8, <1>9, <1>10

LEMMA Written ==
  ASSUME TypeOK, NEW c \in Conn, c = cur, NEW ms \in Seq(Message), NEW next, MasterWrites(cur, ms, next)
  PROVE  /\ mpc' \in {next, "exit"}
         /\ \A d \in Conn \ {c} : to'[d] = to[d]
         /\ spc[c] # "dead" => mpc' = next /\ (to[c] = <<>> => to'[c] = ms)
<1>1. to \in [Conn -> Seq(Message)] /\ (to[c] = <<>> => to[c] \o ms = ms)
  <2>1. to \in [Conn -> Seq(Message)]
    BY DEF TypeOK
  <2>2. <<>> \o ms = ms
    BY EmptySeq, ConcatEmptySeq
  <2> QED BY <2>1, <2>2
<1>2. CASE ~SlaveClosed(c) /\ to' = [to EXCEPT ![c] = to[c] \o ms] /\ mpc' = next
  <2>1. to'[c] = to[c] \o ms /\ \A d \in Conn \ {c} : to'[d] = to[d]
    BY <1>1, <1>2
  <2> QED BY <1>1, <1>2, <2>1
<1>3. CASE SlaveClosed(c) /\ to' = to /\ mpc' \in {next, "exit"}
  BY <1>3 DEF SlaveClosed
<1> QED BY <1>2, <1>3 DEF MasterWrites

LEMMA Concatenated ==
  ASSUME NEW S, NEW a \in S, NEW b \in S, NEW d \in S
  PROVE  <<a>> \o <<b>> = <<a, b>> /\ <<a>> \o <<b>> \o <<d>> = <<a, b, d>>
<1>1. /\ <<a>> \in Seq(S) /\ <<b>> \in Seq(S) /\ <<d>> \in Seq(S)
      /\ <<a, b>> \in Seq(S) /\ <<a, b, d>> \in Seq(S)
  OBVIOUS
<1>2. <<a>> \o <<b>> = <<a, b>>
  <2>1. Len(<<a>> \o <<b>>) = Len(<<a, b>>) /\ <<a>> \o <<b>> \in Seq(S)
    BY <1>1, ConcatProperties
  <2>2. \A i \in 1 .. 2 : (<<a>> \o <<b>>)[i] = <<a, b>>[i]
    BY <1>1, ConcatProperties
  <2> QED BY <1>1, <2>1, <2>2, SeqEqual
<1>3. <<a, b>> \o <<d>> = <<a, b, d>>
  <2>1. Len(<<a, b>> \o <<d>>) = Len(<<a, b, d>>) /\ Len(<<a, b, d>>) = 3 /\ <<a, b>> \o <<d>> \in Seq(S)
    BY <1>1, ConcatProperties
  <2>2. \A i \in 1 .. 3 : (<<a, b>> \o <<d>>)[i] = <<a, b, d>>[i]
    BY <1>1, ConcatProperties
  <2> QED BY <1>1, <2>1, <2>2, SeqEqual
<1> QED BY <1>2, <1>3

\* TxGroup and what is around it.
LEMMA Phase2Message ==
  /\ \A n \in Nat : <<Info("p2", 1)>> \o TxGroup \o <<Info("info", n)>> = <<Info("p2", 1), Msg("group"), Info("info", n)>>
  /\ <<Msg("p2")>> \o TxGroup = <<Msg("p2"), Msg("group")>>
<1>1. /\ Msg("p2") \in Message /\ Msg("group") \in Message
      /\ \A n \in Nat : Info("p2", 1) \in Message /\ Info("info", n) \in Message
  BY DEF Message, Msg, Info
<1> QED BY <1>1, Concatenated DEF TxGroup

LEMMA MasterConversation ==
  ASSUME Typed, Conversation, MasterStep
  PROVE  Conversation'
<1>1. /\ to \in [Conn -> Seq(Message)] /\ fro \in [Conn -> Seq(Message)] /\ spc \in [Conn -> SlavePC]
      /\ known \in [Conn -> Nat] /\ listening \in [Group -> Nat] /\ backlog \in [Host -> Seq(Conn)]
      /\ mpc \in {"connect", "p1", "p1ack", "p2", "p2ack", "p2info", "end", "endack"} => cur \in Conn
  BY DEF Typed, TypeOK, CursorInRange
<1>2. /\ \A c \in Conn : ToSlave(c) /\ ToMaster(c)
      /\ \A h \in Host : Queued(h)
  BY DEF Conversation
<1>3. UNCHANGED <<rx, ports, dpc, held, crashed>>
  BY DEF MasterStep, MasterConnect, MasterPhase1, MasterPhase1Ack, MasterPhase2, MasterPhase2Ack,
     MasterPhase2Info, MasterSpawn, MasterSpawnFails, MasterEnd, MasterEndAck, MasterEOF,
     slaveVars, daemonVars, faultVars
<1>4. UNCHANGED <<backlog, spc>> => \A h \in Host : Queued(h)'
  BY <1>2, <1>3, QueuedKept
<1>5. ASSUME NEW c \in Conn, cur = c, ToSlave(c)', ToMaster(c)',
             \A d \in Conn \ {c} : /\ spc'[d] = spc[d] /\ to'[d] = to[d] /\ fro'[d] = fro[d]
                                   /\ known'[d] = known[d],
             \A h \in Host : Queued(h)'
      PROVE  Conversation'
  <2>1. \A d \in Conn \ {c} : Same(d) /\ Keeps(d)
    BY <1>3, <1>5, MasterKeeps DEF Same
  <2>2. \A d \in Conn \ {c} : ToSlave(d)' /\ ToMaster(d)'
    BY <1>2, <2>1, OthersKept
  <2> QED BY <1>5, <2>2 DEF Conversation
<1>6. ASSUME mpc # "spawn" PROVE cur \in Conn
  BY <1>1, <1>6 DEF MasterStep, MasterConnect, MasterPhase1, MasterPhase1Ack, MasterPhase2, MasterPhase2Ack,
     MasterPhase2Info, MasterSpawn, MasterSpawnFails, MasterEnd, MasterEndAck, MasterEOF
<1>7. CASE MasterConnect
  <2>1. PICK c \in Conn : c = cur
    BY <1>6, <1>7 DEF MasterConnect
  <2>2. /\ mpc = "connect" /\ spc[c] = "none" /\ to[c] = <<>> /\ fro[c] = <<>> /\ known[c] = ports[c]
        /\ UNCHANGED <<to, fro, known>>
    <3>1. mpc = "connect" /\ UNCHANGED <<to, fro, known>>
      BY <1>7 DEF MasterConnect, netVars
    <3>2. Undialled(c)
      BY <2>1, <3>1, HandshakeAssumption DEF Undialled, Conn
    <3>3. spc[c] = "none" /\ fro[c] = <<>>
      BY <1>2, <3>2 DEF ToMaster
    <3> QED BY <1>2, <3>1, <3>3 DEF ToSlave
  <2>3. CASE Fault /\ Fails /\ UNCHANGED <<spc, backlog>>
    <3>1. ToSlave(c)'
      BY <1>2, <1>3, <2>2, <2>3 DEF ToSlave, Phase2Writes
    <3>2. ToMaster(c)'
      BY <2>1, <2>3, Comes DEF Fails
    <3> QED BY <1>4, <1>5, <2>1, <2>2, <2>3, <3>1, <3>2
  <2>4. CASE /\ spc' = [spc EXCEPT ![cur] = "backlog"]
             /\ backlog' = [backlog EXCEPT ![HostOf[cur]] = Append(@, cur)]
             /\ ToNext("connect", "p1")
    <3>1. spc'[c] = "backlog" /\ \A d \in Conn \ {c} : spc'[d] = spc[d]
      BY <1>1, <2>1, <2>4
    <3>2. ToSlave(c)'
      BY <1>3, <2>2, <3>1 DEF ToSlave
    <3>3. ToMaster(c)'
      BY <2>1, <2>2, <2>4, <3>1, Comes
    <3>4. ASSUME NEW h \in Host PROVE Queued(h)'
      <4>1. /\ \A i \in DOMAIN backlog[h] : backlog[h][i] \in Conn /\ backlog[h][i] # c
            /\ dpc[h] = "fork" => held[h] \in Conn /\ held[h] # c
        BY <1>1, <1>2, <2>2 DEF Queued, Typed, ChildrenCounted
      <4>2. CASE HostOf[c] # h
        <5>1. backlog'[h] = backlog[h]
          BY <1>1, <2>1, <2>4, <4>2
        <5> QED BY <1>2, <1>3, <3>1, <4>1, <5>1 DEF Queued
      <4>3. CASE HostOf[c] = h
        <5>1. backlog[h] \in Seq(Conn) /\ backlog'[h] = Append(backlog[h], c)
          BY <1>1, <2>1, <2>4, <4>3
        <5>2. /\ DOMAIN backlog'[h] = 1 .. Len(backlog[h]) + 1 /\ Len(backlog[h]) \in Nat
              /\ DOMAIN backlog[h] = 1 .. Len(backlog[h])
              /\ backlog'[h][Len(backlog[h]) + 1] = c
              /\ \A i \in 1 .. Len(backlog[h]) : backlog'[h][i] = backlog[h][i]
          BY <5>1
        <5>3. dpc'[h] = "fork" => spc'[held'[h]] = "backlog" /\ HostOf[held'[h]] = h
          BY <1>2, <1>3, <3>1, <4>1 DEF Queued
        <5>4. ASSUME NEW i \in DOMAIN backlog'[h]
              PROVE  /\ spc'[backlog'[h][i]] = "backlog" /\ HostOf[backlog'[h][i]] = h
                     /\ dpc'[h] = "fork" => backlog'[h][i] # held'[h]
                     /\ \A j \in DOMAIN backlog'[h] : backlog'[h][i] = backlog'[h][j] => i = j
          <6>1. CASE i = Len(backlog[h]) + 1
            BY <1>3, <3>1, <4>1, <4>3, <5>2, <6>1
          <6>2. CASE i \in 1 .. Len(backlog[h])
            <7>1. /\ i \in DOMAIN backlog[h] /\ backlog'[h][i] = backlog[h][i] /\ backlog[h][i] \in Conn
                  /\ backlog[h][i] # c
              BY <4>1, <5>2, <6>2
            <7>2. spc'[backlog'[h][i]] = "backlog" /\ HostOf[backlog'[h][i]] = h
              BY <1>2, <3>1, <7>1 DEF Queued
            <7>3. dpc'[h] = "fork" => backlog'[h][i] # held'[h]
              BY <1>2, <1>3, <7>1 DEF Queued
            <7>4. \A j \in DOMAIN backlog'[h] : backlog'[h][i] = backlog'[h][j] => i = j
              <8>1. \A j \in DOMAIN backlog[h] : backlog[h][i] = backlog[h][j] => i = j
                BY <1>2, <7>1 DEF Queued
              <8> QED BY <5>2, <7>1, <8>1
            <7> QED BY <7>2, <7>3, <7>4
          <6> QED BY <5>2, <5>4, <6>1, <6>2
        <5> QED BY <5>3, <5>4 DEF Queued
      <4> QED BY <4>2, <4>3
    <3> QED BY <1>5, <2>1, <2>2, <3>1, <3>2, <3>3, <3>4
  <2> QED BY <1>7, <2>3, <2>4 DEF MasterConnect
<1>8. CASE MasterPhase1
  <2>1. PICK c \in Conn : c = cur
    BY <1>6, <1>8 DEF MasterPhase1
  <2>2. /\ mpc = "p1" /\ Dialled(c) /\ UNCHANGED <<cur, spc, fro, known, backlog>>
        /\ MasterWrites(cur, <<Msg("p1")>>, "p1ack")
    BY <1>8, <2>1, HandshakeAssumption DEF MasterPhase1, Dialled, Conn, slaveVars, daemonVars
  <2>3. /\ fro[c] = <<>>
        /\ spc[c] = "dead" \/ (spc[c] \in {"backlog", "p1"} /\ to[c] = <<>>)
    BY <1>2, <2>2 DEF ToMaster
  <2>4. /\ mpc' \in {"p1ack", "exit"} /\ \A d \in Conn \ {c} : to'[d] = to[d]
        /\ spc[c] = "dead" \/ to'[c] = <<Msg("p1")>>
    BY <2>1, <2>2, <2>3, Written, MessageTypes DEF Typed
  <2>5. ToSlave(c)'
    BY <1>2, <1>3, <2>2, <2>3, <2>4 DEF ToSlave
  <2>6. Phase1(c)'
    BY <2>2, <2>3, <2>4 DEF Phase1
  <2>7. ToMaster(c)'
    BY <2>1, <2>2, <2>4, <2>6, Comes
  <2> QED BY <1>4, <1>5, <2>1, <2>2, <2>4, <2>5, <2>7
<1>9. CASE MasterPhase1Ack
  <2>1. PICK c \in Conn : c = cur
    BY <1>6, <1>9 DEF MasterPhase1Ack
  <2>2. /\ InPhase1(c) /\ UNCHANGED <<spc, to, known, backlog>> /\ fro[c] # <<>>
        /\ fro' = [fro EXCEPT ![c] = Tail(@)]
        /\ ToNext("p1", "p2") \/ mpc' = "exit"
    BY <1>9, <2>1 DEF MasterPhase1Ack, Came, InPhase1, slaveVars, daemonVars, Fails
  <2>3. Phase1(c)
    BY <1>2, <2>2 DEF ToMaster
  <2>4. /\ fro'[c] = <<>> /\ \A d \in Conn \ {c} : fro'[d] = fro[d]
        /\ spc[c] = "dead" \/ (spc[c] = "p1" /\ to[c] = <<>>)
    BY <1>1, <2>2, <2>3, Tuples DEF Phase1
  <2>5. ToSlave(c)'
    BY <1>2, <1>3, <2>2 DEF ToSlave, Phase2Writes
  <2>6. ToMaster(c)'
    BY <2>1, <2>2, <2>4, Comes
  <2> QED BY <1>4, <1>5, <2>1, <2>2, <2>4, <2>5, <2>6
<1>10. CASE MasterPhase2
  <2>1. PICK c \in Conn : c = cur
    BY <1>6, <1>10 DEF MasterPhase2
  <2>2. PastPhase1(c) /\ UNCHANGED <<spc, fro, known, backlog>>
    BY <1>10, <2>1, HandshakeAssumption DEF MasterPhase2, PastPhase1, Conn, slaveVars, daemonVars
  <2>3. fro[c] = <<>> /\ (spc[c] = "dead" \/ (spc[c] = "p1" /\ to[c] = <<>>))
    BY <1>2, <2>2 DEF ToMaster
  <2>4. CASE Fails /\ UNCHANGED to
    <3>1. ToSlave(c)'
      BY <1>2, <1>3, <2>2, <2>4 DEF ToSlave, Phase2Writes
    <3>2. ToMaster(c)'
      BY <2>1, <2>4, Comes DEF Fails
    <3> QED BY <1>4, <1>5, <2>1, <2>2, <2>4, <3>1, <3>2
  <2>5. CASE ~(Fails /\ UNCHANGED to)
    <3> DEFINE accepts == GroupOf[cur] \in MasterAccepts
               port == PreprocessAccepts(listening[Ssid(cur)], accepts)
               ms == IF accepts THEN <<Info("p2", 1)>> \o TxGroup \o <<Info("info", port)>>
                                ELSE <<Msg("p2")>> \o TxGroup
    <3>1. MasterWrites(cur, ms, "p2ack") /\ UNCHANGED cur
      BY <1>10, <2>5 DEF MasterPhase2
    <3>2. port \in Nat
      BY <1>1, <2>1, Constants DEF PreprocessAccepts, Ssid
    <3>3. ms \in Seq(Message) /\ ms = Phase2Writes(c, port)
      BY <2>1, <3>2, MessageTypes, Phase2Message DEF Phase2Writes
    <3> HIDE DEF ms, port
    <3>4. /\ mpc' \in {"p2ack", "exit"} /\ \A d \in Conn \ {c} : to'[d] = to[d]
          /\ spc[c] = "dead" \/ to'[c] = ms
      BY <2>1, <2>3, <3>1, <3>3, Written DEF Typed
    <3>5. ToSlave(c)'
      BY <1>2, <1>3, <2>2, <2>3, <3>2, <3>3, <3>4 DEF ToSlave, Phase2Writes
    <3>6. Phase2(c)'
      BY <2>2, <2>3, <3>2, <3>3, <3>4 DEF Phase2, Phase2Writes
    <3>7. ToMaster(c)'
      BY <2>1, <3>1, <3>4, <3>6, Comes
    <3> QED BY <1>4, <1>5, <2>1, <2>2, <3>4, <3>5, <3>7
  <2> QED BY <2>4, <2>5
<1>11. CASE MasterPhase2Ack
  <2>1. PICK c \in Conn : c = cur
    BY <1>6, <1>11 DEF MasterPhase2Ack
  <2>2. /\ InPhase2(c) /\ UNCHANGED <<spc, to, known, backlog>> /\ fro[c] # <<>>
        /\ fro' = [fro EXCEPT ![c] = Tail(@)]
        /\ \/ mpc' = "exit"
           \/ Head(fro[c]).n > 0 /\ mpc' = "p2info" /\ cur' = c
           \/ Head(fro[c]).n = 0 /\ ToNext("p2", "spawn")
    BY <1>11, <2>1 DEF MasterPhase2Ack, Came, InPhase2, slaveVars, daemonVars, Fails
  <2>3. Phase2(c)
    BY <1>2, <2>2 DEF ToMaster
  <2>4. fro'[c] = Tail(fro[c]) /\ \A d \in Conn \ {c} : fro'[d] = fro[d]
    BY <1>1, <2>2
  <2>5. ToSlave(c)'
    BY <1>2, <1>3, <2>2 DEF ToSlave, Phase2Writes
  <2>6. ToMaster(c)'
    <3>0. \/ spc[c] = "dead" /\ (Tail(fro[c]) = <<>> \/ (Head(fro[c]).n > 0 /\ \E n \in Nat : Tail(fro[c]) = <<Info("ports", n)>>))
          \/ spc[c] = "end" /\ to[c] = <<>> /\ Head(fro[c]).n = 1 /\ Tail(fro[c]) = <<Info("ports", ports[c])>>
          \/ spc[c] = "end" /\ to[c] = <<>> /\ Tail(fro[c]) = <<>> /\ Head(fro[c]).n = 0 /\ known[c] = ports[c]
      <4>1. \A ok, n : /\ Head(<<Ack("p2ack", ok, n)>>).n = n
                      /\ Tail(<<Ack("p2ack", ok, n)>>) = <<>>
        BY Tuples DEF Ack
      <4>2. \A n : Head(WithPorts(n)).n = 1 /\ Tail(WithPorts(n)) = <<Info("ports", n)>>
        BY Tuples DEF Ack, WithPorts
      <4>0. Head(WithoutPorts).n = 0 /\ Tail(WithoutPorts) = <<>>
        BY Tuples DEF Ack, WithoutPorts
      <4>3. CASE spc[c] = "dead"
        <5>1. CASE \E n \in Nat : fro[c] = WithPorts(n)
          BY <4>2, <4>3, <5>1
        <5>2. CASE \E ok \in BOOLEAN, n \in Nat : fro[c] = <<Ack("p2ack", ok, n)>>
          BY <4>1, <4>3, <5>2
        <5>3. fro[c] # <<>> /\ (\/ \E n \in Nat : fro[c] = WithPorts(n)
                               \/ \E ok \in BOOLEAN, n \in Nat : fro[c] = <<Ack("p2ack", ok, n)>>)
          BY <2>2, <2>3, <4>3 DEF Phase2
        <5> QED BY <5>1, <5>2, <5>3
      <4>4. CASE spc[c] = "end" /\ to[c] = <<>> /\ fro[c] = WithPorts(ports[c])
        BY <4>2, <4>4
      <4>5. CASE spc[c] = "end" /\ to[c] = <<>> /\ fro[c] = WithoutPorts /\ known[c] = ports[c]
        BY <4>0, <4>5
      <4> QED BY <2>2, <2>3, <4>3, <4>4, <4>5 DEF Phase2
    <3>1. CASE mpc' = "exit"
      BY <2>1, <3>1, Comes
    <3>2. CASE Head(fro[c]).n > 0 /\ mpc' = "p2info" /\ cur' = c
      <4>1. Phase2Info(c)'
        <5>1. spc'[c] = spc[c] /\ to'[c] = to[c] /\ ports'[c] = ports[c]
          BY <1>3, <2>2
        <5>2. CASE spc[c] = "dead" /\ Tail(fro[c]) = <<>>
          BY <2>4, <5>1, <5>2 DEF Phase2Info
        <5>3. CASE spc[c] = "dead" /\ \E n \in Nat : Tail(fro[c]) = <<Info("ports", n)>>
          BY <2>4, <5>1, <5>3 DEF Phase2Info
        <5>4. CASE spc[c] = "end" /\ to[c] = <<>> /\ Tail(fro[c]) = <<Info("ports", ports[c])>>
          BY <2>4, <5>1, <5>4 DEF Phase2Info
        <5>5. ~(Head(fro[c]).n = 0)
          BY <3>2
        <5> QED BY <3>0, <5>2, <5>3, <5>4, <5>5
      <4> QED BY <2>1, <3>2, <4>1, Comes
    <3>3. CASE Head(fro[c]).n = 0 /\ ToNext("p2", "spawn")
      <4>1. fro'[c] = <<>> /\ (spc[c] = "dead" \/ (spc[c] = "end" /\ to[c] = <<>> /\ known[c] = ports[c]))
        <5>1. ~(Head(fro[c]).n > 0) /\ Head(fro[c]).n # 1
          BY <3>3
        <5> QED BY <2>4, <3>0, <5>1
      <4> QED BY <1>3, <2>1, <2>2, <3>3, <4>1, Comes
    <3> QED BY <2>2, <3>1, <3>2, <3>3
  <2> QED BY <1>4, <1>5, <2>1, <2>2, <2>4, <2>5, <2>6
<1>12. CASE MasterPhase2Info
  <2>1. PICK c \in Conn : c = cur
    BY <1>6, <1>12 DEF MasterPhase2Info
  <2>2. /\ InPhase2Info(c) /\ UNCHANGED <<spc, to, backlog>> /\ fro[c] # <<>>
        /\ fro' = [fro EXCEPT ![c] = Tail(@)] /\ known' = [known EXCEPT ![c] = Head(fro[c]).n]
        /\ ToNext("p2", "spawn")
    BY <1>12, <2>1 DEF MasterPhase2Info, Came, InPhase2Info, Learn, slaveVars, daemonVars
  <2>3. Phase2Info(c)
    BY <1>2, <2>2 DEF ToMaster
  <2>4. /\ fro'[c] = Tail(fro[c]) /\ known'[c] = Head(fro[c]).n
        /\ \A d \in Conn \ {c} : fro'[d] = fro[d] /\ known'[d] = known[d]
    BY <1>1, <2>2
  <2>5. fro'[c] = <<>> /\ (spc[c] = "dead" \/ (spc[c] = "end" /\ to[c] = <<>> /\ known'[c] = ports[c]))
    <3>1. \A n : Head(<<Info("ports", n)>>).n = n /\ Tail(<<Info("ports", n)>>) = <<>>
      BY Tuples DEF Info
    <3>2. CASE spc[c] = "dead"
      <4>1. \E n \in Nat : fro[c] = <<Info("ports", n)>>
        BY <2>2, <2>3, <3>2 DEF Phase2Info
      <4> QED BY <2>4, <3>1, <3>2, <4>1
    <3>3. CASE spc[c] = "end" /\ to[c] = <<>> /\ fro[c] = <<Info("ports", ports[c])>>
      BY <2>4, <3>1, <3>3
    <3> QED BY <2>3, <3>2, <3>3 DEF Phase2Info
  <2>6. ToSlave(c)'
    BY <1>2, <1>3, <2>2, <2>5 DEF ToSlave
  <2>7. ToMaster(c)'
    BY <1>3, <2>1, <2>2, <2>5, Comes
  <2> QED BY <1>4, <1>5, <2>1, <2>2, <2>4, <2>6, <2>7
<1>13. CASE MasterSpawn
  <2>1. UNCHANGED <<spc, to, fro, known, backlog>> /\ mpc = "spawn"
    BY <1>13 DEF MasterSpawn, slaveVars, netVars, daemonVars
  <2>2. \A d \in Conn : Same(d) /\ Keeps(d)
    BY <1>3, <2>1, MasterKeeps DEF Same
  <2> QED BY <1>2, <1>4, <2>1, <2>2, OthersKept DEF Conversation
<1>14. CASE MasterSpawnFails
  <2>1. UNCHANGED <<spc, fro, known, backlog>> /\ mpc = "spawn" /\ mpc' = "exit"
    BY <1>14 DEF MasterSpawnFails, Fails, slaveVars, daemonVars
  <2>2. ASSUME NEW d \in Conn PROVE ToSlave(d)' /\ ToMaster(d)'
    <3>1. PastPhase2(d)
      BY <2>1 DEF PastPhase2
    <3>2. spc[d] = "dead" \/ (spc[d] = "end" /\ to[d] = <<>>)
      BY <1>2, <3>1 DEF ToMaster
    <3>3. to'[d] = to[d] \/ to'[d] = Append(to[d], Msg("abort"))
      BY <1>14 DEF MasterSpawnFails
    <3>4. Append(<<>>, Msg("abort")) = <<Msg("abort")>>
      OBVIOUS
    <3>5. ToSlave(d)'
      BY <1>3, <2>1, <3>2, <3>3, <3>4 DEF ToSlave
    <3>6. ToMaster(d)'
      BY <2>1 DEF ToMaster, Undialled, Dialled, InPhase1, PastPhase1, InPhase2, InPhase2Info,
                  PastPhase2, InEnd, PastEnd
    <3> QED BY <3>5, <3>6
  <2> QED BY <1>4, <2>1, <2>2 DEF Conversation
<1>15. CASE MasterEnd
  <2>1. PICK c \in Conn : c = cur
    BY <1>6, <1>15 DEF MasterEnd
  <2>2. /\ mpc = "end" /\ PastPhase2(c) /\ UNCHANGED <<cur, spc, fro, known, backlog>>
        /\ MasterWrites(cur, <<Msg("end")>>, "endack")
    BY <1>15, <2>1, HandshakeAssumption DEF MasterEnd, PastPhase2, Conn, slaveVars, daemonVars
  <2>3. /\ fro[c] = <<>>
        /\ spc[c] = "dead" \/ (spc[c] = "end" /\ to[c] = <<>> /\ known[c] = ports[c])
    BY <1>2, <2>2 DEF ToMaster
  <2>4. /\ mpc' \in {"endack", "exit"} /\ \A d \in Conn \ {c} : to'[d] = to[d]
        /\ spc[c] = "dead" \/ to'[c] = <<Msg("end")>>
    BY <2>1, <2>2, <2>3, Written, MessageTypes DEF Typed
  <2>5. ToSlave(c)'
    BY <1>2, <1>3, <2>2, <2>3, <2>4 DEF ToSlave
  <2>6. End(c)'
    BY <1>3, <2>2, <2>3, <2>4 DEF End
  <2>7. ToMaster(c)'
    BY <2>1, <2>2, <2>4, <2>6, Comes
  <2> QED BY <1>4, <1>5, <2>1, <2>2, <2>4, <2>5, <2>7
<1>16. CASE MasterEndAck
  <2>1. PICK c \in Conn : c = cur
    BY <1>6, <1>16 DEF MasterEndAck
  <2>2. /\ InEnd(c) /\ UNCHANGED <<spc, to, known, backlog>> /\ fro[c] # <<>>
        /\ \A d \in Conn \ {c} : fro'[d] = fro[d]
        /\ ToNext("end", "run")
    BY <1>1, <1>16, <2>1 DEF MasterEndAck, EndAcked, Came, InEnd, slaveVars, daemonVars
  <2>3. End(c)
    BY <1>2, <2>2 DEF ToMaster
  <2>4. c \in crashed \/ (spc[c] = "run" /\ known[c] = ports[c])
    BY <2>2, <2>3 DEF End
  <2>5. ToSlave(c)'
    BY <1>2, <1>3, <2>2 DEF ToSlave, Phase2Writes
  <2>6. ToMaster(c)'
    BY <1>3, <2>1, <2>2, <2>4, Comes
  <2> QED BY <1>4, <1>5, <2>1, <2>2, <2>5, <2>6
<1>17. CASE MasterEOF
  <2>1. PICK c \in Conn : c = cur
    BY <1>6, <1>17 DEF MasterEOF
  <2>2. mpc' = "exit" /\ UNCHANGED <<spc, to, fro, known, backlog>>
    BY <1>17 DEF MasterEOF, Fails, slaveVars, netVars, daemonVars
  <2>3. ToSlave(c)'
    BY <1>2, <1>3, <2>2 DEF ToSlave, Phase2Writes
  <2> QED BY <1>4, <1>5, <2>1, <2>2, <2>3, Comes
<1> QED BY <1>7, <1>8, <1>9, <1>10, <1>11, <1>12, <1>13, <1>14, <1>15, <1>16, <1>17 DEF MasterStep

LEMMA DaemonConversation ==
  ASSUME NEW h \in Host, Typed, Conversation, DaemonStep(h) \/ SigChld(h)
  PROVE  Conversation'
<1>1. /\ spc \in [Conn -> SlavePC] /\ dpc \in [Host -> DaemonPC] /\ held \in [Host -> Conn \cup {None}]
      /\ backlog \in [Host -> Seq(Conn)]
      /\ \A k \in Host : dpc[k] = "fork" => held[k] \in Conn
  BY DEF Typed, TypeOK, ChildrenCounted
<1>2. /\ \A c \in Conn : ToSlave(c) /\ ToMaster(c)
      /\ \A k \in Host : Queued(k)
  BY DEF Conversation
<1>3. UNCHANGED <<mpc, cur, known, rx, ports, to, fro, crashed>>
  BY DEF DaemonStep, DaemonAccept, DaemonFork, DaemonClose, DaemonIdle, DaemonWait, DaemonLoad,
     DaemonStore, SigChld, masterVars, slaveVars, netVars, faultVars
<1>4. ASSUME NEW c \in Conn, spc'[c] = spc[c] PROVE ToSlave(c)' /\ ToMaster(c)'
  <2>1. Same(c) /\ Keeps(c)
    BY <1>3, <1>4, MasterStaysSame DEF Same
  <2> QED BY <1>2, <2>1, OthersKept
\* The other daemons' connections are not this one's.
<1>5. ASSUME NEW k \in Host \ {h}, dpc'[k] = dpc[k], held'[k] = held[k], backlog'[k] = backlog[k],
             \A c \in Conn : HostOf[c] # h => spc'[c] = spc[c]
      PROVE  Queued(k)'
  <2>1. \A i \in DOMAIN backlog[k] : backlog[k][i] \in Conn
    BY <1>1
  <2>2. dpc[k] = "fork" => spc'[held[k]] = "backlog" /\ HostOf[held[k]] = k
    BY <1>1, <1>2, <1>5 DEF Queued
  <2>3. \A i \in DOMAIN backlog[k] : spc'[backlog[k][i]] = "backlog"
    BY <1>2, <1>5, <2>1 DEF Queued
  <2> QED BY <1>2, <1>5, <2>2, <2>3 DEF Queued
<1>6. CASE DaemonFork(h)
  <2>1. PICK c \in Conn : c = held[h]
    BY <1>1, <1>6 DEF DaemonFork
  <2>2. /\ dpc[h] = "fork" /\ UNCHANGED <<backlog, held>> /\ dpc' = [dpc EXCEPT ![h] = "close"]
        /\ spc'[c] \in {"p1", "dead"} /\ \A d \in Conn \ {c} : spc'[d] = spc[d]
    BY <1>1, <1>6, <2>1 DEF DaemonFork
  <2>3. spc[c] = "backlog" /\ HostOf[c] = h
    BY <1>2, <2>1, <2>2 DEF Queued
  <2>4. ToSlave(c)'
    <3>1. to[c] \in {<<>>, <<Msg("p1")>>} /\ known[c] = ports[c]
      BY <1>2, <2>3 DEF ToSlave
    <3> QED BY <1>3, <2>2, <3>1 DEF ToSlave
  <2>5. ToMaster(c)'
    <3>1. /\ ~Undialled(c) /\ ~PastPhase1(c) /\ ~InPhase2(c) /\ ~InPhase2Info(c) /\ ~PastPhase2(c) /\ ~InEnd(c)
          /\ Dialled(c) => fro[c] = <<>> /\ to[c] = <<>>
          /\ PastEnd(c) => c \in crashed
      BY <1>2, <2>3 DEF ToMaster, Phase2, Phase2Info, End
    <3>2. InPhase1(c) => fro[c] = <<>> /\ to[c] = <<Msg("p1")>>
      BY <1>2, <2>3 DEF ToMaster, Phase1
    <3>3. Keeps(c)
      BY <1>3, MasterStaysSame
    <3>4. InPhase1(c) => Phase1(c)'
      BY <1>3, <2>2, <3>2 DEF Phase1
    <3> QED BY <1>3, <2>2, <3>1, <3>3, <3>4 DEF ToMaster, Keeps
  <2>6. Queued(h)'
    <3>1. \A i \in DOMAIN backlog[h] : backlog[h][i] \in Conn /\ backlog[h][i] # c
      BY <1>1, <1>2, <2>1, <2>2 DEF Queued
    <3>2. dpc'[h] = "close"
      BY <1>1, <2>2
    <3> QED BY <1>2, <2>2, <3>1, <3>2 DEF Queued
  <2>7. \A k \in Host \ {h} : Queued(k)'
    BY <1>1, <1>5, <2>2, <2>3
  <2> QED BY <1>4, <2>2, <2>4, <2>5, <2>6, <2>7 DEF Conversation
<1>7. ASSUME UNCHANGED spc, Queued(h)',
             \A k \in Host \ {h} : dpc'[k] = dpc[k] /\ held'[k] = held[k] /\ backlog'[k] = backlog[k]
      PROVE  Conversation'
  BY <1>4, <1>5, <1>7 DEF Conversation
<1>8. CASE DaemonAccept(h)
  <2>1. /\ UNCHANGED spc /\ backlog[h] # <<>>
        /\ held'[h] = Head(backlog[h]) /\ backlog'[h] = Tail(backlog[h])
        /\ \A k \in Host \ {h} : dpc'[k] = dpc[k] /\ held'[k] = held[k] /\ backlog'[k] = backlog[k]
    BY <1>1, <1>8 DEF DaemonAccept, slaveVars
  <2>2. /\ Len(backlog[h]) \in Nat \ {0} /\ DOMAIN backlog[h] = 1 .. Len(backlog[h])
        /\ Head(backlog[h]) = backlog[h][1]
        /\ DOMAIN Tail(backlog[h]) = 1 .. Len(backlog[h]) - 1
        /\ \A i \in 1 .. Len(backlog[h]) - 1 : Tail(backlog[h])[i] = backlog[h][i + 1]
    BY <1>1, <2>1
  <2>3. Queued(h)'
    <3>1. spc'[held'[h]] = "backlog" /\ HostOf[held'[h]] = h
      BY <1>2, <2>1, <2>2 DEF Queued
    <3>2. ASSUME NEW i \in DOMAIN backlog'[h]
          PROVE  /\ spc'[backlog'[h][i]] = "backlog" /\ HostOf[backlog'[h][i]] = h
                 /\ backlog'[h][i] # held'[h]
                 /\ \A j \in DOMAIN backlog'[h] : backlog'[h][i] = backlog'[h][j] => i = j
      <4>1. i \in Nat /\ i + 1 \in DOMAIN backlog[h] /\ 1 \in DOMAIN backlog[h] /\ i + 1 # 1
            /\ backlog'[h][i] = backlog[h][i + 1]
        BY <2>1, <2>2, <3>2
      <4>2. ASSUME NEW j \in DOMAIN backlog'[h], backlog'[h][i] = backlog'[h][j] PROVE i = j
        <5>1. j \in Nat /\ j + 1 \in DOMAIN backlog[h] /\ backlog'[h][j] = backlog[h][j + 1]
          BY <2>1, <2>2, <4>2
        <5>2. \A a, b \in DOMAIN backlog[h] : backlog[h][a] = backlog[h][b] => a = b
          BY <1>2 DEF Queued
        <5>3. backlog[h][i + 1] = backlog[h][j + 1]
          BY <4>1, <4>2, <5>1
        <5>4. i + 1 = j + 1
          BY <4>1, <5>1, <5>2, <5>3
        <5> QED BY <4>1, <5>1, <5>4
      <4>3. backlog'[h][i] # held'[h]
        BY <1>2, <2>1, <2>2, <4>1 DEF Queued
      <4>4. spc'[backlog'[h][i]] = "backlog" /\ HostOf[backlog'[h][i]] = h
        BY <1>2, <2>1, <4>1 DEF Queued
      <4> QED BY <4>2, <4>3, <4>4
    <3> QED BY <3>1, <3>2 DEF Queued
  <2> QED BY <1>7, <2>1, <2>3
<1>9. CASE /\ UNCHANGED <<spc, backlog>> /\ dpc'[h] # "fork"
           /\ \A k \in Host \ {h} : dpc'[k] = dpc[k] /\ held'[k] = held[k]
  <2>1. Queued(h)'
    BY <1>2, <1>9 DEF Queued
  <2> QED BY <1>7, <1>9, <2>1
<1>10. CASE UNCHANGED <<spc, backlog, dpc, held>>
  <2>1. Queued(h)'
    BY <1>2, <1>10 DEF Queued
  <2> QED BY <1>7, <1>10, <2>1
<1>11. CASE DaemonClose(h)
  BY <1>1, <1>9, <1>11 DEF DaemonClose, ParentCloses, slaveVars
<1>12. CASE DaemonIdle(h)
  BY <1>1, <1>9, <1>12 DEF DaemonIdle, slaveVars
<1>13. CASE DaemonWait(h)
  BY <1>1, <1>9, <1>13 DEF DaemonWait, slaveVars
<1>14. CASE DaemonLoad(h)
  BY <1>1, <1>9, <1>14 DEF DaemonLoad, slaveVars
<1>15. CASE DaemonStore(h)
  BY <1>1, <1>9, <1>15 DEF DaemonStore, slaveVars
<1>16. CASE SigChld(h)
  BY <1>10, <1>16 DEF SigChld, slaveVars
<1> QED BY <1>6, <1>8, <1>11, <1>12, <1>13, <1>14, <1>15, <1>16 DEF DaemonStep

\* A slave that exits or dies leaves what it has written, or nothing.
LEMMA Gone ==
  ASSUME Typed, NEW c \in Conn, ToMaster(c), UNCHANGED <<mpc, cur>>, crashed \subseteq crashed',
         spc[c] \notin {"none", "backlog", "dead"}, spc'[c] = "dead",
         spc[c] = "run" => mpc = "exit" \/ c \in crashed',
         \/ fro'[c] \in {fro[c], <<>>}
         \/ /\ spc[c] \in {"group", "ports"}
            /\ \E ok \in BOOLEAN, n \in Nat : fro'[c] = fro[c] \o <<Ack("p2ack", ok, n)>>
  PROVE  ToSlave(c)' /\ ToMaster(c)'
<1>1. ToSlave(c)'
  BY DEF ToSlave
<1>2. ports[c] \in Nat
  BY DEF Typed, TypeOK
<1>3. Keeps(c)
  BY MasterStaysSame
<1>4. ~Undialled(c) /\ (Dialled(c) => fro'[c] = <<>>) /\ (PastPhase1(c) => fro'[c] = <<>>)
      /\ (PastPhase2(c) => fro'[c] = <<>>)
  BY DEF ToMaster
<1>5. InPhase1(c) => Phase1(c)'
  BY DEF ToMaster, Phase1
<1>6. ASSUME InPhase2(c) PROVE Phase2(c)'
  <2>1. Phase2(c)
    BY <1>6 DEF ToMaster
  <2>2. CASE fro'[c] \in {fro[c], <<>>}
    <3>1. fro[c] = <<>> \/ fro[c] = WithPorts(ports[c]) \/ fro[c] = WithoutPorts
      BY <2>1 DEF Phase2
    <3>2. WithoutPorts \in {<<Ack("p2ack", ok, n)>> : ok \in BOOLEAN, n \in Nat}
      <4> DEFINE acks == {<<Ack("p2ack", ok, n)>> : ok \in BOOLEAN, n \in Nat}
      <4>1. \A ok \in BOOLEAN, n \in Nat : <<Ack("p2ack", ok, n)>> \in acks
        OBVIOUS
      <4> HIDE DEF acks
      <4>2. TRUE \in BOOLEAN /\ 0 \in Nat
        OBVIOUS
      <4>3. <<Ack("p2ack", TRUE, 0)>> \in acks
        BY ONLY <4>1, <4>2, Zenon
      <4>4. WithoutPorts \in acks
        BY <4>3 DEF WithoutPorts
      <4> QED BY <4>4 DEF acks
    <3>3. WithPorts(ports[c]) \in {WithPorts(n) : n \in Nat}
      BY <1>2
    <3> QED BY <2>2, <3>1, <3>2, <3>3 DEF Phase2
  <2>3. CASE /\ spc[c] \in {"group", "ports"}
             /\ \E ok \in BOOLEAN, n \in Nat : fro'[c] = fro[c] \o <<Ack("p2ack", ok, n)>>
    <3>1. fro[c] = <<>>
      BY <2>1, <2>3 DEF Phase2
    <3>2. \A ok, n : fro[c] \o <<Ack("p2ack", ok, n)>> = <<Ack("p2ack", ok, n)>>
      BY <3>1, Tuples
    <3>3. fro'[c] \in {<<Ack("p2ack", ok, n)>> : ok \in BOOLEAN, n \in Nat}
      BY <2>3, <3>2
    <3> QED BY <3>3 DEF Phase2
  <2> QED BY <2>2, <2>3
<1>7. InPhase2Info(c) => Phase2Info(c)'
  BY <1>2 DEF ToMaster, Phase2Info
<1>8. InEnd(c) => End(c)'
  BY DEF ToMaster, End, InEnd
<1>9. PastEnd(c) => c \in crashed'
  BY DEF ToMaster, PastEnd
<1> QED BY <1>1, <1>3, <1>4, <1>5, <1>6, <1>7, <1>8, <1>9 DEF Keeps, ToMaster

LEMMA SlaveConversation ==
  ASSUME NEW c \in Conn, Typed, Conversation, SlaveStep(c) \/ SlaveCrash(c)
  PROVE  Conversation'
<1>1. /\ spc \in [Conn -> SlavePC] /\ rx \in [Conn -> Nat] /\ ports \in [Conn -> Nat]
      /\ to \in [Conn -> Seq(Message)] /\ fro \in [Conn -> Seq(Message)]
  BY DEF Typed, TypeOK
<1>2. /\ \A d \in Conn : ToSlave(d) /\ ToMaster(d)
      /\ \A h \in Host : Queued(h)
  BY DEF Conversation
<1>3. UNCHANGED <<mpc, cur, known, dpc, backlog, held>> /\ crashed \subseteq crashed'
  BY DEF SlaveStep, SlavePhase1, SlavePhase2, SlaveGroup, SlaveInfo, SlavePorts, SlaveEnd, SlaveEOF,
     SlaveCrash, masterVars, daemonVars, faultVars
<1>4. spc[c] \in {"p1", "group", "info", "ports", "end", "run"}
  BY <1>1 DEF SlaveStep, SlavePhase1, SlavePhase2, SlaveGroup, SlaveInfo, SlavePorts, SlaveEnd, SlaveEOF,
     SlaveCrash, SlavePC
\* It is enough to look at the slave's own connection.
<1>5. ASSUME ToSlave(c)', ToMaster(c)',
             \A d \in Conn \ {c} : /\ spc'[d] = spc[d] /\ rx'[d] = rx[d] /\ to'[d] = to[d]
                                   /\ fro'[d] = fro[d] /\ ports'[d] = ports[d]
      PROVE  Conversation'
  <2>1. \A d \in Conn \ {c} : Same(d) /\ Keeps(d)
    BY <1>3, <1>5, MasterStaysSame DEF Same
  <2>2. \A d \in Conn \ {c} : ToSlave(d)' /\ ToMaster(d)'
    BY <1>2, <2>1, OthersKept
  <2>3. \A d \in Conn : spc[d] = "backlog" => spc'[d] = "backlog"
    BY <1>4, <1>5
  <2>4. \A h \in Host : Queued(h)'
    BY <1>2, <1>3, <2>3, QueuedKept
  <2> QED BY <1>5, <2>2, <2>4 DEF Conversation
<1>6. Keeps(c)
  BY <1>3, MasterStaysSame
<1>7. ASSUME NEW ms \in Seq(Message), Exits(c, ms), UNCHANGED <<rx, ports>>,
             \A d \in Conn \ {c} : to'[d] = to[d],
             spc[c] = "run" => mpc = "exit" \/ c \in crashed',
             \/ ms = <<>>
             \/ spc[c] \in {"group", "ports"} /\ \E ok \in BOOLEAN, n \in Nat : ms = <<Ack("p2ack", ok, n)>>
      PROVE  Conversation'
  <2>1. PICK q \in {fro[c] \o ms, <<>>} : fro' = [fro EXCEPT ![c] = q]
    BY <1>7 DEF Exits
  <2>2. spc'[c] = "dead" /\ \A d \in Conn \ {c} : spc'[d] = spc[d]
    BY <1>1, <1>7 DEF Exits, Goto
  <2>3. fro'[c] \in {fro[c] \o ms, <<>>} /\ \A d \in Conn \ {c} : fro'[d] = fro[d]
    BY <1>1, <2>1
  <2>4. fro[c] \o <<>> = fro[c]
    BY <1>1
  <2>5. ToSlave(c)' /\ ToMaster(c)'
    BY <1>2, <1>3, <1>4, <1>7, <2>2, <2>3, <2>4, Gone
  <2> QED BY <1>5, <1>7, <2>2, <2>3, <2>5
<1>8. ASSUME ExitsWithFailure(c), UNCHANGED <<rx, ports>>, \A d \in Conn \ {c} : to'[d] = to[d],
             spc[c] \in {"group", "ports"}
      PROVE  Conversation'
  <2>1. PICK ok \in BOOLEAN, n \in 0 .. 1 : Exits(c, <<Ack("p2ack", ok, n)>>)
    BY <1>8 DEF ExitsWithFailure
  <2>2. <<Ack("p2ack", ok, n)>> \in Seq(Message) /\ n \in Nat
    BY MessageTypes
  <2> QED BY <1>7, <1>8, <2>1, <2>2
<1>9. <<>> \in Seq(Message)
  OBVIOUS
<1>10. CASE SlavePhase1(c)
  <2>1. /\ spc[c] = "p1" /\ to[c] # <<>> /\ Head(to[c]).kind = "p1"
        /\ to' = [to EXCEPT ![c] = Tail(@)] /\ UNCHANGED <<spc, rx, ports>>
        /\ \E ok \in BOOLEAN : fro' = [fro EXCEPT ![c] = @ \o <<Ack("p1ack", ok, 0)>>]
    BY <1>10 DEF SlavePhase1, Sent, Take, Reply, slaveVars
  <2>2. \A n : Head(Phase2Writes(c, n)).kind = "p2"
    BY Tuples DEF Phase2Writes, Msg, Info
  <2>3. to[c] = <<Msg("p1")>>
    BY <1>2, <2>1, <2>2 DEF ToSlave
  <2>4. to'[c] = <<>> /\ \A d \in Conn \ {c} : to'[d] = to[d] /\ fro'[d] = fro[d]
    BY <1>1, <2>1, <2>3, Tuples
  <2>5. PICK ok \in BOOLEAN : fro'[c] = fro[c] \o <<Ack("p1ack", ok, 0)>>
    BY <1>1, <2>1
  <2>6. ToSlave(c)'
    BY <1>2, <1>3, <2>1, <2>4 DEF ToSlave
  <2>7. ~InPhase2(c)
    BY <1>2, <2>1, <2>2 DEF ToMaster, Phase2
  <2>8. ASSUME InPhase1(c) PROVE Phase1(c)'
    <3>1. fro[c] = <<>>
      BY <1>2, <2>1, <2>3, <2>8 DEF ToMaster, Phase1
    <3>2. fro'[c] = <<Ack("p1ack", ok, 0)>>
      BY <2>5, <3>1, Tuples
    <3> QED BY <2>1, <2>4, <3>2 DEF Phase1
  <2>9. ToMaster(c)'
    BY <1>2, <1>3, <1>6, <2>1, <2>3, <2>7, <2>8 DEF Keeps, ToMaster, Phase2Info, End
  <2> QED BY <1>5, <2>1, <2>4, <2>6, <2>9
<1>11. CASE SlavePhase2(c)
  <2>1. /\ spc[c] = "p1" /\ to[c] # <<>> /\ Head(to[c]).kind = "p2"
        /\ to' = [to EXCEPT ![c] = Tail(@)] /\ UNCHANGED <<fro, ports>>
        /\ rx' = [rx EXCEPT ![c] = Head(to[c]).n] /\ spc' = [spc EXCEPT ![c] = "group"]
    BY <1>11 DEF SlavePhase2, Sent, Take, Goto
  <2>2. /\ to'[c] = Tail(to[c]) /\ rx'[c] = Head(to[c]).n /\ spc'[c] = "group" /\ fro'[c] = fro[c]
        /\ \A d \in Conn \ {c} : /\ spc'[d] = spc[d] /\ rx'[d] = rx[d] /\ to'[d] = to[d]
                                 /\ fro'[d] = fro[d] /\ ports'[d] = ports[d]
    BY <1>1, <2>1
  <2>3. to[c] # <<Msg("p1")>>
    BY <2>1, Tuples DEF Msg
  <2>4. PICK n \in Nat : to[c] = Phase2Writes(c, n)
    BY <1>2, <2>1, <2>3 DEF ToSlave
  <2>5. ToSlave(c)'
    <3>1. CASE GroupOf[c] \in MasterAccepts
      <4>1. to[c] = <<Info("p2", 1), Msg("group"), Info("info", n)>>
        BY <2>4, <3>1 DEF Phase2Writes
      <4>2. Head(to[c]) = Info("p2", 1) /\ Tail(to[c]) = <<Msg("group"), Info("info", n)>>
        BY <4>1, Tuples
      <4>3. Info("p2", 1).n = 1
        BY DEF Info
      <4> QED BY <1>2, <1>3, <2>1, <2>2, <3>1, <4>2, <4>3 DEF ToSlave
    <3>2. CASE GroupOf[c] \notin MasterAccepts
      <4>1. to[c] = <<Msg("p2"), Msg("group")>>
        BY <2>4, <3>2 DEF Phase2Writes
      <4>2. Head(to[c]) = Msg("p2") /\ Tail(to[c]) = <<Msg("group")>>
        BY <4>1, Tuples
      <4>3. Msg("p2").n = 0
        BY DEF Msg
      <4> QED BY <1>2, <1>3, <2>1, <2>2, <3>2, <4>2, <4>3 DEF ToSlave
    <3> QED BY <3>1, <3>2
  <2>6. ~InPhase1(c)
    BY <1>2, <2>1, <2>3 DEF ToMaster, Phase1
  <2>7. InPhase2(c) => Phase2(c)'
    BY <1>2, <2>1, <2>2 DEF ToMaster, Phase2
  <2>8. ToMaster(c)'
    BY <1>2, <1>3, <1>6, <2>1, <2>2, <2>6, <2>7 DEF Keeps, ToMaster, Phase2Info, End
  <2> QED BY <1>5, <2>2, <2>5, <2>8
<1>12. CASE SlaveGroup(c)
  <2>1. /\ spc[c] = "group" /\ to[c] # <<>> /\ to' = [to EXCEPT ![c] = Tail(@)] /\ UNCHANGED <<rx, ports>>
        /\ \A d \in Conn \ {c} : to'[d] = to[d]
    BY <1>1, <1>12 DEF SlaveGroup, RxGroup, Sent, Take
  <2>2. CASE Fault /\ ExitsWithFailure(c)
    BY <1>8, <2>1, <2>2
  <2>3. CASE Goto(c, AfterGroup(c)) /\ UNCHANGED fro
    <3>1. /\ to'[c] = Tail(to[c]) /\ spc'[c] = AfterGroup(c)
          /\ \A d \in Conn \ {c} : spc'[d] = spc[d]
      BY <1>1, <2>1, <2>3 DEF Goto
    <3>2. ToSlave(c)'
      <4>1. CASE rx[c] = 0 /\ to[c] = <<Msg("group")>>
        <5>1. to'[c] = <<>> /\ spc'[c] = "ports"
          BY <3>1, <4>1, Tuples DEF AfterGroup
        <5> QED BY <1>2, <1>3, <2>1, <5>1 DEF ToSlave
      <4>2. CASE rx[c] = 1 /\ \E n \in Nat : to[c] = <<Msg("group"), Info("info", n)>>
        <5>1. (\E n \in Nat : to'[c] = <<Info("info", n)>>) /\ spc'[c] = "info"
          BY <3>1, <4>2, Tuples DEF AfterGroup
        <5> QED BY <1>2, <1>3, <2>1, <5>1 DEF ToSlave
      <4> QED BY <1>2, <2>1, <4>1, <4>2 DEF ToSlave
    <3>3. spc'[c] \in {"info", "ports"}
      BY <3>1 DEF AfterGroup
    <3>4. InPhase2(c) => Phase2(c)'
      BY <1>2, <2>1, <2>3, <3>3 DEF ToMaster, Phase2
    <3>5. ToMaster(c)'
      BY <1>2, <1>3, <1>6, <2>1, <2>3, <3>4 DEF Keeps, ToMaster, Phase1, Phase2Info, End
    <3> QED BY <1>5, <2>1, <2>3, <3>1, <3>2, <3>5
  <2> QED BY <1>12, <2>2, <2>3 DEF SlaveGroup
<1>13. CASE SlaveInfo(c)
  <2>1. /\ spc[c] = "info" /\ to' = [to EXCEPT ![c] = Tail(@)] /\ UNCHANGED <<fro, rx, ports>>
        /\ spc' = [spc EXCEPT ![c] = "ports"]
    BY <1>13 DEF SlaveInfo, Take, Goto
  <2>2. /\ to'[c] = Tail(to[c]) /\ spc'[c] = "ports"
        /\ \A d \in Conn \ {c} : spc'[d] = spc[d] /\ to'[d] = to[d]
    BY <1>1, <2>1
  <2>3. PICK n \in Nat : to[c] = <<Info("info", n)>>
    BY <1>2, <2>1 DEF ToSlave
  <2>4. to'[c] = <<>>
    BY <2>2, <2>3, Tuples
  <2>5. ToSlave(c)'
    BY <1>2, <1>3, <2>1, <2>2, <2>4 DEF ToSlave
  <2>6. InPhase2(c) => Phase2(c)'
    BY <1>2, <2>1, <2>2 DEF ToMaster, Phase2
  <2>7. ToMaster(c)'
    BY <1>2, <1>3, <1>6, <2>1, <2>6 DEF Keeps, ToMaster, Phase1, Phase2Info, End
  <2> QED BY <1>5, <2>1, <2>2, <2>5, <2>7
<1>14. CASE SlavePorts(c)
  <2>1. spc[c] = "ports" /\ to[c] = <<>> /\ known[c] = ports[c] /\ UNCHANGED <<rx, to>>
    BY <1>2, <1>14 DEF SlavePorts, ToSlave
  <2>2. CASE Fault /\ (ExitsWithFailure(c) \/ Exits(c, <<>>)) /\ UNCHANGED ports
    BY <1>7, <1>8, <1>9, <2>1, <2>2
  <2>3. CASE ~(Fault /\ (ExitsWithFailure(c) \/ Exits(c, <<>>)) /\ UNCHANGED ports)
    <3>1. /\ ports' = [ports EXCEPT ![c] = PreprocessAccepts(@, GroupOf[c] \in SlaveAccepts)]
          /\ Reply(c, IF GroupOf[c] \in SlaveAccepts
                      THEN <<Ack("p2ack", TRUE, 1), Info("ports", ports'[c])>>
                      ELSE <<Ack("p2ack", TRUE, 0)>>)
          /\ Goto(c, "end")
      BY <1>14, <2>3 DEF SlavePorts
    <3>2. /\ spc'[c] = "end"
          /\ \A d \in Conn \ {c} : spc'[d] = spc[d] /\ ports'[d] = ports[d] /\ fro'[d] = fro[d]
      BY <1>1, <3>1 DEF Goto, Reply
    <3>3. ASSUME GroupOf[c] \in SlaveAccepts, InPhase2(c) PROVE Phase2(c)'
      <4>1. fro'[c] = fro[c] \o WithPorts(ports'[c])
        BY <1>1, <3>1, <3>3 DEF Reply, WithPorts
      <4>2. fro[c] = <<>>
        BY <1>2, <2>1, <3>3 DEF ToMaster, Phase2
      <4>3. fro'[c] = WithPorts(ports'[c])
        BY <4>1, <4>2, Tuples DEF WithPorts
      <4> QED BY <2>1, <3>2, <4>3 DEF Phase2
    <3>4. ASSUME GroupOf[c] \notin SlaveAccepts, InPhase2(c) PROVE Phase2(c)'
      <4>1. fro'[c] = fro[c] \o WithoutPorts /\ ports'[c] = ports[c]
        BY <1>1, <3>1, <3>4 DEF Reply, WithoutPorts, PreprocessAccepts
      <4>2. fro[c] = <<>>
        BY <1>2, <2>1, <3>4 DEF ToMaster, Phase2
      <4>3. fro'[c] = WithoutPorts
        BY <4>1, <4>2, Tuples DEF WithoutPorts
      <4> QED BY <1>3, <2>1, <3>2, <4>1, <4>3 DEF Phase2
    <3>5. InPhase2(c) => Phase2(c)'
      BY <3>3, <3>4
    <3>6. ToSlave(c)'
      BY <2>1, <3>2 DEF ToSlave
    <3>7. ToMaster(c)'
      BY <1>2, <1>3, <1>6, <2>1, <3>5 DEF Keeps, ToMaster, Phase1, Phase2Info, End
    <3> QED BY <1>5, <2>1, <3>2, <3>6, <3>7
  <2> QED BY <2>2, <2>3
<1>15. CASE SlaveEnd(c)
  <2>1. /\ spc[c] = "end" /\ to[c] # <<>> /\ Head(to[c]).kind = "end"
        /\ to' = [to EXCEPT ![c] = Tail(@)] /\ fro' = [fro EXCEPT ![c] = @ \o <<Msg("end")>>]
        /\ spc' = [spc EXCEPT ![c] = "run"] /\ UNCHANGED <<rx, ports>>
    BY <1>15 DEF SlaveEnd, Sent, Take, Reply, Goto
  <2>2. /\ to'[c] = Tail(to[c]) /\ spc'[c] = "run" /\ fro'[c] = fro[c] \o <<Msg("end")>>
        /\ \A d \in Conn \ {c} : spc'[d] = spc[d] /\ to'[d] = to[d] /\ fro'[d] = fro[d]
    BY <1>1, <2>1
  <2>3. to[c] # <<Msg("abort")>>
    BY <2>1, Tuples DEF Msg
  <2>4. to'[c] = <<>>
    <3>1. to[c] = <<Msg("end")>>
      BY <1>2, <2>1, <2>3 DEF ToSlave
    <3> QED BY <2>2, <3>1, Tuples
  <2>5. ToSlave(c)'
    BY <2>2, <2>4 DEF ToSlave
  <2>6. ~InPhase2(c)
    BY <1>2, <2>1 DEF ToMaster, Phase2
  <2>7. ASSUME InEnd(c) PROVE End(c)'
    <3>1. fro[c] = <<>> /\ known[c] = ports[c]
      BY <1>2, <2>1, <2>7 DEF ToMaster, End
    <3>2. fro'[c] = <<Msg("end")>>
      BY <2>2, <3>1, Tuples
    <3> QED BY <1>3, <2>1, <2>2, <3>1, <3>2 DEF End
  <2>8. ToMaster(c)'
    BY <1>2, <1>3, <1>6, <2>1, <2>6, <2>7 DEF Keeps, ToMaster, Phase1, Phase2Info
  <2> QED BY <1>5, <2>1, <2>2, <2>5, <2>8
<1>16. CASE SlaveEOF(c)
  BY <1>7, <1>9, <1>16 DEF SlaveEOF, MasterClosed
<1>17. CASE SlaveCrash(c)
  BY <1>7, <1>9, <1>17 DEF SlaveCrash
<1> QED BY <1>10, <1>11, <1>12, <1>13, <1>14, <1>15, <1>16, <1>17 DEF SlaveStep

LEMMA InitConversation == Init => Conversation
<1> SUFFICES ASSUME Init PROVE Conversation
  OBVIOUS
<1>1. ASSUME NEW c \in Conn PROVE ToSlave(c) /\ ToMaster(c)
  <2>1. /\ mpc = "connect" /\ cur = 1 /\ spc[c] = "none" /\ to[c] = <<>> /\ fro[c] = <<>>
        /\ known[c] = ports[c]
    BY DEF Init
  <2>2. c \in Nat \ {0}
    BY HandshakeAssumption DEF Conn
  <2>3. ToSlave(c)
    BY <2>1 DEF ToSlave
  <2>4. ToMaster(c)
    BY <2>1, <2>2 DEF ToMaster, Undialled, Dialled, InPhase1, PastPhase1, InPhase2, InPhase2Info,
                      PastPhase2, InEnd, PastEnd
  <2> QED BY <2>3, <2>4
<1>2. ASSUME NEW h \in Host PROVE Queued(h)
  BY DEF Init, Queued
<1> QED BY <1>1, <1>2 DEF Conversation

LEMMA ConversationKept == Typed /\ Conversation /\ [Next]_vars => Conversation'
<1>1. ASSUME Conversation, UNCHANGED vars PROVE Conversation'
  <2>1. UNCHANGED <<mpc, cur, known, spc, rx, ports, to, fro, dpc, backlog, held, crashed>>
    BY <1>1 DEF vars, masterVars, slaveVars, netVars, daemonVars, faultVars
  <2>2. \A c \in Conn : ToSlave(c)' /\ ToMaster(c)'
    <3>1. \A c \in Conn : Same(c) /\ Keeps(c)
      BY <2>1, MasterStaysSame DEF Same
    <3> QED BY <1>1, <3>1, OthersKept DEF Conversation
  <2>3. \A h \in Host : Queued(h)'
    BY <1>1, <2>1 DEF Conversation, Queued
  <2> QED BY <2>2, <2>3 DEF Conversation
<1> QED BY <1>1, MasterConversation, DaemonConversation, SlaveConversation DEF Next, Terminated

LEMMA ConversationAlways == Spec => [](Typed /\ Conversation)
BY InitTyped, TypedKept, InitConversation, ConversationKept, PTL DEF Spec

\* The master runs only with slaves that have left the handshake too, or have died since:
\* handshake_end_with_slave goes on when the slave has answered, and a message of a slave that
\* failed (slave_handshake_p2_failure) never stands for that answer.
THEOREM AgreeBeforeRun == Spec => []AgreedToRun
<1>1. Conversation => AgreedToRun
  BY DEF Conversation, ToMaster, PastEnd, AgreedToRun
<1> QED BY <1>1, ConversationAlways, PTL

\* Every read of the handshake finds the struct its reader expects, on both sides, although the
\* structs have no tag (ensure_read and ensure_write of handshake.c).
THEOREM ReadsFindWrites == Spec => []ReadsMatchWrites
<1>1. Typed /\ Conversation => ReadsMatchWrites
  <2> SUFFICES ASSUME Typed, Conversation PROVE ReadsMatchWrites
    OBVIOUS
  <2>1. ASSUME NEW c \in Conn, spc[c] \in {"p1", "group", "info", "end", "run"}, to[c] # <<>>
        PROVE  Head(to[c]).kind \in Expected(c)
    <3>1. ToSlave(c)
      BY DEF Conversation
    <3>2. \A n : Head(Phase2Writes(c, n)).kind = "p2"
      BY Tuples DEF Phase2Writes, Msg, Info
    <3>3. \A k : Head(<<Msg(k)>>).kind = k
      BY Tuples DEF Msg
    <3>4. \A n : /\ Head(<<Info("info", n)>>).kind = "info"
                 /\ Head(<<Msg("group"), Info("info", n)>>).kind = "group"
      BY Tuples DEF Msg, Info
    <3>5. CASE spc[c] = "p1"
      <4>1. Head(to[c]).kind \in {"p1", "p2"}
        BY <2>1, <3>1, <3>2, <3>3, <3>5 DEF ToSlave
      <4> QED BY <3>5, <4>1 DEF Expected
    <3>6. CASE spc[c] = "group"
      <4>1. Head(to[c]).kind = "group"
        BY <3>1, <3>3, <3>4, <3>6 DEF ToSlave
      <4> QED BY <3>6, <4>1 DEF Expected
    <3>7. CASE spc[c] = "info"
      <4>1. Head(to[c]).kind = "info"
        BY <3>1, <3>4, <3>7 DEF ToSlave
      <4> QED BY <3>7, <4>1 DEF Expected
    <3>8. CASE spc[c] = "end"
      <4>1. Head(to[c]).kind \in {"end", "abort"}
        BY <2>1, <3>1, <3>3, <3>8 DEF ToSlave
      <4> QED BY <3>8, <4>1 DEF Expected
    <3>9. spc[c] # "run"
      BY <2>1, <3>1 DEF ToSlave
    <3> QED BY <2>1, <3>5, <3>6, <3>7, <3>8, <3>9
  <2>2. ASSUME mpc \in {"p1ack", "p2ack", "p2info", "endack"}, fro[cur] # <<>>
        PROVE  Head(fro[cur]).kind \in Awaited
    <3>1. cur \in Conn
      BY <2>2 DEF Typed, CursorInRange
    <3>2. ToMaster(cur)
      BY <3>1 DEF Conversation
    <3>3. \A k, ok, n : Head(<<Ack(k, ok, n)>>).kind = k
      BY Tuples DEF Ack
    <3>4. Head(<<Msg("end")>>).kind = "end" /\ \A n : Head(<<Info("ports", n)>>).kind = "ports"
      BY Tuples DEF Msg, Info
    <3>5. (\A n : Head(WithPorts(n)).kind = "p2ack") /\ Head(WithoutPorts).kind = "p2ack"
      BY Tuples DEF WithPorts, WithoutPorts, Ack
    <3>6. CASE mpc = "p1ack"
      <4>1. Phase1(cur)
        BY <3>2, <3>6 DEF ToMaster, InPhase1
      <4>2. PICK ok \in BOOLEAN : fro[cur] = <<Ack("p1ack", ok, 0)>>
        BY <2>2, <4>1 DEF Phase1
      <4> QED BY <3>3, <3>6, <4>2 DEF Awaited
    <3>7. CASE mpc = "p2ack"
      <4>1. Phase2(cur)
        BY <3>2, <3>7 DEF ToMaster, InPhase2
      <4>2. \/ \E ok \in BOOLEAN, n \in Nat : fro[cur] = <<Ack("p2ack", ok, n)>>
            \/ \E n : fro[cur] = WithPorts(n)
            \/ fro[cur] = WithoutPorts
        BY <2>2, <4>1 DEF Phase2
      <4>3. Head(fro[cur]).kind = "p2ack"
        BY <3>3, <3>5, <4>2
      <4> QED BY <3>7, <4>3 DEF Awaited
    <3>8. CASE mpc = "p2info"
      <4>1. Phase2Info(cur)
        BY <3>2, <3>8 DEF ToMaster, InPhase2Info
      <4>2. PICK n : fro[cur] = <<Info("ports", n)>>
        BY <2>2, <4>1 DEF Phase2Info
      <4> QED BY <3>4, <3>8, <4>2 DEF Awaited
    <3>9. CASE mpc = "endack"
      <4>1. End(cur)
        BY <3>2, <3>9 DEF ToMaster, InEnd
      <4>2. fro[cur] = <<Msg("end")>>
        BY <2>2, <4>1 DEF End
      <4> QED BY <3>4, <3>9, <4>2 DEF Awaited
    <3> QED BY <2>2, <3>6, <3>7, <3>8, <3>9
  <2> QED BY <2>1, <2>2 DEF ReadsMatchWrites
<1> QED BY <1>1, ConversationAlways, PTL

\* When the strands are let go, those of the master know the ports of each slave that lives, in
\* whatever groups the slaves are (update_strand_with_slave_info).
THEOREM SlavesPortsKnown == Spec => [](mpc = "run" => \A c \in Conn \ crashed : known[c] = ports[c])
<1>1. Conversation => (mpc = "run" => \A c \in Conn \ crashed : known[c] = ports[c])
  BY DEF Conversation, ToMaster, PastEnd
<1> QED BY <1>1, ConversationAlways, PTL

-----------------------------------------------------------------------------
(* The master's ports                                                      *)

\* A group whose strands accept on the master has one slave.  For a second one
\* preprocess_accepts would make the strands listen anew, and the first slave would go on with
\* the ports it was told.
OneSlavePerAccept ==
  \A c, d \in Conn : GroupOf[c] = GroupOf[d] /\ GroupOf[c] \in MasterAccepts => c = d

\* What a slave has been told, or is about to be, is what the strands of its group listen at.
Told(c) ==
  /\ spc[c] # "dead" => \A i \in DOMAIN to[c] : to[c][i].kind = "info" => to[c][i].n = listening[GroupOf[c]]
  /\ spc[c] \in {"none", "backlog", "p1", "group", "info"} => told[c] = 0
  /\ spc[c] \in {"ports", "end", "run"} => told[c] = listening[GroupOf[c]]

Ports ==
  /\ \A g \in Group : g \notin MasterAccepts => listening[g] = 0
  /\ \A c \in Conn : Told(c)

LEMMA ToldKept ==
  ASSUME NEW c \in Conn, Told(c), spc'[c] \in {spc[c], "dead"}, to'[c] = to[c], told'[c] = told[c],
         listening'[GroupOf[c]] = listening[GroupOf[c]]
  PROVE  Told(c)'
BY DEF Told

\* Up to a daemon's fork a slave has been told nothing.
LEMMA ToldForked ==
  ASSUME NEW c \in Conn, Told(c), spc[c] \in {"none", "backlog"}, spc'[c] \in {"backlog", "p1", "dead"},
         to'[c] = to[c], told'[c] = told[c], listening'[GroupOf[c]] = listening[GroupOf[c]]
  PROVE  Told(c)'
BY DEF Told

LEMMA InitPorts == Init => Ports
<1> SUFFICES ASSUME Init PROVE Ports
  OBVIOUS
<1>1. \A g \in Group : listening[g] = 0
  BY DEF Init
<1>2. ASSUME NEW c \in Conn PROVE Told(c)
  BY DEF Init, Told
<1> QED BY <1>1, <1>2 DEF Ports

LEMMA MasterPorts ==
  ASSUME Typed, Conversation, Ports, OneSlavePerAccept, MasterStep
  PROVE  Ports'
<1>1. /\ to \in [Conn -> Seq(Message)] /\ spc \in [Conn -> SlavePC] /\ listening \in [Group -> Nat]
      /\ mpc \in {"connect", "p1", "p1ack", "p2", "p2ack", "p2info", "end", "endack"} => cur \in Conn
      /\ \A c \in Conn : GroupOf[c] \in Group
  BY Constants DEF Typed, TypeOK, CursorInRange
<1>2. /\ \A c \in Conn : Told(c) /\ ToMaster(c)
      /\ \A g \in Group : g \notin MasterAccepts => listening[g] = 0
  BY DEF Ports, Conversation
<1>3. UNCHANGED told
  BY DEF MasterStep, MasterConnect, MasterPhase1, MasterPhase1Ack, MasterPhase2, MasterPhase2Ack,
     MasterPhase2Info, MasterSpawn, MasterSpawnFails, MasterEnd, MasterEndAck, MasterEOF, slaveVars
<1>4. ASSUME UNCHANGED <<spc, to, listening>> PROVE Ports'
  <2>1. \A c \in Conn : Told(c)'
    BY <1>2, <1>3, <1>4, ToldKept
  <2> QED BY <1>2, <1>4, <2>1 DEF Ports
\* A message without ports is written.
<1>5. ASSUME UNCHANGED <<spc, listening>>, NEW k \in {"p1", "end", "abort"},
             \A c \in Conn : to'[c] = to[c] \/ spc[c] = "dead" \/ to'[c] = <<Msg(k)>>
      PROVE  Ports'
  <2>1. \A i \in DOMAIN <<Msg(k)>> : <<Msg(k)>>[i].kind # "info"
    BY <1>5 DEF Msg
  <2>2. ASSUME NEW c \in Conn PROVE Told(c)'
    <3>1. CASE to'[c] = to[c]
      BY <1>2, <1>3, <1>5, <3>1, ToldKept
    <3>2. CASE spc[c] = "dead"
      BY <1>5, <3>2 DEF Told
    <3>3. CASE to'[c] = <<Msg(k)>>
      BY <1>2, <1>3, <1>5, <2>1, <3>3 DEF Told
    <3> QED BY <1>5, <3>1, <3>2, <3>3
  <2> QED BY <1>2, <1>5, <2>2 DEF Ports
<1>6. CASE MasterConnect
  <2>1. UNCHANGED <<to, listening>> /\ cur \in Conn /\ spc[cur] = "none"
    <3>1. UNCHANGED <<to, listening>> /\ mpc = "connect"
      BY <1>6 DEF MasterConnect, netVars
    <3>2. cur \in Conn /\ Undialled(cur)
      BY <1>1, <3>1, HandshakeAssumption DEF Undialled, Conn
    <3> QED BY <1>2, <3>1, <3>2 DEF ToMaster
  <2>2. \A c \in Conn : spc'[c] = spc[c] \/ (c = cur /\ spc'[c] = "backlog")
    BY <1>1, <1>6 DEF MasterConnect
  <2>3. \A c \in Conn : Told(c)'
    BY <1>2, <1>3, <2>1, <2>2, ToldKept, ToldForked
  <2> QED BY <1>2, <2>1, <2>3 DEF Ports
<1>7. CASE MasterPhase1
  <2>1. cur \in Conn /\ Dialled(cur) /\ MasterWrites(cur, <<Msg("p1")>>, "p1ack") /\ UNCHANGED <<spc, listening>>
    BY <1>1, <1>7, HandshakeAssumption DEF MasterPhase1, Dialled, Conn, slaveVars
  <2>2. spc[cur] = "dead" \/ to[cur] = <<>>
    BY <1>2, <2>1 DEF ToMaster
  <2>3. (\A c \in Conn \ {cur} : to'[c] = to[c]) /\ (spc[cur] = "dead" \/ to'[cur] = <<Msg("p1")>>)
    BY <2>1, <2>2, Written, MessageTypes DEF Typed
  <2> QED BY <1>5, <2>1, <2>3
<1>8. CASE MasterEnd
  <2>1. cur \in Conn /\ PastPhase2(cur) /\ MasterWrites(cur, <<Msg("end")>>, "endack") /\ UNCHANGED <<spc, listening>>
    BY <1>1, <1>8, HandshakeAssumption DEF MasterEnd, PastPhase2, Conn, slaveVars
  <2>2. spc[cur] = "dead" \/ to[cur] = <<>>
    BY <1>2, <2>1 DEF ToMaster
  <2>3. (\A c \in Conn \ {cur} : to'[c] = to[c]) /\ (spc[cur] = "dead" \/ to'[cur] = <<Msg("end")>>)
    BY <2>1, <2>2, Written, MessageTypes DEF Typed
  <2> QED BY <1>5, <2>1, <2>3
<1>9. CASE MasterSpawnFails
  <2>1. UNCHANGED <<spc, listening>> /\ mpc = "spawn"
    BY <1>9 DEF MasterSpawnFails, slaveVars
  <2>2. ASSUME NEW c \in Conn PROVE to'[c] = to[c] \/ spc[c] = "dead" \/ to'[c] = <<Msg("abort")>>
    <3>1. spc[c] = "dead" \/ to[c] = <<>>
      BY <1>2, <2>1 DEF ToMaster, PastPhase2
    <3>2. to'[c] = to[c] \/ to'[c] = Append(to[c], Msg("abort"))
      BY <1>9 DEF MasterSpawnFails
    <3>3. Append(<<>>, Msg("abort")) = <<Msg("abort")>>
      OBVIOUS
    <3> QED BY <3>1, <3>2, <3>3
  <2> QED BY <1>5, <2>1, <2>2
<1>10. CASE MasterPhase2
  <2>1. PICK c \in Conn : c = cur
    BY <1>1, <1>10 DEF MasterPhase2
  <2>2. PastPhase1(c) /\ UNCHANGED spc
    BY <1>10, <2>1, HandshakeAssumption DEF MasterPhase2, PastPhase1, Conn, slaveVars
  <2>3. spc[c] = "dead" \/ (spc[c] = "p1" /\ to[c] = <<>>)
    BY <1>2, <2>2 DEF ToMaster
  <2>4. CASE UNCHANGED <<listening, to>>
    BY <1>4, <2>2, <2>4
  <2>5. CASE ~UNCHANGED <<listening, to>>
    <3> DEFINE accepts == GroupOf[cur] \in MasterAccepts
               port == PreprocessAccepts(listening[Ssid(cur)], accepts)
               ms == IF accepts THEN <<Info("p2", 1)>> \o TxGroup \o <<Info("info", port)>>
                                ELSE <<Msg("p2")>> \o TxGroup
    <3>1. MasterWrites(cur, ms, "p2ack") /\ listening' = [listening EXCEPT ![Ssid(cur)] = port]
      BY <1>10, <2>5 DEF MasterPhase2
    <3>2. port \in Nat
      BY <1>1, <2>1 DEF PreprocessAccepts, Ssid
    <3>3. ms \in Seq(Message) /\ ms = Phase2Writes(c, port)
      BY <2>1, <3>2, MessageTypes, Phase2Message DEF Phase2Writes
    <3>4. /\ listening'[GroupOf[c]] = port /\ \A g \in Group \ {GroupOf[c]} : listening'[g] = listening[g]
          /\ GroupOf[c] \notin MasterAccepts => listening'[GroupOf[c]] = listening[GroupOf[c]]
      BY <1>1, <2>1, <3>1 DEF Ssid, PreprocessAccepts
    <3> HIDE DEF ms, port
    <3>5. (\A d \in Conn \ {c} : to'[d] = to[d]) /\ (spc[c] = "dead" \/ to'[c] = ms)
      BY <2>1, <2>3, <3>1, <3>3, Written DEF Typed
    <3>6. \A d \in Conn \ {c} : listening'[GroupOf[d]] = listening[GroupOf[d]]
      BY <1>1, <3>4 DEF OneSlavePerAccept
    <3>7. \A d \in Conn \ {c} : Told(d)'
      BY <1>2, <1>3, <2>2, <3>5, <3>6, ToldKept
    <3>8. Told(c)'
      <4>1. \A i \in DOMAIN Phase2Writes(c, port) :
              Phase2Writes(c, port)[i].kind = "info" => Phase2Writes(c, port)[i].n = port
        <5>1. CASE GroupOf[c] \in MasterAccepts
          BY <5>1 DEF Phase2Writes, Msg, Info
        <5>2. CASE GroupOf[c] \notin MasterAccepts
          BY <5>2 DEF Phase2Writes, Msg
        <5> QED BY <5>1, <5>2
      <4>2. CASE spc[c] = "dead"
        BY <2>2, <4>2 DEF Told
      <4>3. CASE spc[c] = "p1" /\ to'[c] = ms
        BY <1>2, <1>3, <2>2, <3>3, <3>4, <4>1, <4>3 DEF Told
      <4> QED BY <2>3, <3>5, <4>2, <4>3
    <3>9. \A g \in Group : g \notin MasterAccepts => listening'[g] = 0
      BY <1>2, <3>4
    <3> QED BY <3>7, <3>8, <3>9 DEF Ports
  <2> QED BY <2>4, <2>5
<1>11. CASE ~(MasterConnect \/ MasterPhase1 \/ MasterPhase2 \/ MasterSpawnFails \/ MasterEnd)
  BY <1>4, <1>11 DEF MasterStep, MasterPhase1Ack, MasterPhase2Ack, MasterPhase2Info, MasterSpawn,
     MasterEndAck, MasterEOF, slaveVars, netVars
<1> QED BY <1>6, <1>7, <1>8, <1>9, <1>10, <1>11

LEMMA DaemonPorts ==
  ASSUME NEW h \in Host, Typed, Conversation, Ports, DaemonStep(h) \/ SigChld(h)
  PROVE  Ports'
<1>1. UNCHANGED <<to, told, listening>>
  BY DEF DaemonStep, DaemonAccept, DaemonFork, DaemonClose, DaemonIdle, DaemonWait, DaemonLoad,
     DaemonStore, SigChld, masterVars, slaveVars, netVars
<1>2. ASSUME NEW c \in Conn
      PROVE  spc'[c] = spc[c] \/ (spc[c] = "backlog" /\ spc'[c] \in {"p1", "dead"})
  <2>1. CASE DaemonFork(h)
    <3>1. spc \in [Conn -> SlavePC] /\ held[h] \in Conn /\ spc[held[h]] = "backlog"
      BY <2>1 DEF Typed, TypeOK, ChildrenCounted, Conversation, Queued, DaemonFork
    <3> QED BY <2>1, <3>1 DEF DaemonFork
  <2>2. CASE ~DaemonFork(h)
    BY <2>2 DEF DaemonStep, DaemonAccept, DaemonClose, DaemonIdle, DaemonWait, DaemonLoad, DaemonStore,
       SigChld, slaveVars
  <2> QED BY <2>1, <2>2
<1>3. \A c \in Conn : Told(c)'
  BY <1>1, <1>2, ToldKept, ToldForked DEF Ports
<1> QED BY <1>1, <1>3 DEF Ports

LEMMA SlavePortsKept ==
  ASSUME NEW c \in Conn, Typed, Conversation, Ports, SlaveStep(c) \/ SlaveCrash(c)
  PROVE  Ports'
<1>1. /\ to \in [Conn -> Seq(Message)] /\ spc \in [Conn -> SlavePC] /\ told \in [Conn -> Nat]
      /\ GroupOf[c] \in Group
  BY Constants DEF Typed, TypeOK
<1>2. /\ ToSlave(c) /\ \A d \in Conn : Told(d)
      /\ \A g \in Group : g \notin MasterAccepts => listening[g] = 0
  BY DEF Ports, Conversation
<1>3. UNCHANGED listening
  BY DEF SlaveStep, SlavePhase1, SlavePhase2, SlaveGroup, SlaveInfo, SlavePorts, SlaveEnd, SlaveEOF,
     SlaveCrash, masterVars
<1>4. ASSUME NEW d \in Conn \ {c} PROVE spc'[d] = spc[d] /\ to'[d] = to[d] /\ told'[d] = told[d]
  BY <1>1, <1>4 DEF SlaveStep, SlavePhase1, SlavePhase2, SlaveGroup, RxGroup, SlaveInfo, SlavePorts, SlaveEnd,
     SlaveEOF, SlaveCrash, Take, Goto, ExitsWithFailure, Exits, Learn, slaveVars
<1>5. SUFFICES Told(c)'
  <2>1. \A d \in Conn \ {c} : Told(d)'
    BY <1>2, <1>3, <1>4, ToldKept
  <2> QED BY <1>2, <1>3, <1>5, <2>1 DEF Ports
<1>6. ASSUME spc'[c] = "dead" PROVE Told(c)'
  BY <1>6 DEF Told
\* What is left of what is on its way.
<1>7. to[c] # <<>> => \A i \in DOMAIN Tail(to[c]) : i + 1 \in DOMAIN to[c] /\ Tail(to[c])[i] = to[c][i + 1]
  BY <1>1
<1>8. ASSUME to[c] # <<>>, to'[c] = Tail(to[c]), UNCHANGED told,
             \/ spc[c] = "p1" /\ spc'[c] \in {"p1", "group"}
             \/ spc[c] = "group" /\ spc'[c] = "info"
             \/ spc[c] = "group" /\ GroupOf[c] \notin MasterAccepts /\ spc'[c] = "ports"
             \/ spc[c] = "end" /\ spc'[c] = "run"
      PROVE  Told(c)'
  <2>1. \A i \in DOMAIN to'[c] : to'[c][i].kind = "info" => to'[c][i].n = listening'[GroupOf[c]]
    BY <1>2, <1>3, <1>7, <1>8 DEF Told
  <2> QED BY <1>1, <1>2, <1>3, <1>8, <2>1 DEF Told
<1>9. CASE SlavePhase1(c)
  BY <1>1, <1>8, <1>9 DEF SlavePhase1, Sent, Take, slaveVars
<1>10. CASE SlavePhase2(c)
  BY <1>1, <1>8, <1>10 DEF SlavePhase2, Sent, Take, Goto
<1>11. CASE SlaveGroup(c)
  <2>1. spc[c] = "group" /\ to[c] # <<>> /\ to'[c] = Tail(to[c]) /\ UNCHANGED told
    BY <1>1, <1>11 DEF SlaveGroup, RxGroup, Sent, Take
  <2>2. CASE Goto(c, AfterGroup(c))
    <3>1. spc'[c] = AfterGroup(c) /\ (rx[c] = 1 \/ (rx[c] = 0 /\ GroupOf[c] \notin MasterAccepts))
      BY <1>1, <1>2, <2>1, <2>2 DEF Goto, ToSlave
    <3> QED BY <1>8, <2>1, <3>1 DEF AfterGroup
  <2>3. CASE ExitsWithFailure(c)
    BY <1>1, <1>6, <2>3 DEF ExitsWithFailure, Exits, Goto
  <2> QED BY <1>11, <2>2, <2>3 DEF SlaveGroup
<1>12. CASE SlaveInfo(c)
  <2>1. /\ spc[c] = "info" /\ to'[c] = Tail(to[c]) /\ told'[c] = Head(to[c]).n /\ spc'[c] = "ports"
    BY <1>1, <1>12 DEF SlaveInfo, Take, Learn, Goto
  <2>2. PICK n \in Nat : to[c] = <<Info("info", n)>>
    BY <1>2, <2>1 DEF ToSlave
  <2>3. to'[c] = <<>> /\ told'[c] = n
    BY <2>1, <2>2, Tuples DEF Info
  <2>4. n = listening[GroupOf[c]]
    <3>1. 1 \in DOMAIN to[c] /\ to[c][1].kind = "info" /\ to[c][1].n = n
      BY <2>2 DEF Info
    <3> QED BY <1>2, <2>1, <3>1 DEF Told
  <2>5. \A i \in DOMAIN to'[c] : to'[c][i].kind # "info"
    BY <2>3
  <2> QED BY <1>3, <2>1, <2>3, <2>4, <2>5 DEF Told
<1>13. CASE SlavePorts(c)
  <2>1. spc[c] = "ports" /\ UNCHANGED <<to, told>> /\ spc'[c] \in {"end", "dead"}
    BY <1>1, <1>13 DEF SlavePorts, Goto, ExitsWithFailure, Exits
  <2> QED BY <1>2, <1>3, <2>1 DEF Told
<1>14. CASE SlaveEnd(c)
  BY <1>1, <1>8, <1>14 DEF SlaveEnd, Sent, Take, Goto
<1>15. CASE SlaveEOF(c)
  BY <1>1, <1>6, <1>15 DEF SlaveEOF, Exits, Goto
<1>16. CASE SlaveCrash(c)
  BY <1>1, <1>6, <1>16 DEF SlaveCrash, Exits, Goto
<1> QED BY <1>9, <1>10, <1>11, <1>12, <1>13, <1>14, <1>15, <1>16 DEF SlaveStep

LEMMA PortsKept ==
  ASSUME OneSlavePerAccept, Typed, Conversation, Ports, [Next]_vars
  PROVE  Ports'
<1>1. CASE UNCHANGED vars
  <2>1. UNCHANGED <<spc, to, told, listening>>
    BY <1>1 DEF vars, masterVars, slaveVars, netVars
  <2>2. \A c \in Conn : Told(c)'
    BY <2>1, ToldKept DEF Ports
  <2> QED BY <2>1, <2>2 DEF Ports
<1> QED BY <1>1, MasterPorts, DaemonPorts, SlavePortsKept DEF Next, Terminated

\* The strands of both sides begin with the ports at which the other side listens, if no group
\* whose strands accept on the master has two slaves (preprocess_accepts, which is called once
\* for each slave).
THEOREM CurrentPorts == OneSlavePerAccept /\ Spec => []PortsAreCurrent
<1>1. Init => Ports
  BY InitPorts
<1>2. OneSlavePerAccept /\ Typed /\ Conversation /\ Ports /\ [Next]_vars => OneSlavePerAccept' /\ Ports'
  BY PortsKept DEF OneSlavePerAccept
<1>3. Conversation /\ Ports => PortsAreCurrent
  <2> SUFFICES ASSUME Conversation, Ports, mpc = "run", NEW c \in Conn \ crashed
               PROVE  told[c] = listening[GroupOf[c]] /\ known[c] = ports[c]
    BY DEF PortsAreCurrent
  <2>1. spc[c] = "run" /\ known[c] = ports[c]
    BY DEF Conversation, ToMaster, PastEnd
  <2> QED BY <2>1 DEF Ports, Told
<1> QED BY <1>1, <1>2, <1>3, ConversationAlways, PTL DEF Spec
=============================================================================
