---------------------------- MODULE CommandProofs ----------------------------
(***************************************************************************)
(* Further theorems of RunControl: each slave is commanded the transactions *)
(* in their order, and is asked for its statistics after the last; and that *)
(* RunControl implements LockStep.                                          *)
(***************************************************************************)
EXTENDS RunControlProofs

-----------------------------------------------------------------------------
(* The barriers                                                             *)

LEMMA MoreTxnsType ==
  /\ \A t \in Nat : MoreTxns(t) => t \in Txn /\ t < NumBarrier
  /\ \A t \in Nat, sl \in Slave : ~MoreTxns(t) => Ntxn[SlaveGroup[sl]] <= t
  /\ \A t \in Nat, s \in Strand : ~MoreTxns(t) => NtxnOf(s) <= t
<1>1. \A t \in Nat : MoreTxns(t) => t \in Txn /\ t < NumBarrier
  BY ConfigAssumption DEF MoreTxns, Txn
<1>2. \A t \in Nat, g \in Group : ~MoreTxns(t) => Ntxn[g] <= t
  BY ConfigAssumption DEF MoreTxns
<1>3. /\ \A sl \in Slave : SlaveGroup[sl] \in Group
      /\ \A s \in Strand : GroupOf[s] \in Group
  BY ConfigAssumption
<1> QED BY <1>1, <1>2, <1>3 DEF NtxnOf

LEMMA LockedForWaitersKept == TypeOK /\ LockedForWaiters /\ [Next]_vars => LockedForWaiters'
<1> SUFFICES ASSUME TypeOK, LockedForWaiters, [Next]_vars, NEW p \in Proc, NEW t \in Txn,
                    barrier'[p][t] = "locked"
             PROVE  Waiters(p, t) # {}
  BY DEF LockedForWaiters, Waiters, StrandsOf, NtxnOf
<1> QED BY OpensOrStays DEF LockedForWaiters

\* A strand leaves a transaction only by completing it, and it began behind an open barrier.
LEMMA PassedIsOpenKept ==
  TypeOK /\ TxnInRange /\ BegunIsReleased /\ PassedIsOpen /\ [Next]_vars => PassedIsOpen'
<1> SUFFICES ASSUME TypeOK, TxnInRange, BegunIsReleased, PassedIsOpen, [Next]_vars,
                    NEW r \in Strand, NEW t \in Txn, t < txn'[r]
             PROVE  barrier'[Home[r]][t] = "open"
  BY DEF PassedIsOpen
<1>1. SUFFICES barrier[Home[r]][t] = "open"
  BY HomeType, OpensOrStays
<1>2. CASE txn'[r] = txn[r]
  BY <1>2 DEF PassedIsOpen
<1>3. ASSUME NEW s \in Strand, StrandStep(s), txn'[r] # txn[r]
      PROVE  Begun(r) /\ txn'[r] = txn[r] + 1
  BY <1>3 DEF TypeOK, StrandStep, StrandStart, ArriveAtBarrier, PassBarrier, TxnSucceeds,
     TxnFails, FlagErrorRead, FlagErrorWrite, StrandExit, StrandDies, Runs, Begun
<1>4. CASE Begun(r) /\ txn'[r] = txn[r] + 1
  <2>1. t < txn[r] \/ t = txn[r]
    BY <1>4 DEF TypeOK, Txn
  <2>2. QED BY <1>4, <2>1 DEF PassedIsOpen, BegunIsReleased
<1> QED BY <1>2, <1>3, <1>4, OnlyStrandsMove

-----------------------------------------------------------------------------
(* The master                                                               *)

LEMMA OnlyMasterMoves ==
  ASSUME [Next]_vars
  PROVE  MasterStep \/ MasterInterrupted \/ UNCHANGED <<mpc, currTxn, sendTo, broken>>
<1>1. ASSUME NEW s \in Strand, StrandStep(s) PROVE UNCHANGED <<mpc, currTxn, sendTo, broken>>
  BY <1>1 DEF StrandStep, StrandStart, ArriveAtBarrier, PassBarrier, TxnSucceeds, TxnFails,
     FlagErrorRead, FlagErrorWrite, StrandExit, StrandDies, masterVars
<1>2. ASSUME NEW sl \in Slave, SlaveStep(sl) PROVE UNCHANGED <<mpc, currTxn, sendTo, broken>>
  BY <1>2 DEF SlaveStep, SlavePoll, SlaveIdle, SlaveEOF, SlaveCommand, SlaveSkips,
     SlaveUnlock, SlaveWaits, SlaveKill, SlaveJoin, SlaveGoodbye, masterVars
<1>3. ASSUME NEW sl \in Slave, SlaveCrash(sl) PROVE UNCHANGED <<mpc, currTxn, sendTo, broken>>
  BY <1>3 DEF SlaveCrash, masterVars
<1>4. CASE UNCHANGED vars BY <1>4 DEF vars, masterVars
<1> QED BY <1>1, <1>2, <1>3, <1>4 DEF Next, Terminated

\* The barriers of the master change only when it unlocks one.
LEMMA MasterBarriers ==
  ASSUME TypeOK, [Next]_vars, ~MasterUnlock, NEW t \in Txn
  PROVE  barrier'[Master][t] = barrier[Master][t]
<1>1. CASE UNCHANGED barrier BY <1>1
<1>2. ASSUME NEW sl \in Slave, SlaveUnlock(sl) PROVE barrier'[Master][t] = barrier[Master][t]
  <2>1. sl # Master
    BY ConfigAssumption DEF Slave, Master
  <2>2. QED BY <1>2, <2>1, OneOpens, Ranges DEF SlaveUnlock
<1> QED BY <1>1, <1>2, BarrierStep

LEMMA MasterInOrderKept == TypeOK /\ MasterInOrder /\ [Next]_vars => MasterInOrder'
<1> SUFFICES ASSUME TypeOK, MasterInOrder, [Next]_vars PROVE MasterInOrder'
  OBVIOUS
<1> DEFINE Opens == \A t \in Txn : barrier'[Master][t] = "open" <=> t < currTxn'
<1>1. Master \in Proc /\ NumBarrier \in Nat /\ currTxn \in Nat
  BY Ranges, ConfigAssumption DEF TypeOK
<1>2. ASSUME ~MasterUnlock, currTxn' = currTxn PROVE Opens
  BY <1>2, MasterBarriers DEF MasterInOrder
<1>3. globalError[Master] > 0 => globalError'[Master] > 0
  BY <1>1, ErrorKept
<1> USE DEF MasterInOrder
<1>4. CASE MasterUnlock
  <2>1. currTxn < NumBarrier /\ currTxn \in Txn
    BY <1>1, <1>4, MoreTxnsType DEF MasterUnlock
  <2>2. \A t \in Txn : barrier'[Master][t] = IF t = currTxn THEN "open" ELSE barrier[Master][t]
    <3>1. barrier' = [barrier EXCEPT ![Master][currTxn] = "open"]
      BY <1>4 DEF MasterUnlock
    <3>2. ASSUME NEW t \in Txn
          PROVE  barrier'[Master][t] = IF t = currTxn THEN "open" ELSE barrier[Master][t]
      BY <1>1, <3>1 DEF TypeOK
    <3>3. QED BY <3>2
  <2>3. Opens
    BY <1>1, <1>4, <2>2 DEF MasterUnlock, Txn
  <2>4. QED BY <1>1, <1>4, <2>1, <2>3 DEF MasterUnlock
<1>5. ASSUME UNCHANGED <<mpc, currTxn>>, ~MasterUnlock PROVE MasterInOrder'
  BY <1>2, <1>3, <1>5 DEF MoreTxns
<1>6. CASE MasterStep
  <2>1. CASE MasterPoll
    BY <1>1, <1>2, <2>1 DEF MasterPoll, MoreTxns, TypeOK, shmVars, MasterUnlock
  <2>2. CASE MasterPollSlaves
    <3>1. mpc' = "drain" => globalError'[Master] > 0
      BY <1>1, <2>2 DEF MasterPollSlaves, AddError, TypeOK
    <3>2. QED BY <1>2, <2>2, <3>1 DEF MasterPollSlaves, MoreTxns, MasterUnlock
  <2>3. CASE MasterBarrier
    BY <1>2, <2>3 DEF MasterBarrier, MoreTxns, MasterUnlock
  <2>4. CASE MasterDrain
    BY <1>2, <1>3, <2>4 DEF MasterDrain, MoreTxns, MasterUnlock
  <2>5. CASE MasterDecide
    BY <1>1, <1>2, <2>5 DEF MasterDecide, MoreTxns, MasterUnlock, TypeOK
  <2>6. CASE ~(MasterPoll \/ MasterPollSlaves \/ MasterBarrier \/ MasterDrain \/ MasterDecide
               \/ MasterUnlock)
    <3>1. /\ UNCHANGED currTxn
          /\ mpc' = mpc \/ mpc' \in {"abort", "join", "goodbye", "done"}
      BY <1>6, <2>6 DEF MasterStep, MasterSendNext, MasterKill, MasterSendAbort, MasterAborted,
         MasterSendStats, MasterStatsSent, MasterReturned, MasterJoin, MasterGoodbye, MasterExit, SendingUnchanged
    <3>2. QED BY <1>2, <1>3, <2>6, <3>1 DEF MoreTxns
  <2>7. QED BY <1>4, <2>1, <2>2, <2>3, <2>4, <2>5, <2>6
<1>7. CASE MasterInterrupted
  BY <1>2, <1>7 DEF MasterInterrupted, MasterUnlock
<1> QED BY <1>4, <1>5, <1>6, <1>7, OnlyMasterMoves

-----------------------------------------------------------------------------
(* The slaves                                                               *)

LEMMA OnlySlaveMoves ==
  ASSUME TypeOK, [Next]_vars, NEW sl \in Slave
  PROVE  \/ SlaveStep(sl) \/ SlaveCrash(sl)
         \/ spc'[sl] = spc[sl] /\ unlocking'[sl] = unlocking[sl]
<1> DEFINE same == spc'[sl] = spc[sl] /\ unlocking'[sl] = unlocking[sl]
<1>1. ASSUME NEW s \in Strand, StrandStep(s) PROVE same
  BY <1>1 DEF StrandStep, StrandStart, ArriveAtBarrier, PassBarrier, TxnSucceeds, TxnFails,
     FlagErrorRead, FlagErrorWrite, StrandExit, StrandDies, slaveVars
<1>2. ASSUME MasterStep PROVE same
  BY <1>2 DEF MasterStep, MasterPoll, MasterPollSlaves, MasterBarrier, MasterSendNext,
     MasterUnlock, MasterDrain, MasterDecide, MasterKill, MasterSendAbort, MasterAborted,
     MasterSendStats, MasterStatsSent, MasterReturned, MasterJoin, MasterGoodbye, MasterExit,
     SendingUnchanged, slaveVars
<1>3. ASSUME MasterInterrupted PROVE same
  BY <1>3 DEF MasterInterrupted, slaveVars
<1>4. ASSUME NEW q \in Slave, q # sl, SlaveStep(q) PROVE same
  BY <1>4 DEF TypeOK, SlaveStep, SlavePoll, SlaveIdle, SlaveEOF, SlaveCommand, SlaveSkips,
     SlaveUnlock, SlaveWaits, SlaveKill, SlaveJoin, SlaveGoodbye, SlaveAborts, SlaveGoto
<1>5. ASSUME NEW q \in Slave, q # sl, SlaveCrash(q) PROVE same
  BY <1>5 DEF TypeOK, SlaveCrash, SlaveGoto
<1>6. CASE UNCHANGED vars BY <1>6 DEF vars, slaveVars
<1>7. ASSUME NEW q \in Slave, SlaveStep(q) \/ SlaveCrash(q)
      PROVE  SlaveStep(sl) \/ SlaveCrash(sl) \/ same
  <2>1. CASE q = sl BY <1>7, <2>1
  <2>2. CASE q # sl BY <1>4, <1>5, <1>7, <2>2
  <2>3. QED BY <2>1, <2>2
<1> QED BY <1>1, <1>2, <1>3, <1>6, <1>7 DEF Next, Terminated

LEMMA ClosedForGood ==
  ASSUME TypeOK, [Next]_vars, NEW sl \in Slave, SlaveClosed(sl)
  PROVE  SlaveClosed(sl)'
<1>1. ~SlaveStep(sl)
  BY DEF SlaveClosed, SlaveStep, SlavePoll, SlaveIdle, SlaveEOF, SlaveCommand, SlaveSkips,
     SlaveUnlock, SlaveWaits, SlaveKill, SlaveJoin, SlaveGoodbye
<1>2. ~SlaveCrash(sl)
  BY DEF SlaveClosed, SlaveCrash
<1> QED BY <1>1, <1>2, OnlySlaveMoves DEF SlaveClosed

\* The barriers of a slave change only when it unlocks one.
LEMMA SlaveBarriers ==
  ASSUME TypeOK, [Next]_vars, NEW sl \in Slave, ~SlaveUnlock(sl), NEW t \in Txn
  PROVE  barrier'[sl][t] = barrier[sl][t]
<1>1. CASE UNCHANGED barrier BY <1>1
<1>2. CASE MasterUnlock
  <2>1. sl # Master
    BY ConfigAssumption DEF Slave, Master
  <2>2. QED BY <1>2, <2>1, OneOpens, Ranges DEF MasterUnlock
<1>3. ASSUME NEW q \in Slave, SlaveUnlock(q) PROVE barrier'[sl][t] = barrier[sl][t]
  <2>1. q # sl
    BY <1>3
  <2>2. barrier' = [barrier EXCEPT ![q][unlocking[q]] = "open"]
    BY <1>3 DEF SlaveUnlock
  <2>3. QED BY <2>1, <2>2, OneOpens, Ranges
<1> QED BY <1>1, <1>2, <1>3, BarrierStep

LEMMA BrokenStopsKept == TypeOK /\ BrokenStops /\ [Next]_vars => BrokenStops'
<1> SUFFICES ASSUME TypeOK, BrokenStops, [Next]_vars PROVE BrokenStops'
  OBVIOUS
<1> USE DEF BrokenStops
<1>1. \A b \in Slave : SlaveClosed(b) => SlaveClosed(b)'
  BY ClosedForGood
<1>2. broken \subseteq Slave
  BY DEF TypeOK
<1>3. ASSUME NEW c, SendCommand(c)
      PROVE  /\ sendTo \in Slave /\ sendTo' \in SendIndex
             /\ \A b \in broken' : SlaveClosed(b)
             /\ \/ broken' = broken /\ sendTo \notin broken /\ sendTo' = sendTo + 1
                \/ broken' = broken \cup {sendTo} /\ sendTo' = NSlave + 1
  BY <1>2, <1>3, Ranges DEF SendCommand, Delivered, WriteFails
<1>4. CASE MasterSendNext
  <2>1. SendCommand(NextTxn(currTxn)) /\ mpc = "next" /\ mpc' = "next"
    BY <1>4 DEF MasterSendNext
  <2>2. sendTo # NSlave + 1
    BY <1>3, <2>1, ConfigAssumption DEF Slave
  <2>3. QED BY <1>1, <1>2, <1>3, <2>1, <2>2, NextType DEF TypeOK
<1>5. CASE MasterSendStats
  <2>1. SendCommand(SendStats) /\ mpc = "stats"
    BY <1>5 DEF MasterSendStats
  <2>2. mpc' = "join" \/ (mpc' = "stats" /\ sendTo \notin broken')
    <3>1. CASE sendTo \in broken' BY <1>5, <3>1 DEF MasterSendStats
    <3>2. CASE sendTo \notin broken' BY <1>5, <3>2 DEF MasterSendStats
    <3>3. QED BY <3>1, <3>2
  <2>3. ASSUME sendTo \notin broken', NEW b \in broken' PROVE sendTo' <= b
    <3>1. b \in broken /\ sendTo \notin broken /\ sendTo' = sendTo + 1
      BY <1>3, <2>1, <2>3
    <3>2. sendTo <= b /\ sendTo # b /\ sendTo \in Slave /\ b \in Slave
      BY <1>2, <1>3, <2>1, <3>1
    <3>3. QED BY <3>1, <3>2, ConfigAssumption DEF Slave
  <2>4. QED BY <1>1, <1>2, <1>3, <2>1, <2>2, <2>3, NextType DEF TypeOK
<1>6. CASE MasterSendAbort
  <2>1. SendCommand(Abort) /\ mpc' = "abort"
    BY <1>6 DEF MasterSendAbort
  <2>2. QED BY <1>1, <1>2, <1>3, <2>1, NextType DEF TypeOK
<1>7. CASE MasterStep /\ ~MasterSendNext /\ ~MasterSendStats /\ ~MasterSendAbort
  <2>1. UNCHANGED broken
    BY <1>7 DEF MasterStep, MasterPoll, MasterPollSlaves, MasterBarrier, MasterUnlock, MasterDrain,
       MasterDecide, MasterKill, MasterAborted, MasterStatsSent, MasterReturned, MasterJoin, MasterGoodbye,
       MasterExit
  <2>2. mpc' = "barrier" => broken = {}
    BY <1>2, <1>7 DEF MasterStep, MasterPoll, MasterPollSlaves, MasterBarrier, MasterUnlock,
       MasterDrain, MasterDecide, MasterKill, MasterAborted, MasterStatsSent, MasterReturned, MasterJoin,
       MasterGoodbye, MasterExit
  <2>3. mpc' = "next" => broken = {}
    BY <1>7 DEF MasterStep, MasterPoll, MasterPollSlaves, MasterBarrier, MasterUnlock,
       MasterDrain, MasterDecide, MasterKill, MasterAborted, MasterStatsSent, MasterReturned, MasterJoin,
       MasterGoodbye, MasterExit
  <2>4. mpc' = "stats" => sendTo' = 1
    BY <1>7 DEF MasterStep, MasterPoll, MasterPollSlaves, MasterBarrier, MasterUnlock,
       MasterDrain, MasterDecide, MasterKill, MasterAborted, MasterStatsSent, MasterReturned, MasterJoin,
       MasterGoodbye, MasterExit
  <2>5. QED BY <1>1, <1>2, <2>1, <2>2, <2>3, <2>4 DEF Slave
<1>8. CASE MasterInterrupted
  BY <1>1, <1>2, <1>8 DEF MasterInterrupted
<1>9. CASE UNCHANGED <<mpc, sendTo, broken>>
  BY <1>1, <1>2, <1>9
<1> QED BY <1>4, <1>5, <1>6, <1>7, <1>8, <1>9, OnlyMasterMoves

-----------------------------------------------------------------------------
(* What a slave is told                                                     *)

\* One turn of send_command_to_slaves, as slave sl sees it.
LEMMA Sending ==
  ASSUME TypeOK, NEW c, SendCommand(c), NEW sl \in Slave, ~SlaveClosed(sl)
  PROVE  \/ /\ sendTo = sl /\ sl \notin broken
            /\ chan'[sl] = Append(chan[sl], c)
            /\ sendTo' = sl + 1 /\ broken' = broken
         \/ /\ sendTo # sl
            /\ chan'[sl] = chan[sl]
            /\ Reached(sl)' => Reached(sl) /\ (sl < sendTo <=> sl < sendTo')
<1>1. sendTo \in Int /\ sl \in Int /\ sl < NSlave + 1 /\ broken \subseteq Int
  BY ConfigAssumption DEF TypeOK, SendIndex, Slave
<1>2. sendTo \in Slave
  BY DEF SendCommand
<1>3. CASE Delivered(sendTo, c) /\ sendTo' = sendTo + 1
  <2>1. /\ sendTo \notin broken /\ broken' = broken
        /\ \/ chan' = chan /\ SlaveClosed(sendTo)
           \/ chan' = [chan EXCEPT ![sendTo] = Append(chan[sendTo], c)]
    BY <1>3 DEF Delivered
  <2>2. CASE sendTo = sl
    BY <1>3, <2>1, <2>2 DEF TypeOK
  <2>3. CASE sendTo # sl
    <3>1. chan'[sl] = chan[sl]
      BY <2>1, <2>3 DEF TypeOK
    <3>2. sl < sendTo <=> sl < sendTo'
      BY <1>1, <1>3, <2>3
    <3>3. QED BY <2>1, <2>3, <3>1, <3>2 DEF Reached
  <2>4. QED BY <2>2, <2>3
<1>4. CASE WriteFails(sendTo) /\ sendTo' = NSlave + 1
  BY <1>1, <1>2, <1>4 DEF WriteFails, Reached
<1> QED BY <1>3, <1>4 DEF SendCommand

\* A step that is not a send leaves alone what a slave has been told.
LEMMA ToldKept ==
  ASSUME TypeOK, [Next]_vars, NEW sl \in Slave, ~MasterSendNext, ~MasterSendStats,
         ~MasterSendAbort, Informing', Reached(sl)'
  PROVE  Informing /\ Reached(sl) /\ Told(sl)' = Told(sl)
<1>1. /\ NSlave \in Nat /\ sl \in Int /\ currTxn \in Nat /\ sendTo \in Int
      /\ 1 <= sl /\ sl < NSlave + 1
  BY ConfigAssumption DEF TypeOK, SendIndex, Slave
<1>2. CASE UNCHANGED <<mpc, currTxn, sendTo, broken>>
  BY <1>2 DEF Informing, Reached, Told
<1>3. CASE MasterStep
  <2>1. broken' = broken
    BY <1>3 DEF MasterStep, MasterPoll, MasterPollSlaves, MasterBarrier, MasterUnlock, MasterDrain,
       MasterDecide, MasterKill, MasterAborted, MasterStatsSent, MasterReturned, MasterJoin, MasterGoodbye,
       MasterExit
  <2>2. CASE MasterUnlock
    BY <1>1, <2>1, <2>2 DEF MasterUnlock, Informing, Reached, Told
  <2>3. CASE MasterBarrier
    BY <1>1, <2>1, <2>3 DEF MasterBarrier, Informing, Reached, Told
  <2>4. CASE MasterDecide
    BY <1>1, <2>1, <2>4 DEF MasterDecide, Informing, Reached, Told
  <2>5. CASE ~MasterUnlock /\ ~MasterBarrier /\ ~MasterDecide
    <3>1. /\ UNCHANGED currTxn
          /\ Informing /\ mpc \notin {"next", "stats"} /\ mpc' \notin {"next", "stats"}
      BY <1>3, <2>5 DEF MasterStep, MasterPoll, MasterPollSlaves, MasterDrain, MasterKill,
         MasterAborted, MasterStatsSent, MasterReturned, MasterJoin, MasterGoodbye, MasterExit, Informing
    <3>2. QED BY <2>1, <3>1 DEF Reached, Told
  <2>6. QED BY <2>2, <2>3, <2>4, <2>5
<1>4. CASE MasterInterrupted
  BY <1>4 DEF MasterInterrupted, Informing
<1> QED BY <1>2, <1>3, <1>4, OnlyMasterMoves

\* Only the master's sends and the slave's reads change a slave's channel.
LEMMA ChannelKept ==
  ASSUME TypeOK, [Next]_vars, NEW sl \in Slave, ~MasterSendNext, ~MasterSendStats,
         ~MasterSendAbort, ~SlaveCommand(sl)
  PROVE  chan'[sl] = chan[sl]
<1>1. ASSUME NEW s \in Strand, StrandStep(s) PROVE UNCHANGED chan
  BY <1>1 DEF StrandStep, StrandStart, ArriveAtBarrier, PassBarrier, TxnSucceeds, TxnFails,
     FlagErrorRead, FlagErrorWrite, StrandExit, StrandDies, netVars
<1>2. ASSUME MasterStep PROVE UNCHANGED chan
  BY <1>2 DEF MasterStep, MasterPoll, MasterPollSlaves, MasterBarrier, MasterUnlock, MasterDrain,
     MasterDecide, MasterKill, MasterAborted, MasterStatsSent, MasterReturned, MasterJoin, MasterGoodbye,
     MasterExit, netVars
<1>3. ASSUME MasterInterrupted PROVE UNCHANGED chan
  BY <1>3 DEF MasterInterrupted, netVars
<1>4. ASSUME NEW q \in Slave, SlaveStep(q), ~SlaveCommand(q) PROVE UNCHANGED chan
  BY <1>4 DEF SlaveStep, SlavePoll, SlaveIdle, SlaveEOF, SlaveSkips, SlaveUnlock, SlaveWaits,
     SlaveKill, SlaveJoin, SlaveGoodbye, netVars
<1>5. ASSUME NEW q \in Slave, SlaveCommand(q) PROVE chan'[sl] = chan[sl]
  <2>1. q # sl
    BY <1>5
  <2>2. chan' = [chan EXCEPT ![q] = Tail(chan[q])]
    BY <1>5 DEF SlaveCommand
  <2>3. QED BY <2>1, <2>2 DEF TypeOK
<1>6. ASSUME NEW q \in Slave, SlaveCrash(q) PROVE UNCHANGED chan
  BY <1>6 DEF SlaveCrash, netVars
<1>7. CASE UNCHANGED vars BY <1>7 DEF vars, netVars
<1>8. ASSUME NEW q \in Slave, SlaveStep(q) \/ SlaveCrash(q) PROVE chan'[sl] = chan[sl]
  BY <1>4, <1>5, <1>6, <1>8
<1> QED BY <1>1, <1>2, <1>3, <1>7, <1>8 DEF Next, Terminated

\* A step that leaves alone the slave's barriers and the transaction it waits for.
LEMMA CommandedKept ==
  ASSUME NEW sl \in Slave, NEW v,
         \A t \in Txn : barrier'[sl][t] = barrier[sl][t],
         unlocking'[sl] = unlocking[sl],
         spc'[sl] = "unlock" <=> spc[sl] = "unlock",
         Commanded(sl, v)
  PROVE  Commanded(sl, v)'
<1>1. \A n : Opened(sl, n) <=> \A t \in Txn : barrier'[sl][t] = "open" <=> t < n /\ t <= Ntxn[SlaveGroup[sl]]
  BY DEF Opened
<1>2. /\ Opened(sl, v)' <=> Opened(sl, v)
      /\ Opened(sl, unlocking[sl])' <=> Opened(sl, unlocking[sl])
  BY <1>1 DEF Opened
<1> QED BY <1>2 DEF Commanded, MoreTxns

\* wait_unlock_barrier is done with a transaction, by opening its barrier or by skipping it.
LEMMA NextOpened ==
  ASSUME TypeOK, NEW sl \in Slave, SlaveUnlock(sl) \/ SlaveSkips(sl), Opened(sl, unlocking[sl])
  PROVE  Opened(sl, unlocking[sl] + 1)'
<1> DEFINE n == unlocking[sl]
<1> DEFINE g == Ntxn[SlaveGroup[sl]]
<1>1. n \in Nat /\ g \in Nat /\ Txn \subseteq Nat /\ sl \in Proc
  BY ConfigAssumption, Ranges DEF TypeOK, Txn
<1>2. CASE SlaveUnlock(sl)
  <2>1. barrier' = [barrier EXCEPT ![sl][n] = "open"] /\ ~(n > g) /\ unlocking' = unlocking
    BY <1>2 DEF SlaveUnlock, SkipTxn
  <2>2. ASSUME NEW t \in Txn
        PROVE  barrier'[sl][t] = IF t = n THEN "open" ELSE barrier[sl][t]
    BY <1>1, <2>1 DEF TypeOK
  <2>3. \A t \in Txn : barrier'[sl][t] = "open" <=> t < n + 1 /\ t <= g
    BY <1>1, <2>1, <2>2 DEF Opened
  <2>4. QED BY <2>1, <2>3 DEF Opened
<1>3. CASE SlaveSkips(sl)
  <2>1. barrier' = barrier /\ n > g /\ unlocking' = unlocking
    BY <1>3 DEF SlaveSkips, SkipTxn
  <2>2. ASSUME NEW t \in Txn PROVE barrier[sl][t] = "open" <=> t < n + 1 /\ t <= g
    <3>1. t \in Nat
      BY <1>1
    <3>2. barrier[sl][t] = "open" <=> t < n /\ t <= g
      BY DEF Opened
    <3>3. t < n + 1 /\ t <= g <=> t < n /\ t <= g
      BY <1>1, <2>1, <3>1
    <3>4. QED BY <3>2, <3>3
  <2>3. QED BY <2>1, <2>2 DEF Opened
<1> QED BY <1>2, <1>3

-----------------------------------------------------------------------------
(* Each slave is commanded in order                                         *)

\* The command that send_command_to_slaves appends is the one that comes next.
LEMMA SendsInOrder ==
  ASSUME TypeOK, [Next]_vars, MasterInOrder, BrokenStops,
         MasterSendNext \/ MasterSendStats \/ MasterSendAbort,
         NEW sl \in Slave, Running(sl), NEW v \in 0 .. NumBarrier, InOrderAsTold(sl, v)
  PROVE  InOrderAsTold(sl, v)'
<1> DEFINE n == Len(chan[sl])
<1>1. /\ NumBarrier \in Nat /\ NSlave \in Nat /\ sl \in 1 .. NSlave /\ sl \in Int
      /\ v \in Nat /\ n \in Nat /\ currTxn \in Nat /\ chan[sl] \in Seq(Command)
  BY ConfigAssumption DEF TypeOK, Slave
<1>2. PICK c : /\ SendCommand(c)
               /\ \/ mpc = "next" /\ c = NextTxn(currTxn)
                  \/ mpc = "stats" /\ c = SendStats
                  \/ mpc = "abort" /\ c = Abort
               /\ mpc' = mpc \/ mpc' = "join"
               /\ UNCHANGED <<currTxn, spc, unlocking, barrier>>
  BY DEF MasterSendNext, MasterSendStats, MasterSendAbort, SendingUnchanged, slaveVars, shmVars
<1>3. ~SlaveClosed(sl)
  BY DEF Running, SlaveClosed
<1>4. Commanded(sl, v)'
  BY <1>2, CommandedKept DEF InOrderAsTold, InOrder
<1>5. CASE sendTo # sl
  <2>1. chan'[sl] = chan[sl] /\ (Reached(sl)' => Reached(sl) /\ (sl < sendTo <=> sl < sendTo'))
    BY <1>2, <1>3, <1>5, Sending
  <2>2. Informing' /\ Reached(sl)' => Informing /\ Reached(sl) /\ Told(sl)' = Told(sl)
    BY <1>2, <2>1 DEF Informing, Told
  <2>3. InOrder(sl, v)'
    BY <1>4, <2>1 DEF InOrderAsTold, InOrder, Follows, MoreTxns
  <2>4. QED BY <2>1, <2>2, <2>3 DEF InOrderAsTold
<1>6. CASE sendTo = sl
  <2>1. /\ sl \notin broken /\ broken' = broken
        /\ chan'[sl] = Append(chan[sl], c) /\ sendTo' = sl + 1
    BY <1>2, <1>3, <1>6, Sending
  <2>2. mpc = "next" \/ mpc = "stats" => Reached(sl)
    <3>1. broken \subseteq Int
      BY ConfigAssumption DEF TypeOK, Slave
    <3>2. sl # NSlave + 1
      BY <1>1
    <3>3. QED BY <1>1, <1>6, <2>1, <3>1, <3>2 DEF BrokenStops, Reached
  <2>3. mpc = "next" \/ mpc = "stats" => v + n = currTxn
    BY <1>1, <1>6, <2>2 DEF InOrderAsTold, Informing, Told
  <2>4. Follows(c, v + n)
    BY <1>2, <2>3 DEF Follows, NextTxn, SendStats, Abort, MasterInOrder
  <2>5. Len(chan'[sl]) = n + 1 /\ chan'[sl][n + 1] = c
        /\ \A i \in 1 .. n : chan'[sl][i] = chan[sl][i]
    BY <1>1, <2>1
  <2>6. ASSUME NEW i \in 1 .. n + 1 PROVE Follows(chan'[sl][i], v + i - 1)
    <3>1. CASE i = n + 1
      <4>1. v + i - 1 = v + n
        BY <1>1, <3>1
      <4>2. QED BY <2>4, <2>5, <3>1, <4>1
    <3>2. CASE i # n + 1
      <4>1. i \in 1 .. n
        BY <1>1, <3>2
      <4>2. QED BY <2>5, <4>1 DEF InOrderAsTold, InOrder
    <3>3. QED BY <3>1, <3>2
  <2>7. InOrder(sl, v)'
    BY <1>4, <2>5, <2>6 DEF InOrder, Follows, MoreTxns
  <2>8. Informing' /\ Reached(sl)' => v + Len(chan'[sl]) = Told(sl)'
    <3>1. Informing' => mpc' = mpc /\ (mpc = "next" \/ mpc = "stats")
      BY <1>2 DEF Informing
    <3>2. mpc \in {"next", "stats"} /\ mpc' = mpc => Told(sl)' = currTxn + 1
      BY <1>1, <1>2, <2>1 DEF Told
    <3>3. QED BY <1>1, <2>3, <2>5, <3>1, <3>2
  <2>9. QED BY <2>7, <2>8 DEF InOrderAsTold
<1> QED BY <1>5, <1>6

\* The slave acts on a command, or is done with one.
LEMMA ActsInOrder ==
  ASSUME TypeOK, [Next]_vars, NEW sl \in Slave, SlaveStep(sl), Running(sl)',
         NEW v \in 0 .. NumBarrier, InOrderAsTold(sl, v)
  PROVE  \E w \in 0 .. NumBarrier : InOrderAsTold(sl, w)'
<1>1. NumBarrier \in Nat /\ v \in Nat /\ chan[sl] \in Seq(Command) /\ unlocking[sl] \in Nat
  BY ConfigAssumption DEF TypeOK
<1>2. UNCHANGED <<mpc, currTxn, sendTo, broken>>
  BY DEF SlaveStep, SlavePoll, SlaveIdle, SlaveEOF, SlaveCommand, SlaveSkips, SlaveUnlock,
     SlaveWaits, SlaveKill, SlaveJoin, SlaveGoodbye, masterVars
<1>3. (Informing' <=> Informing) /\ (Reached(sl)' <=> Reached(sl)) /\ Told(sl)' = Told(sl)
  BY <1>2 DEF Informing, Reached, Told
<1>4. CASE SlaveCommand(sl)
  <2>1. /\ chan[sl] # <<>> /\ Head(chan[sl]).cmd = "NEXT_TXN"
        /\ unlocking'[sl] = Head(chan[sl]).value
        /\ spc[sl] = "command" /\ spc'[sl] = "unlock" /\ UNCHANGED barrier
        /\ chan'[sl] = Tail(chan[sl])
    BY <1>4 DEF SlaveCommand, TypeOK, Running, SlaveGoto, SlaveAborts, shmVars
  <2>2. /\ Head(chan[sl]) = chan[sl][1] /\ 1 \in 1 .. Len(chan[sl])
        /\ Len(chan'[sl]) = Len(chan[sl]) - 1 /\ Len(chan[sl]) \in Nat
        /\ \A i \in 1 .. Len(chan'[sl]) : i + 1 \in 1 .. Len(chan[sl]) /\ chan'[sl][i] = chan[sl][i + 1]
    BY <1>1, <2>1
  <2>3. Follows(Head(chan[sl]), v)
    <3>1. Follows(chan[sl][1], v + 1 - 1)
      BY <2>2 DEF InOrderAsTold, InOrder
    <3>2. QED BY <1>1, <2>2, <3>1
  <2>4. unlocking'[sl] = v /\ MoreTxns(v) /\ v + 1 \in 0 .. NumBarrier
    BY <1>1, <2>1, <2>3, MoreTxnsType DEF Follows
  <2>5. Opened(sl, v)
    BY <2>1 DEF InOrderAsTold, InOrder, Commanded
  <2>6. Commanded(sl, v + 1)'
    BY <2>1, <2>4, <2>5 DEF Commanded, Opened, MoreTxns
  <2>7. ASSUME NEW i \in 1 .. Len(chan'[sl]) PROVE Follows(chan'[sl][i], v + 1 + i - 1)
    <3>1. Follows(chan[sl][i + 1], v + (i + 1) - 1)
      BY <2>2 DEF InOrderAsTold, InOrder
    <3>2. v + (i + 1) - 1 = v + 1 + i - 1
      BY <1>1, <2>2
    <3>3. QED BY <2>2, <3>1, <3>2
  <2>8. InOrder(sl, v + 1)'
    BY <2>6, <2>7 DEF InOrder, Follows, MoreTxns
  <2>9. v + 1 + Len(chan'[sl]) = v + Len(chan[sl])
    <3>1. ASSUME NEW a \in Nat, NEW b, b = a - 1 PROVE v + 1 + b = v + a
      BY <1>1, <3>1
    <3>2. QED BY <2>2, <3>1
  <2>10. InOrderAsTold(sl, v + 1)'
    BY <1>3, <2>8, <2>9 DEF InOrderAsTold
  <2>11. QED BY <2>4, <2>10
<1>5. ASSUME ~SlaveCommand(sl), Commanded(sl, v)' PROVE InOrderAsTold(sl, v)'
  <2>1. chan'[sl] = chan[sl]
    BY <1>5 DEF SlaveStep, SlavePoll, SlaveIdle, SlaveEOF, SlaveSkips, SlaveUnlock, SlaveWaits,
       SlaveKill, SlaveJoin, SlaveGoodbye, netVars
  <2>2. QED BY <1>3, <1>5, <2>1 DEF InOrderAsTold, InOrder, Follows, MoreTxns
<1>6. CASE SlaveUnlock(sl) \/ SlaveSkips(sl)
  <2>1. /\ spc[sl] = "unlock" /\ spc'[sl] = "poll" /\ UNCHANGED unlocking
    BY <1>6 DEF SlaveUnlock, SlaveSkips, SlaveGoto, TypeOK
  <2>2. v = unlocking[sl] + 1 /\ Opened(sl, unlocking[sl])
    BY <2>1 DEF InOrderAsTold, InOrder, Commanded
  <2>3. Opened(sl, v)'
    BY <1>6, <2>1, <2>2, NextOpened DEF Opened
  <2>4. Commanded(sl, v)'
    BY <2>1, <2>3 DEF Commanded
  <2>5. ~SlaveCommand(sl)
    BY <2>1 DEF SlaveCommand
  <2>6. QED BY <1>5, <2>4, <2>5
<1>7. CASE ~SlaveCommand(sl) /\ ~SlaveUnlock(sl) /\ ~SlaveSkips(sl)
  <2>1. unlocking'[sl] = unlocking[sl] /\ (spc'[sl] = "unlock" <=> spc[sl] = "unlock")
    BY <1>7 DEF SlaveStep, SlavePoll, SlaveIdle, SlaveEOF, SlaveWaits, SlaveKill, SlaveJoin,
       SlaveGoodbye, SlaveGoto, SlaveAborts, TypeOK, Running
  <2>2. \A t \in Txn : barrier'[sl][t] = barrier[sl][t]
    BY <1>7, SlaveBarriers
  <2>3. Commanded(sl, v)'
    BY <2>1, <2>2, CommandedKept DEF InOrderAsTold, InOrder
  <2>4. QED BY <1>5, <1>7, <2>3
<1> QED BY <1>4, <1>6, <1>7

LEMMA CommandsAreToldKept ==
  TypeOK /\ MasterInOrder /\ BrokenStops /\ CommandsAreTold /\ [Next]_vars => CommandsAreTold'
<1> SUFFICES ASSUME TypeOK, MasterInOrder, BrokenStops, CommandsAreTold, [Next]_vars,
                    NEW sl \in Slave, Running(sl)'
             PROVE  \E v \in 0 .. NumBarrier : InOrderAsTold(sl, v)'
  BY DEF CommandsAreTold
<1>1. Running(sl)
  BY OnlySlaveMoves DEF Running, TypeOK, SlaveStep, SlavePoll, SlaveIdle, SlaveEOF, SlaveCommand,
     SlaveSkips, SlaveUnlock, SlaveWaits, SlaveKill, SlaveJoin, SlaveGoodbye, SlaveCrash,
     SlaveGoto, SlaveAborts
<1>2. PICK v \in 0 .. NumBarrier : InOrderAsTold(sl, v)
  BY <1>1 DEF CommandsAreTold
<1>3. CASE SlaveStep(sl)
  BY <1>2, <1>3, ActsInOrder
<1>4. CASE SlaveCrash(sl)
  BY <1>4 DEF SlaveCrash, SlaveGoto, TypeOK, Running
<1>5. CASE MasterSendNext \/ MasterSendStats \/ MasterSendAbort
  BY <1>1, <1>2, <1>5, SendsInOrder
<1>6. CASE ~SlaveStep(sl) /\ ~SlaveCrash(sl) /\ ~MasterSendNext /\ ~MasterSendStats /\ ~MasterSendAbort
  <2>1. spc'[sl] = spc[sl] /\ unlocking'[sl] = unlocking[sl]
    BY <1>6, OnlySlaveMoves
  <2>2. chan'[sl] = chan[sl]
    BY <1>6, ChannelKept DEF SlaveStep
  <2>3. \A t \in Txn : barrier'[sl][t] = barrier[sl][t]
    BY <1>6, SlaveBarriers DEF SlaveStep
  <2>4. Commanded(sl, v)'
    BY <1>2, <2>1, <2>3, CommandedKept DEF InOrderAsTold, InOrder
  <2>5. InOrder(sl, v)'
    BY <1>2, <2>2, <2>4 DEF InOrderAsTold, InOrder, Follows, MoreTxns
  <2>6. Informing' /\ Reached(sl)' => Informing /\ Reached(sl) /\ Told(sl)' = Told(sl)
    BY <1>6, ToldKept
  <2>7. QED BY <1>2, <2>2, <2>5, <2>6 DEF InOrderAsTold
<1> QED BY <1>3, <1>4, <1>5, <1>6

-----------------------------------------------------------------------------
(* The end of a slave                                                       *)

LEMMA SerrorKept ==
  ASSUME TypeOK, [Next]_vars, NEW sl \in Slave, serror[sl]
  PROVE  serror'[sl]
<1>1. ASSUME NEW s \in Strand, StrandStep(s) PROVE UNCHANGED serror
  BY <1>1 DEF StrandStep, StrandStart, ArriveAtBarrier, PassBarrier, TxnSucceeds, TxnFails,
     FlagErrorRead, FlagErrorWrite, StrandExit, StrandDies, slaveVars
<1>2. ASSUME MasterStep PROVE UNCHANGED serror
  BY <1>2 DEF MasterStep, MasterPoll, MasterPollSlaves, MasterBarrier, MasterSendNext,
     MasterUnlock, MasterDrain, MasterDecide, MasterKill, MasterSendAbort, MasterAborted,
     MasterSendStats, MasterStatsSent, MasterReturned, MasterJoin, MasterGoodbye, MasterExit,
     SendingUnchanged, slaveVars
<1>3. ASSUME MasterInterrupted PROVE UNCHANGED serror
  BY <1>3 DEF MasterInterrupted, slaveVars
<1>4. ASSUME NEW q \in Slave, SlaveStep(q) PROVE serror'[sl]
  <2>1. UNCHANGED serror \/ serror' = [serror EXCEPT ![q] = TRUE]
    BY <1>4 DEF SlaveStep, SlavePoll, SlaveIdle, SlaveEOF, SlaveCommand, SlaveSkips, SlaveUnlock,
       SlaveWaits, SlaveKill, SlaveJoin, SlaveGoodbye, SlaveAborts
  <2>2. QED BY <2>1 DEF TypeOK
<1>5. ASSUME NEW q \in Slave, SlaveCrash(q) PROVE UNCHANGED serror
  BY <1>5 DEF SlaveCrash
<1>6. CASE UNCHANGED vars BY <1>6 DEF vars, slaveVars
<1> QED BY <1>1, <1>2, <1>3, <1>4, <1>5, <1>6 DEF Next, Terminated

LEMMA KillsOnErrorKept == TypeOK /\ KillsOnError /\ [Next]_vars => KillsOnError'
<1> SUFFICES ASSUME TypeOK, KillsOnError, [Next]_vars, NEW sl \in Slave, spc'[sl] = "kill"
             PROVE  serror'[sl]
  BY DEF KillsOnError
<1>1. spc[sl] = "kill" \/ SlaveStep(sl)
  BY OnlySlaveMoves DEF SlaveCrash, SlaveGoto, TypeOK
<1>2. CASE SlaveStep(sl)
  BY <1>2 DEF SlaveStep, SlavePoll, SlaveIdle, SlaveEOF, SlaveCommand, SlaveSkips, SlaveUnlock,
     SlaveWaits, SlaveKill, SlaveJoin, SlaveGoodbye, SlaveGoto, SlaveAborts, TypeOK
<1>3. CASE spc[sl] = "kill" /\ ~SlaveStep(sl)
  BY <1>3, SerrorKept DEF KillsOnError
<1> QED BY <1>1, <1>2, <1>3

\* slave_master_poll returns 0 only for SEND_STATS, which follows the last transaction.
LEMMA StatsAfterLastTxnKept ==
  /\ TypeOK /\ LockedForWaiters /\ KillsOnError /\ CommandsAreTold /\ StatsAfterLastTxn
  /\ [Next]_vars
  => StatsAfterLastTxn'
<1> SUFFICES ASSUME TypeOK, LockedForWaiters, KillsOnError, CommandsAreTold, StatsAfterLastTxn,
                    [Next]_vars, NEW sl \in Slave, spc'[sl] = "join", ~serror'[sl],
                    NEW t \in Txn
             PROVE  barrier'[sl][t] # "locked"
  BY DEF StatsAfterLastTxn
<1>1. SUFFICES barrier[sl][t] # "locked"
  BY OpensOrStays, Ranges
<1>2. ~serror[sl]
  BY SerrorKept
<1>3. CASE spc[sl] = "join"
  BY <1>2, <1>3 DEF StatsAfterLastTxn
<1>4. CASE spc[sl] # "join"
  <2>1. SlaveStep(sl)
    BY <1>4, OnlySlaveMoves DEF SlaveCrash, SlaveGoto, TypeOK
  <2>2. /\ SlaveCommand(sl) /\ spc[sl] = "command"
        /\ chan[sl] # <<>> /\ Head(chan[sl]).cmd = "SEND_STATS"
    BY <1>2, <1>4, <2>1 DEF KillsOnError, SlaveStep, SlavePoll, SlaveIdle, SlaveEOF, SlaveCommand,
       SlaveSkips, SlaveUnlock, SlaveWaits, SlaveKill, SlaveJoin, SlaveGoodbye, SlaveGoto,
       SlaveAborts, TypeOK
  <2>3. PICK v \in 0 .. NumBarrier : InOrderAsTold(sl, v)
    BY <2>2 DEF CommandsAreTold, Running
  <2>4. v \in Nat /\ ~MoreTxns(v) /\ Opened(sl, v)
    <3>1. chan[sl] \in Seq(Command) /\ v \in Nat
      BY DEF TypeOK
    <3>2. Head(chan[sl]) = chan[sl][1] /\ 1 \in 1 .. Len(chan[sl])
      BY <2>2, <3>1
    <3>3. Follows(chan[sl][1], v + 1 - 1)
      BY <2>3, <3>2 DEF InOrderAsTold, InOrder
    <3>4. v + 1 - 1 = v
      BY <3>1
    <3>5. QED BY <2>2, <2>3, <3>1, <3>2, <3>3, <3>4 DEF Follows, InOrderAsTold, InOrder, Commanded
  <2>5. ASSUME NEW s \in Waiters(sl, t) PROVE t < v /\ t <= Ntxn[SlaveGroup[sl]]
    <3>1. s \in Strand /\ Home[s] = sl /\ t < NtxnOf(s) /\ sl # Master
      BY <2>5, ConfigAssumption DEF Waiters, StrandsOf, Slave, Master
    <3>2. NtxnOf(s) = Ntxn[SlaveGroup[sl]] /\ NtxnOf(s) <= v
      BY <2>4, <3>1, ConfigAssumption, MoreTxnsType DEF NtxnOf
    <3>3. t \in Nat /\ NtxnOf(s) \in Nat /\ v \in Nat
      BY <2>4, <3>1, TxnsType DEF Txn
    <3>4. QED BY <3>1, <3>2, <3>3
  <2>6. QED BY <2>4, <2>5, Ranges DEF Opened, LockedForWaiters
<1> QED BY <1>3, <1>4

-----------------------------------------------------------------------------
(* The inductive invariant                                                  *)

LEMMA NothingAheadKept == TypeOK /\ NothingAhead /\ [Next]_vars => NothingAhead'
<1> SUFFICES ASSUME TypeOK, NothingAhead, [Next]_vars PROVE NothingAhead'
  OBVIOUS
<1>1. currTxn' \in {currTxn, currTxn + 1}
  BY OnlyMasterMoves DEF MasterInterrupted, MasterStep, MasterPoll, MasterPollSlaves, MasterBarrier,
     MasterSendNext, MasterUnlock, MasterDrain, MasterDecide, MasterKill, MasterSendAbort,
     MasterAborted, MasterSendStats, MasterStatsSent, MasterReturned, MasterJoin, MasterGoodbye, MasterExit,
     SendingUnchanged
<1>2. TypeOK' /\ currTxn \in Nat /\ \A sl \in Slave : chan[sl] \in Seq(Command)
  BY NextType DEF TypeOK
<1>3. ASSUME NEW sl \in Slave, NEW i \in 1 .. Len(chan'[sl]), chan'[sl][i].cmd = "NEXT_TXN"
      PROVE  chan'[sl][i].value <= currTxn
  <2>1. CASE MasterSendNext \/ MasterSendStats \/ MasterSendAbort
    <3>1. PICK c \in Command : SendCommand(c) /\ (c.cmd = "NEXT_TXN" => c.value = currTxn)
      BY <1>2, <2>1, CommandTypes DEF MasterSendNext, MasterSendStats, MasterSendAbort, NextTxn,
         SendStats, Abort
    <3>2. QED BY <1>2, <1>3, <3>1, AppendedCommand DEF NothingAhead
  <2>2. CASE SlaveCommand(sl)
    <3>1. chan'[sl] = Tail(chan[sl]) /\ chan[sl] # <<>>
      BY <2>2 DEF SlaveCommand, TypeOK
    <3>2. i + 1 \in 1 .. Len(chan[sl]) /\ chan'[sl][i] = chan[sl][i + 1]
      BY <1>2, <3>1
    <3>3. QED BY <1>3, <3>2 DEF NothingAhead
  <2>3. CASE ~SlaveCommand(sl) /\ ~MasterSendNext /\ ~MasterSendStats /\ ~MasterSendAbort
    <3>1. chan'[sl] = chan[sl]
      BY <2>3, ChannelKept
    <3>2. QED BY <1>3, <3>1 DEF NothingAhead
  <2>4. QED BY <2>1, <2>2, <2>3
<1>4. ASSUME NEW sl \in Slave, spc'[sl] = "unlock" PROVE unlocking'[sl] <= currTxn
  <2>1. CASE spc[sl] = "unlock" /\ unlocking'[sl] = unlocking[sl]
    BY <2>1 DEF NothingAhead
  <2>2. CASE /\ chan[sl] # <<>>
             /\ Head(chan[sl]).cmd = "NEXT_TXN"
             /\ unlocking'[sl] = Head(chan[sl]).value
    <3>1. Head(chan[sl]) = chan[sl][1] /\ 1 \in 1 .. Len(chan[sl])
      BY <1>2, <2>2
    <3>2. QED BY <2>2, <3>1 DEF NothingAhead
  <2>3. QED BY <1>4, <2>1, <2>2, SlaveGoesToUnlock
<1>5. \A n \in Nat : n <= currTxn => n <= currTxn'
  BY <1>1, <1>2
<1>6. /\ \A sl \in Slave : unlocking'[sl] \in Nat
      /\ \A sl \in Slave : \A i \in 1 .. Len(chan'[sl]) : chan'[sl][i].value \in Nat
  <2>1. ASSUME NEW sl \in Slave, NEW i \in 1 .. Len(chan'[sl]) PROVE chan'[sl][i] \in Command
    <3>1. chan'[sl] \in Seq(Command)
      BY <1>2 DEF TypeOK
    <3>2. QED BY <3>1
  <2>2. QED BY <1>2, <2>1 DEF TypeOK, Command
<1> QED BY <1>3, <1>4, <1>5, <1>6 DEF NothingAhead

LEMMA InitOInv == Init => OInv
<1> SUFFICES ASSUME Init PROVE OInv
  OBVIOUS
<1>1. IInv
  BY InitIInv
<1>2. /\ \A p \in Proc, t \in Txn : barrier[p][t] = InitBarrier(p, t) /\ t \in Nat
      /\ NumBarrier \in Nat /\ Master \in Proc
  BY Ranges, ConfigAssumption DEF Init, Txn
<1>3. \A p \in Proc, t \in Txn : barrier[p][t] # "open"
  BY <1>2 DEF InitBarrier
<1>4. LockedForWaiters
  BY <1>2 DEF InitBarrier, LockedForWaiters
<1>5. PassedIsOpen
  BY <1>2 DEF Init, PassedIsOpen
<1>6. MasterInOrder
  <2>1. currTxn = 0 /\ mpc = "poll"
    BY DEF Init
  <2>2. QED BY <1>2, <1>3, <2>1 DEF MasterInOrder
<1>7. NothingAhead
  BY DEF Init, NothingAhead
<1>8. BrokenStops
  BY DEF Init, BrokenStops
<1>9. CommandsAreTold
  <2>1. ASSUME NEW sl \in Slave PROVE InOrderAsTold(sl, 0)
    <3>1. /\ spc[sl] = "poll" /\ chan[sl] = <<>> /\ currTxn = 0 /\ mpc = "poll"
      BY DEF Init
    <3>2. Opened(sl, 0)
      <4>1. ASSUME NEW t \in Txn PROVE barrier[sl][t] # "open" /\ ~(t < 0)
        BY <1>2, <1>3, Ranges
      <4>2. QED BY <4>1 DEF Opened
    <3>3. Len(chan[sl]) = 0 /\ 1 .. Len(chan[sl]) = {}
      BY <3>1
    <3>4. InOrder(sl, 0)
      <4>1. Commanded(sl, 0)
        BY <3>1, <3>2 DEF Commanded
      <4>2. QED BY <3>3, <4>1 DEF InOrder
    <3>5. QED BY <3>1, <3>3, <3>4 DEF InOrderAsTold, Told
  <2>2. 0 \in 0 .. NumBarrier
    BY <1>2
  <2>3. QED BY <2>1, <2>2 DEF CommandsAreTold
<1>10. KillsOnError /\ StatsAfterLastTxn
  BY DEF Init, KillsOnError, StatsAfterLastTxn
<1> QED BY <1>1, <1>4, <1>5, <1>6, <1>7, <1>8, <1>9, <1>10 DEF OInv

LEMMA NextOInv == OInv /\ [Next]_vars => OInv'
<1>1. IInv => TypeOK /\ TxnInRange /\ BegunIsReleased
  BY DEF IInv
<1> QED BY <1>1, NextIInv, LockedForWaitersKept, PassedIsOpenKept, MasterInOrderKept,
   NothingAheadKept, BrokenStopsKept, CommandsAreToldKept, KillsOnErrorKept,
   StatsAfterLastTxnKept DEF OInv

\* send_command_to_slaves, slave_master_poll and the barriers of both sides together.
THEOREM OrderInvariance == Spec => []OInv
BY InitOInv, NextOInv, PTL DEF Spec

\* A slave that runs is commanded the transactions one after the other, none twice and none
\* left out, whatever sends fail and whoever dies.
THEOREM CommandsAreInOrder == Spec => []CommandsInOrder
<1>1. OInv => CommandsInOrder
  BY DEF OInv, CommandsAreTold, InOrderAsTold, CommandsInOrder
<1>2. QED BY <1>1, OrderInvariance, PTL

\* No strand is left at a barrier by a slave that joins its strands to send statistics.
THEOREM StatsComeLast == Spec => []StatsAfterLastTxn
BY OrderInvariance, PTL DEF OInv

-----------------------------------------------------------------------------
(* The refinement of LockStep: how many barriers are open                  *)

OpenIn(p) == {t \in Txn : barrier[p][t] = "open"}

LEMMA TxnsBelow ==
  ASSUME NEW n \in 0 .. NumBarrier
  PROVE  LET S == {t \in Txn : t < n} IN IsFiniteSet(S) /\ Cardinality(S) = n
<1>1. n \in Nat /\ NumBarrier \in Nat /\ n <= NumBarrier
  BY ConfigAssumption
<1>2. {t \in Txn : t < n} = 0 .. n - 1
  BY <1>1 DEF Txn
<1>3. IsFiniteSet(0 .. n - 1) /\ Cardinality(0 .. n - 1) = n
  <2>1. 0 \in Int /\ n - 1 \in Int
    BY <1>1
  <2>2. /\ IsFiniteSet(0 .. n - 1)
        /\ Cardinality(0 .. n - 1) = IF 0 > n - 1 THEN 0 ELSE n - 1 - 0 + 1
    BY <2>1, FS_Interval
  <2>3. QED BY <1>1, <2>2
<1> QED BY <1>2, <1>3

LEMMA OpenFinite ==
  \A p : /\ IsFiniteSet(OpenIn(p))
         /\ Released(p) = Cardinality(OpenIn(p)) /\ Released(p) \in Nat
<1>1. IsFiniteSet(Txn)
  BY ConfigAssumption, FS_Interval DEF Txn
<1>2. \A p : OpenIn(p) \subseteq Txn
  BY DEF OpenIn
<1>3. \A p : IsFiniteSet(OpenIn(p))
  BY <1>1, <1>2, FS_Subset
<1>4. \A p : Cardinality(OpenIn(p)) \in Nat
  BY <1>3, FS_CardinalityType
<1> QED BY <1>3, <1>4 DEF OpenIn, Released

LEMMA ReleasedBelow ==
  ASSUME NEW p, NEW n \in 0 .. NumBarrier, \A t \in Txn : barrier[p][t] = "open" <=> t < n
  PROVE  Released(p) = n
<1>1. OpenIn(p) = {t \in Txn : t < n}
  BY DEF OpenIn
<1> QED BY <1>1, TxnsBelow, OpenFinite

\* One more barrier of one process is open.
LEMMA ReleasesOne ==
  ASSUME TypeOK, NEW p \in Proc, NEW n \in Txn, barrier[p][n] # "open",
         barrier' = [barrier EXCEPT ![p][n] = "open"]
  PROVE  \A q \in Proc : Released(q)' = IF q = p THEN Released(q) + 1 ELSE Released(q)
<1>1. ASSUME NEW q \in Proc, q # p PROVE OpenIn(q)' = OpenIn(q)
  <2>1. \A t \in Txn : barrier'[q][t] = barrier[q][t]
    BY <1>1, OneOpens
  <2>2. QED BY <2>1 DEF OpenIn
<1>2. OpenIn(p)' = OpenIn(p) \cup {n} /\ n \notin OpenIn(p)
  <2>1. ASSUME NEW t \in Txn
        PROVE  barrier'[p][t] = IF t = n THEN "open" ELSE barrier[p][t]
    BY DEF TypeOK
  <2>2. QED BY <2>1 DEF OpenIn
<1>3. Cardinality(OpenIn(p)') = Cardinality(OpenIn(p)) + 1
  BY <1>2, OpenFinite, FS_AddElement
<1>4. \A q : Released(q)' = Cardinality(OpenIn(q)')
  BY DEF Released, OpenIn
<1> QED BY <1>1, <1>3, <1>4, OpenFinite

LEMMA ReleasedSame ==
  ASSUME \A p \in Proc, t \in Txn : barrier'[p][t] = barrier[p][t]
  PROVE  \A p \in Proc : Released(p)' = Released(p)
<1>1. \A p \in Proc : OpenIn(p)' = OpenIn(p)
  BY DEF OpenIn
<1>2. \A p \in Proc : Released(p)' = Cardinality(OpenIn(p)')
  BY DEF Released, OpenIn
<1> QED BY <1>1, <1>2, OpenFinite

-----------------------------------------------------------------------------
(* What is announced                                                        *)

LEMMA AnnouncedSame ==
  ASSUME TypeOK, currTxn' = currTxn,
         \A r \in Strand, t \in Nat : HasArrived(r, t)' <=> HasArrived(r, t)
  PROVE  Announced' = Announced
<1>1. AllArrived(Master, currTxn)' <=> AllArrived(Master, currTxn)
  BY DEF TypeOK, AllArrived, HasArrived, Waiters, StrandsOf, NtxnOf
<1> QED BY <1>1 DEF Announced, MoreTxns

\* No strand of the master comes to the barrier after one that is still closed.
LEMMA NoneArrivedBehind ==
  ASSUME TypeOK, TxnInRange, PassedIsOpen, NEW n \in Txn, barrier[Master][n] # "open",
         MoreTxns(n + 1)
  PROVE  ~AllArrived(Master, n + 1)
<1>1. PICK g \in Group : n + 1 < Ntxn[g]
  BY DEF MoreTxns
<1>2. PICK s \in StrandsOf(Master) : GroupOf[s] = g
  BY PopulationAssumption
<1>3. s \in Strand /\ Home[s] = Master /\ n + 1 < NtxnOf(s) /\ n \in Nat
  BY <1>1, <1>2 DEF StrandsOf, NtxnOf, Txn
<1>4. ~(n < txn[s])
  BY <1>3 DEF PassedIsOpen
<1>5. ~HasArrived(s, n + 1)
  BY <1>3, <1>4 DEF HasArrived, TypeOK
<1> QED BY <1>2, <1>3, <1>5 DEF AllArrived, Waiters

\* curr_txn++ announces nothing new: the strands are still behind the barrier.
LEMMA AnnouncedByUnlock ==
  ASSUME OInv, [Next]_vars, MasterUnlock
  PROVE  Announced' = Announced /\ Announced = currTxn + 1 /\ Released(Master) = currTxn
<1>1. mpc = "next" /\ currTxn' = currTxn + 1 /\ UNCHANGED <<pc, txn>>
  BY DEF MasterUnlock, strandVars
<1>2. currTxn \in Txn /\ MoreTxns(currTxn) /\ AllArrived(Master, currTxn)
      /\ currTxn \in Nat /\ currTxn \in 0 .. NumBarrier
  BY <1>1 DEF OInv, IInv, TypeOK, AnnouncedMeansArrived, MasterInOrder
<1>3. barrier[Master][currTxn] # "open"
  BY <1>2 DEF OInv, MasterInOrder
<1>4. ASSUME MoreTxns(currTxn + 1) PROVE ~AllArrived(Master, currTxn)'
  <2>1. ~AllArrived(Master, currTxn + 1)
    BY <1>2, <1>3, <1>4, NoneArrivedBehind DEF OInv, IInv
  <2>2. QED BY <1>1, <2>1 DEF AllArrived, HasArrived, Waiters, StrandsOf, NtxnOf
<1>5. Released(Master) = currTxn
  BY <1>2, ReleasedBelow DEF OInv, MasterInOrder
<1> QED BY <1>1, <1>2, <1>4, <1>5 DEF Announced, MoreTxns

-----------------------------------------------------------------------------
(* Every step is a step of LockStep                                         *)

\* How many transactions strand s began.
Begins(s) == IF Begun(s) THEN txn[s] + 1 ELSE txn[s]

LEMMA MappedFunctions ==
  /\ Promise!vars = <<Announced, [p \in Proc |-> Released(p)],
                      [s \in Strand |-> Begins(s)], txn>>
  /\ (Promise!vars)' = <<Announced', [p \in Proc |-> Released(p)'],
                         [s \in Strand |-> Begins(s)'], txn'>>
BY DEF Promise!vars, Begins

LEMMA UnlockReleases ==
  ASSUME OInv, [Next]_vars, NEW p \in Proc, NEW n \in Txn,
         barrier' = [barrier EXCEPT ![p][n] = "open"], barrier[p][n] # "open",
         Released(p) = n, n < Announced, AllArrived(p, n),
         Announced' = Announced, UNCHANGED <<pc, txn, failed>>
  PROVE  Promise!Next
<1>1. TypeOK /\ TxnInRange
  BY DEF OInv, IInv
<1>2. \A q \in Proc : Released(q)' = IF q = p THEN Released(q) + 1 ELSE Released(q)
  BY <1>1, ReleasesOne
<1>3. [q \in Proc |-> Released(q)'] = [[q \in Proc |-> Released(q)] EXCEPT ![p] = @ + 1]
  BY <1>2
<1>4. [s \in Strand |-> Begins(s)'] = [s \in Strand |-> Begins(s)]
  BY DEF Begins, Begun
<1>5. ASSUME NEW s \in Strand, Home[s] = p, n < NtxnOf(s) PROVE txn[s] >= n
  <2>1. HasArrived(s, n)
    BY <1>5 DEF AllArrived, Waiters, StrandsOf
  <2>2. n \in Nat /\ txn[s] \in Nat
    BY <1>1 DEF Txn, TypeOK
  <2>3. QED BY <2>1, <2>2 DEF HasArrived
<1>6. Promise!Completed(p, n)
  BY <1>5 DEF Promise!Completed
<1>7. Promise!Release(p)
  BY <1>3, <1>4, <1>6 DEF Promise!Release, Begins
<1> QED BY <1>7 DEF Promise!Next

LEMMA NobodyArrives ==
  ASSUME TypeOK, TxnInRange, [Next]_vars, UNCHANGED <<count, currTxn>>
  PROVE  Announced' = Announced
<1>1. ASSUME NEW s \in Strand, txn[s] \in Txn,
             count' = [count EXCEPT ![Home[s]][txn[s]] = @ + 1]
      PROVE  FALSE
  <2>1. count'[Home[s]][txn[s]] = count[Home[s]][txn[s]] + 1
    BY <1>1, HomeType DEF TypeOK
  <2>2. count[Home[s]][txn[s]] \in Nat
    BY <1>1, HomeType DEF TypeOK
  <2>3. QED BY <2>1, <2>2
<1>2. \A r \in Strand, t \in Nat : HasArrived(r, t)' <=> HasArrived(r, t)
  BY <1>1, ArrivalStep
<1> QED BY <1>2, AnnouncedSame

LEMMA SameIsStutter ==
  ASSUME TypeOK, TxnInRange, [Next]_vars, UNCHANGED <<count, currTxn, barrier, txn>>,
         \A s \in Strand : Begun(s)' <=> Begun(s)
  PROVE  UNCHANGED Promise!vars
<1>1. Announced' = Announced
  BY NobodyArrives
<1>2. \A p \in Proc : Released(p)' = Released(p)
  BY ReleasedSame
<1>3. \A s \in Strand : Begins(s)' = Begins(s)
  BY DEF Begins
<1> QED BY <1>1, <1>2, <1>3, MappedFunctions

\* wait_barrier: the last strand of the master to come announces the transaction.
LEMMA ArrivalAnnounces ==
  ASSUME OInv, [Next]_vars, NEW s \in Strand, ArriveAtBarrier(s)
  PROVE  [Promise!Next]_(Promise!vars)
<1>1. TypeOK /\ TxnInRange /\ currTxn \in 0 .. NumBarrier /\ currTxn \in Nat
  BY DEF OInv, IInv, MasterInOrder, TypeOK
<1>2. /\ UNCHANGED <<txn, failed, barrier, currTxn>>
      /\ pc[s] = "arrive" /\ pc' = [pc EXCEPT ![s] = "wait"]
  BY DEF ArriveAtBarrier, Runs, Goto, masterVars
<1>3. \A r \in Strand : Begins(r)' = Begins(r)
  BY <1>1, <1>2 DEF Begins, Begun, TypeOK
<1>4. \A p \in Proc : Released(p)' = Released(p)
  BY <1>2, ReleasedSame
<1>5. CASE Announced' = Announced
  BY <1>2, <1>3, <1>4, <1>5, MappedFunctions
<1>6. CASE Announced' # Announced
  <2>1. Announced = currTxn /\ Announced' = currTxn + 1 /\ AllArrived(Master, currTxn)'
    <3>1. AllArrived(Master, currTxn) => AllArrived(Master, currTxn)'
      BY <1>1, <1>2, ArrivedForGood, Ranges DEF AllArrived, HasArrived, Waiters, StrandsOf, NtxnOf
    <3>2. QED BY <1>1, <1>2, <1>6, <3>1 DEF Announced, MoreTxns
  <2>2. Released(Master) = currTxn
    BY <1>1, ReleasedBelow DEF OInv, MasterInOrder
  <2>3. ASSUME NEW r \in Strand, Home[r] = Master, currTxn < NtxnOf(r) PROVE txn[r] >= currTxn
    <3>1. HasArrived(r, currTxn)'
      BY <1>2, <2>1, <2>3 DEF AllArrived, Waiters, StrandsOf, NtxnOf
    <3>2. txn'[r] >= currTxn'
      BY <1>1, <1>2, <3>1 DEF HasArrived, TypeOK
    <3>3. QED BY <1>2, <3>2
  <2>4. Promise!Completed(Master, currTxn)
    BY <2>3 DEF Promise!Completed
  <2>5. Promise!Announce
    <3>1. [p \in Proc |-> Released(p)][Master] = currTxn
      BY <2>2, Ranges
    <3>2. QED BY <1>2, <1>3, <1>4, <2>1, <2>4, <3>1 DEF Promise!Announce, Begins
  <2>6. QED BY <2>5 DEF Promise!Next
<1> QED BY <1>5, <1>6

\* A strand passes the open barrier.
LEMMA PassageBegins ==
  ASSUME OInv, [Next]_vars, NEW s \in Strand, PassBarrier(s)
  PROVE  [Promise!Next]_(Promise!vars)
<1>1. TypeOK /\ TxnInRange
  BY DEF OInv, IInv
<1>2. /\ UNCHANGED <<txn, failed, barrier, currTxn, count>>
      /\ pc[s] = "wait" /\ barrier[Home[s]][txn[s]] # "locked"
      /\ pc' = [pc EXCEPT ![s] = "exit"] \/ pc' = [pc EXCEPT ![s] = "execute"]
  BY DEF PassBarrier, Runs, Goto, masterVars, shmVars
<1>3. CASE pc' = [pc EXCEPT ![s] = "exit"]
  BY <1>1, <1>2, <1>3, SameIsStutter DEF Begun, TypeOK
<1>4. CASE pc' = [pc EXCEPT ![s] = "execute"]
  <2>1. Announced' = Announced /\ \A p \in Proc : Released(p)' = Released(p)
    BY <1>1, <1>2, NobodyArrives, ReleasedSame
  <2>2. ~Begun(s) /\ Begun(s)' /\ txn[s] < NtxnOf(s) /\ txn[s] \in Txn /\ Home[s] \in Proc
    BY <1>1, <1>2, <1>4, TxnsType, HomeType DEF TypeOK, TxnInRange, Begun
  <2>3. \A r \in Strand : Begins(r)' = IF r = s THEN Begins(r) + 1 ELSE Begins(r)
    BY <1>1, <1>2, <1>4, <2>2 DEF Begins, Begun, TypeOK
  <2>4. [r \in Strand |-> Begins(r)'] = [[r \in Strand |-> Begins(r)] EXCEPT ![s] = @ + 1]
    BY <2>3
  <2>5. barrier[Home[s]][txn[s]] = "open"
    <3>1. s \in Waiters(Home[s], txn[s])
      BY <2>2 DEF Waiters, StrandsOf
    <3>2. QED BY <1>1, <1>2, <2>2, <3>1 DEF TypeOK, OInv, IInv, BarrierForWaiters
  <2>6. txn[s] < Released(Home[s])
    <3>1. txn[s] \in Nat /\ txn[s] + 1 \in 0 .. NumBarrier /\ NumBarrier \in Nat
      BY <2>2, ConfigAssumption DEF Txn
    <3>2. {t \in Txn : t < txn[s] + 1} \subseteq OpenIn(Home[s])
      <4>1. ASSUME NEW t \in Txn, t < txn[s] + 1 PROVE barrier[Home[s]][t] = "open"
        <5>1. t < txn[s] \/ t = txn[s]
          BY <3>1, <4>1 DEF Txn
        <5>2. QED BY <2>5, <5>1 DEF OInv, PassedIsOpen
      <4>2. QED BY <4>1 DEF OpenIn
    <3>3. txn[s] + 1 <= Released(Home[s])
      <4>1. Cardinality({t \in Txn : t < txn[s] + 1}) = txn[s] + 1
        BY <3>1, TxnsBelow
      <4>2. Cardinality({t \in Txn : t < txn[s] + 1}) <= Cardinality(OpenIn(Home[s]))
        BY <3>2, OpenFinite, FS_Subset
      <4>3. QED BY <4>1, <4>2, OpenFinite
    <3>4. QED BY <3>1, <3>3, OpenFinite
  <2>7. Begins(s) = txn[s]
    BY <2>2 DEF Begins
  <2>8. Promise!Begin(s)
    BY <1>2, <2>1, <2>2, <2>4, <2>6, <2>7 DEF Promise!Begin, Begins
  <2>9. QED BY <2>8 DEF Promise!Next
<1> QED BY <1>2, <1>3, <1>4

\* txn_execute returns.
LEMMA SuccessEnds ==
  ASSUME OInv, [Next]_vars, NEW s \in Strand, TxnSucceeds(s)
  PROVE  [Promise!Next]_(Promise!vars)
<1>1. TypeOK /\ TxnInRange
  BY DEF OInv, IInv
<1>2. /\ UNCHANGED <<failed, barrier, currTxn, count>>
      /\ pc[s] = "execute" /\ txn' = [txn EXCEPT ![s] = @ + 1]
      /\ pc' = [pc EXCEPT ![s] = "arrive"] \/ pc' = [pc EXCEPT ![s] = "exit"]
  BY DEF TxnSucceeds, Runs, Goto, masterVars, shmVars
<1>3. Announced' = Announced /\ \A p \in Proc : Released(p)' = Released(p)
  BY <1>1, <1>2, NobodyArrives, ReleasedSame
<1>4. Begun(s) /\ ~Begun(s)' /\ txn[s] \in Nat
  BY <1>1, <1>2 DEF TypeOK, TxnInRange, Begun
<1>5. \A r \in Strand : Begins(r)' = Begins(r)
  BY <1>1, <1>2, <1>4 DEF Begins, Begun, TypeOK
<1>6. Begins(s) = txn[s] + 1
  BY <1>4 DEF Begins
<1>7. Promise!End(s)
  BY <1>2, <1>3, <1>4, <1>5, <1>6 DEF Promise!End, Begins
<1> QED BY <1>7 DEF Promise!Next

LEMMA StrandsImplement ==
  ASSUME OInv, [Next]_vars, NEW s \in Strand, StrandStep(s)
  PROVE  [Promise!Next]_(Promise!vars)
<1>1. TypeOK /\ TxnInRange
  BY DEF OInv, IInv
<1>2. CASE ArriveAtBarrier(s) BY <1>2, ArrivalAnnounces
<1>3. CASE PassBarrier(s) BY <1>3, PassageBegins
<1>4. CASE TxnSucceeds(s) BY <1>4, SuccessEnds
<1>5. CASE ~ArriveAtBarrier(s) /\ ~PassBarrier(s) /\ ~TxnSucceeds(s)
  <2>1. UNCHANGED <<count, currTxn, barrier, txn>>
    BY <1>5 DEF StrandStep, StrandStart, TxnFails, FlagErrorRead, FlagErrorWrite, StrandExit,
       StrandDies, masterVars, shmVars
  <2>2. \A r \in Strand : Begun(r)' <=> Begun(r)
    BY <1>1, <1>5 DEF StrandStep, StrandStart, TxnFails, FlagErrorRead, FlagErrorWrite, StrandExit,
       StrandDies, Runs, Goto, Begun, TypeOK
  <2>3. QED BY <1>1, <2>1, <2>2, SameIsStutter
<1> QED BY <1>2, <1>3, <1>4, <1>5

\* unlock_barrier(curr_bar) and curr_txn++ of master_poll.
LEMMA MasterReleases ==
  ASSUME OInv, [Next]_vars, MasterUnlock
  PROVE  [Promise!Next]_(Promise!vars)
<1>1. /\ mpc = "next" /\ UNCHANGED <<pc, txn, failed>>
      /\ barrier' = [barrier EXCEPT ![Master][currTxn] = "open"]
  BY DEF MasterUnlock, strandVars
<1>2. Announced' = Announced /\ Announced = currTxn + 1 /\ Released(Master) = currTxn
  BY AnnouncedByUnlock
<1>3. currTxn \in Txn /\ AllArrived(Master, currTxn) /\ currTxn \in Nat
  BY <1>1 DEF OInv, IInv, TypeOK, AnnouncedMeansArrived
<1>4. barrier[Master][currTxn] # "open"
  BY <1>3 DEF OInv, MasterInOrder
<1>5. currTxn < Announced
  BY <1>2, <1>3
<1>6. Promise!Next
  BY <1>1, <1>2, <1>3, <1>4, <1>5, UnlockReleases, Ranges
<1> QED BY <1>6

\* wait_unlock_barrier of a slave.
LEMMA SlaveReleases ==
  ASSUME OInv, [Next]_vars, NEW sl \in Slave, SlaveUnlock(sl)
  PROVE  [Promise!Next]_(Promise!vars)
<1> DEFINE n == unlocking[sl]
<1>1. /\ TypeOK /\ TxnInRange /\ CountIsExact /\ sl \in Proc
      /\ n \in Nat /\ currTxn \in Nat /\ NumBarrier \in Nat
  BY Ranges, ConfigAssumption DEF OInv, IInv, TypeOK
<1>2. /\ spc[sl] = "unlock" /\ BarrierReached(sl, n) /\ n <= Ntxn[SlaveGroup[sl]]
      /\ UNCHANGED <<pc, txn, failed, count, currTxn>>
      /\ barrier' = [barrier EXCEPT ![sl][n] = "open"]
  <2>1. Ntxn[SlaveGroup[sl]] \in Nat
    BY ConfigAssumption
  <2>2. n <= Ntxn[SlaveGroup[sl]]
    BY <1>1, <2>1 DEF SlaveUnlock, SkipTxn
  <2>3. UNCHANGED <<pc, txn, failed, count, currTxn>>
    BY DEF SlaveUnlock, strandVars, masterVars
  <2>4. QED BY <2>2, <2>3 DEF SlaveUnlock
<1>3. PICK v \in 0 .. NumBarrier : InOrderAsTold(sl, v)
  BY <1>2 DEF OInv, CommandsAreTold, Running
<1>4. MoreTxns(n) /\ Opened(sl, n)
  BY <1>2, <1>3 DEF InOrderAsTold, InOrder, Commanded
<1>5. n \in Txn /\ n \in 0 .. NumBarrier
  BY <1>1, <1>4, MoreTxnsType
<1>6. Released(sl) = n
  <2>1. ASSUME NEW t \in Txn PROVE barrier[sl][t] = "open" <=> t < n
    <3>1. t \in Nat /\ Ntxn[SlaveGroup[sl]] \in Nat
      BY ConfigAssumption DEF Txn
    <3>2. t < n => t <= Ntxn[SlaveGroup[sl]]
      BY <1>1, <1>2, <3>1
    <3>3. QED BY <1>4, <3>2 DEF Opened
  <2>2. QED BY <1>5, <2>1, ReleasedBelow
<1>7. barrier[sl][n] # "open"
  BY <1>1, <1>4, <1>5 DEF Opened
<1>8. AllArrived(sl, n)
  BY <1>1, <1>2, <1>5, ReachedIffArrived DEF ReachedMeansAllArrived
<1>9. n < Announced
  <2>1. n <= currTxn /\ AllArrived(Master, n)
    BY <1>2 DEF OInv, IInv, NothingAhead, AnnouncedMeansArrived
  <2>2. CASE n = currTxn
    BY <1>1, <1>4, <2>1, <2>2 DEF Announced
  <2>3. CASE n < currTxn
    BY <1>1, <2>3 DEF Announced
  <2>4. QED BY <1>1, <2>1, <2>2, <2>3
<1>10. Announced' = Announced
  BY <1>1, <1>2, NobodyArrives
<1>11. Promise!Next
  BY <1>1, <1>2, <1>5, <1>6, <1>7, <1>8, <1>9, <1>10, UnlockReleases
<1> QED BY <1>11

\* The rest of the master and of the slaves moves no strand and no barrier.
LEMMA OthersStutter ==
  ASSUME OInv, [Next]_vars, ~MasterUnlock, \A s \in Strand : ~StrandStep(s),
         \A sl \in Slave : ~SlaveUnlock(sl)
  PROVE  UNCHANGED Promise!vars
<1>1. TypeOK /\ TxnInRange
  BY DEF OInv, IInv
<1>2. UNCHANGED barrier
  BY BarrierStep
<1>3. UNCHANGED <<pc, txn, failed, count>>
  BY OnlyStrandsMove
<1>4. UNCHANGED currTxn
  BY OnlyMasterMoves DEF MasterInterrupted, MasterStep, MasterPoll, MasterPollSlaves, MasterBarrier,
     MasterSendNext, MasterDrain, MasterDecide, MasterKill, MasterSendAbort, MasterAborted,
     MasterSendStats, MasterStatsSent, MasterReturned, MasterJoin, MasterGoodbye, MasterExit, SendingUnchanged
<1>5. \A s \in Strand : Begun(s)' <=> Begun(s)
  BY <1>3 DEF Begun
<1> QED BY <1>1, <1>2, <1>3, <1>4, <1>5, SameIsStutter

LEMMA InitImplements == Init => Promise!Init
<1> SUFFICES ASSUME Init PROVE Promise!Init
  OBVIOUS
<1>1. OInv /\ TypeOK /\ TxnInRange
  BY InitOInv DEF OInv, IInv
<1>2. currTxn = 0 /\ txn = [s \in Strand |-> 0]
      /\ \A s \in Strand : pc[s] = "start" /\ ~failed[s]
  BY DEF Init
<1>3. \A p \in Proc : Released(p) = 0
  <2>1. \A p \in Proc : OpenIn(p) = {}
    BY DEF Init, InitBarrier, OpenIn
  <2>2. QED BY <2>1, OpenFinite, FS_EmptySet
<1>4. Announced = 0
  <2>1. ASSUME MoreTxns(0) PROVE ~AllArrived(Master, 0)
    <3>1. PICK g \in Group : 0 < Ntxn[g]
      BY <2>1 DEF MoreTxns
    <3>2. PICK s \in StrandsOf(Master) : GroupOf[s] = g
      BY PopulationAssumption
    <3>3. s \in Strand /\ s \in Waiters(Master, 0)
      BY <3>1, <3>2 DEF StrandsOf, Waiters, NtxnOf
    <3>4. ~HasArrived(s, 0)
      BY <1>2, <3>3 DEF HasArrived
    <3>5. QED BY <3>3, <3>4 DEF AllArrived
  <2>2. QED BY <1>2, <2>1 DEF Announced
<1>5. \A s \in Strand : Begins(s) = 0
  BY <1>2 DEF Begins, Begun
<1> QED BY <1>2, <1>3, <1>4, <1>5 DEF Promise!Init, Begins

\* The barriers and the NEXT_TXN commands of all the processes together keep the promise of
\* LockStep: each step of RunControl announces, releases, begins or ends a transaction in
\* its order, or changes nothing of that.
THEOREM RunControlImplementsLockStep == Spec => ImplementsLockStep
<1>1. OInv /\ [Next]_vars => [Promise!Next]_(Promise!vars)
  BY StrandsImplement, MasterReleases, SlaveReleases, OthersStutter
<1>2. QED BY <1>1, InitImplements, OrderInvariance, PTL DEF Spec, ImplementsLockStep, Promise!Spec
=============================================================================
