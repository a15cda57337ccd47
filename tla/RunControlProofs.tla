-------------------------- MODULE RunControlProofs --------------------------
(***************************************************************************)
(* The theorems of RunControl, for any number of slaves, strands, groups    *)
(* and transactions.                                                        *)
(***************************************************************************)
EXTENDS RunControl, FiniteSetTheorems, TLAPS

-----------------------------------------------------------------------------
(* Type correctness                                                        *)

LEMMA HomeType == \A s \in Strand : Home[s] \in Proc /\ GroupOf[s] \in Group
BY ConfigAssumption

LEMMA KilledProcessesType == KilledProcesses \in Nat
<1>1. IsFiniteSet({s \in ProcStrand : kill[s] = "dead"})
  <2>1. {s \in ProcStrand : kill[s] = "dead"} \subseteq Strand
    BY ConfigAssumption DEF StrandsOf
  <2>2. QED BY <2>1, FS_Subset, ConfigAssumption
<1>2. QED BY <1>1, FS_CardinalityType DEF KilledProcesses

LEMMA Ranges ==
  /\ Master \in Proc
  /\ Slave \subseteq Proc
  /\ 0 \in Txn
  /\ 1 \in SendIndex
  /\ NSlave + 1 \in SendIndex
  /\ \A sl \in Slave : sl + 1 \in SendIndex
BY ConfigAssumption DEF Master, Proc, Slave, SendIndex, Txn

LEMMA AddErrorType ==
  ASSUME globalError \in [Proc -> Nat], NEW p \in Proc, NEW e \in Nat, AddError(p, e)
  PROVE  globalError' \in [Proc -> Nat]
BY DEF AddError

LEMMA CountUpType ==
  ASSUME count \in [Proc -> [Txn -> Nat]], NEW p \in Proc, NEW t,
         count' = [count EXCEPT ![p][t] = @ + 1]
  PROVE  count' \in [Proc -> [Txn -> Nat]]
<1> DEFINE row == [count[p] EXCEPT ![t] = @ + 1]
<1>1. row \in [Txn -> Nat]
  <2> DEFINE old == count[p]
  <2>1. old \in [Txn -> Nat]
    OBVIOUS
  <2>2. row = [old EXCEPT ![t] = old[t] + 1]
    OBVIOUS
  <2> HIDE DEF old
  <2>3. CASE t \in Txn
    <3>1. old[t] + 1 \in Nat
      BY <2>1, <2>3
    <3>2. QED BY <2>1, <2>2, <3>1
  <2>4. CASE t \notin Txn
    <3>1. row = old
      BY <2>1, <2>2, <2>4
    <3>2. QED BY <2>1, <3>1
  <2> QED BY <2>3, <2>4
<1>2. count' = [count EXCEPT ![p] = row]
  OBVIOUS
<1> HIDE DEF row
<1> QED BY <1>1, <1>2

LEMMA OpenType ==
  ASSUME barrier \in [Proc -> [Txn -> {"none", "locked", "open"}]], NEW p \in Proc, NEW t,
         barrier' = [barrier EXCEPT ![p][t] = "open"]
  PROVE  barrier' \in [Proc -> [Txn -> {"none", "locked", "open"}]]
<1> DEFINE row == [barrier[p] EXCEPT ![t] = "open"]
<1>1. row \in [Txn -> {"none", "locked", "open"}]
  OBVIOUS
<1>2. barrier' = [barrier EXCEPT ![p] = row]
  OBVIOUS
<1> HIDE DEF row
<1> QED BY <1>1, <1>2

LEMMA KillType ==
  ASSUME kill \in [Strand -> {"none", "sent", "dead"}], NEW S, Kill(S)
  PROVE  kill' \in [Strand -> {"none", "sent", "dead"}]
BY DEF Kill

LEMMA CalloutType == \A p : CalloutResult(p) \subseteq Nat
BY DEF CalloutResult

LEMMA AppendType ==
  ASSUME chan \in [Slave -> Seq(Command)], NEW sl \in Slave, NEW c \in Command,
         chan' = [chan EXCEPT ![sl] = Append(@, c)]
  PROVE  chan' \in [Slave -> Seq(Command)]
<1> DEFINE next == Append(chan[sl], c)
<1>1. next \in Seq(Command)
  OBVIOUS
<1>2. chan' = [chan EXCEPT ![sl] = next]
  OBVIOUS
<1> HIDE DEF next
<1> QED BY <1>1, <1>2

LEMMA SendType ==
  ASSUME TypeOK, NEW c \in Command, SendCommand(c)
  PROVE  /\ chan' \in [Slave -> Seq(Command)]
         /\ broken' \subseteq Slave
         /\ sendTo' \in SendIndex
<1>1. sendTo \in Slave
  BY DEF SendCommand
<1>2. CASE Delivered(sendTo, c) /\ sendTo' = sendTo + 1
  <2>1. chan' \in [Slave -> Seq(Command)]
    BY <1>1, <1>2, AppendType DEF Delivered, TypeOK
  <2>2. QED BY <1>1, <1>2, <2>1, Ranges DEF Delivered, TypeOK
<1>3. CASE WriteFails(sendTo) /\ sendTo' = NSlave + 1
  BY <1>1, <1>3, Ranges DEF WriteFails, TypeOK
<1> QED BY <1>2, <1>3 DEF SendCommand

LEMMA CommandTypes ==
  /\ \A t \in Nat : NextTxn(t) \in Command
  /\ Abort \in Command
  /\ SendStats \in Command
BY DEF NextTxn, Abort, SendStats, Command

LEMMA InitType == Init => TypeOK
<1> SUFFICES ASSUME Init PROVE TypeOK
  OBVIOUS
<1>1. barrier \in [Proc -> [Txn -> {"none", "locked", "open"}]]
  BY DEF Init, InitBarrier
<1>2. chan \in [Slave -> Seq(Command)]
  <2>1. <<>> \in Seq(Command)
    OBVIOUS
  <2>2. QED BY <2>1 DEF Init
<1>3. sendTo \in SendIndex
  BY Ranges DEF Init
<1>4. QED BY <1>1, <1>2, <1>3 DEF Init, TypeOK, StrandPC, MasterPC, SlavePC

LEMMA NextType == TypeOK /\ [Next]_vars => TypeOK'
<1> SUFFICES ASSUME TypeOK, [Next]_vars PROVE TypeOK'
  OBVIOUS
<1> USE HomeType, Ranges, AddErrorType, CalloutType DEF TypeOK, strandVars, shmVars, masterVars, slaveVars, netVars,
    StrandPC, MasterPC, SlavePC
<1>1. ASSUME NEW s \in Strand, StrandStep(s) PROVE TypeOK'
  <2>1. CASE StrandStart(s) BY <2>1 DEF StrandStart, Runs, Goto
  <2>2. CASE ArriveAtBarrier(s)
    <3>1. count' \in [Proc -> [Txn -> Nat]]
      BY <2>2, CountUpType DEF ArriveAtBarrier
    <3>2. QED BY <2>2, <3>1 DEF ArriveAtBarrier, Runs, Goto
  <2>3. CASE PassBarrier(s) BY <2>3 DEF PassBarrier, Runs, Goto
  <2>4. CASE TxnSucceeds(s) BY <2>4 DEF TxnSucceeds, Runs, Goto
  <2>5. CASE TxnFails(s) BY <2>5 DEF TxnFails, Runs, Goto
  <2>6. CASE FlagErrorRead(s) BY <2>6 DEF FlagErrorRead, Runs, Goto
  <2>7. CASE FlagErrorWrite(s) BY <2>7 DEF FlagErrorWrite, Runs, Goto
  <2>8. CASE StrandExit(s) BY <2>8 DEF StrandExit, Runs, Goto
  <2>9. CASE StrandDies(s) BY <2>9 DEF StrandDies
  <2> QED BY <1>1, <2>1, <2>2, <2>3, <2>4, <2>5, <2>6, <2>7, <2>8, <2>9 DEF StrandStep
<1>2. CASE MasterStep
  <2>1. CASE MasterPoll BY <2>1 DEF MasterPoll
  <2>2. CASE MasterPollSlaves BY <2>2 DEF MasterPollSlaves
  <2>3. CASE MasterBarrier BY <2>3 DEF MasterBarrier
  <2>4. CASE MasterSendNext
    <3>1. NextTxn(currTxn) \in Command
      BY CommandTypes
    <3>2. QED BY <2>4, <3>1, SendType DEF MasterSendNext, SendingUnchanged
  <2>5. CASE MasterUnlock
    <3>1. barrier' \in [Proc -> [Txn -> {"none", "locked", "open"}]]
      BY <2>5, OpenType DEF MasterUnlock
    <3>2. QED BY <2>5, <3>1 DEF MasterUnlock
  <2>6. CASE MasterDrain BY <2>6 DEF MasterDrain
  <2>7. CASE MasterDecide BY <2>7 DEF MasterDecide
  <2>8. CASE MasterKill
    <3>1. kill' \in [Strand -> {"none", "sent", "dead"}]
      BY <2>8, KillType DEF MasterKill
    <3>2. QED BY <2>8, <3>1 DEF MasterKill
  <2>9. CASE MasterSendAbort BY <2>9, SendType, CommandTypes DEF MasterSendAbort, SendingUnchanged
  <2>10. CASE MasterAborted BY <2>10 DEF MasterAborted
  <2>11. CASE MasterSendStats BY <2>11, SendType, CommandTypes DEF MasterSendStats, SendingUnchanged
  <2>12. CASE MasterStatsSent BY <2>12 DEF MasterStatsSent
  <2>13. CASE MasterJoin BY KilledProcessesType, <2>13 DEF MasterJoin
  <2>14. CASE MasterGoodbye BY <2>14 DEF MasterGoodbye
  <2>15. CASE MasterExit BY <2>15 DEF MasterExit, ExitStatus
  <2>16. CASE MasterReturned BY <2>16 DEF MasterReturned
  <2> QED BY <1>2, <2>1, <2>2, <2>3, <2>4, <2>5, <2>6, <2>7, <2>8, <2>9, <2>10, <2>11, <2>12, <2>13, <2>14, <2>15, <2>16 DEF MasterStep
<1>3. CASE MasterInterrupted BY <1>3 DEF MasterInterrupted
<1>4. ASSUME NEW sl \in Slave, SlaveStep(sl) PROVE TypeOK'
  <2>1. CASE SlavePoll(sl) BY <2>1 DEF SlavePoll, SlaveGoto, SlaveAborts
  <2>2. CASE SlaveIdle(sl) BY <2>2 DEF SlaveIdle, SlaveGoto
  <2>3. CASE SlaveEOF(sl) BY <2>3 DEF SlaveEOF, SlaveGoto, SlaveAborts
  <2>4. CASE SlaveCommand(sl)
    <3> DEFINE c == Head(chan[sl])
    <3>1. c \in Command /\ Tail(chan[sl]) \in Seq(Command)
      BY <2>4 DEF SlaveCommand
    <3>2. c.value \in Nat
      BY <3>1 DEF Command
    <3>3. chan' \in [Slave -> Seq(Command)]
      BY <2>4, <3>1 DEF SlaveCommand
    <3>4. unlocking' \in [Slave -> Nat]
      BY <2>4, <3>2 DEF SlaveCommand
    <3>5. waitTime' \in [Slave -> Nat]
      <4>1. waitTime' = waitTime \/ waitTime' = [waitTime EXCEPT ![sl] = MaxWait]
        BY <2>4 DEF SlaveCommand
      <4>2. MaxWait \in Nat
        BY ConfigAssumption
      <4> QED BY <4>1, <4>2
    <3>6. spc' \in [Slave -> SlavePC] /\ serror' \in [Slave -> BOOLEAN]
      BY <2>4 DEF SlaveCommand, SlaveGoto, SlaveAborts
    <3>7. QED BY <2>4, <3>3, <3>4, <3>5, <3>6 DEF SlaveCommand
  <2>5. CASE SlaveSkips(sl) BY <2>5 DEF SlaveSkips, SlaveGoto
  <2>6. CASE SlaveUnlock(sl) BY <2>6 DEF SlaveUnlock, SlaveGoto
  <2>7. CASE SlaveWaits(sl)
    <3>1. /\ spc' \in [Slave -> SlavePC]
          /\ serror' \in [Slave -> BOOLEAN]
      <4>1. SlaveAborts(sl) \/ UNCHANGED <<spc, serror>>
        BY <2>7 DEF SlaveWaits
      <4> QED BY <4>1 DEF SlaveGoto, SlaveAborts
    <3>2. waitTime' \in [Slave -> Nat]
      <4>1. \/ waitTime' = waitTime
            \/ waitTime' = [waitTime EXCEPT ![sl] = IF waitTime[sl] = 0 THEN 0 ELSE waitTime[sl] - 1]
        BY <2>7 DEF SlaveWaits
      <4>2. waitTime[sl] \in Nat
        OBVIOUS
      <4>3. (IF waitTime[sl] = 0 THEN 0 ELSE waitTime[sl] - 1) \in Nat
        BY <4>2
      <4> QED BY <4>1, <4>3
    <3>3. globalError' \in [Proc -> Nat]
      BY <2>7 DEF SlaveWaits
    <3>4. QED BY <2>7, <3>1, <3>2, <3>3 DEF SlaveWaits
  <2>8. CASE SlaveKill(sl)
    <3>1. kill' \in [Strand -> {"none", "sent", "dead"}]
      BY <2>8, KillType DEF SlaveKill
    <3>2. spc' \in [Slave -> SlavePC]
      <4>1. SlaveGoto(sl, "done") \/ SlaveGoto(sl, "join")
        BY <2>8 DEF SlaveKill
      <4>2. QED BY <4>1 DEF SlaveGoto
    <3>3. QED BY <2>8, <3>1, <3>2 DEF SlaveKill
  <2>9. CASE SlaveJoin(sl) BY <2>9 DEF SlaveJoin, SlaveGoto
  <2>10. CASE SlaveGoodbye(sl) BY <2>10 DEF SlaveGoodbye, SlaveGoto, SlaveAborts
  <2> QED BY <1>4, <2>1, <2>2, <2>3, <2>4, <2>5, <2>6, <2>7, <2>8, <2>9, <2>10 DEF SlaveStep
<1>5. ASSUME NEW sl \in Slave, SlaveCrash(sl) PROVE TypeOK'
  <2>1. spc' \in [Slave -> SlavePC] /\ crashes' \in Nat
    BY <1>5 DEF SlaveCrash, SlaveGoto
  <2> QED BY <1>5, <2>1 DEF SlaveCrash
<1>6. CASE UNCHANGED vars BY <1>6 DEF vars
<1> HIDE HomeType, Ranges, AddErrorType, CalloutType DEF TypeOK, strandVars, shmVars,
    masterVars, slaveVars, netVars, StrandPC, MasterPC, SlavePC
<1> QED BY <1>1, <1>2, <1>3, <1>4, <1>5, <1>6 DEF Next, Terminated

\* Every variable keeps its type, whatever the strands, the master and the slaves do.
THEOREM TypeCorrect == Spec => []TypeOK
BY InitType, NextType, PTL DEF Spec

\* flag_error, shm_process_callouts and wait_for_strands only ever add to the error count,
\* and the lost update in flag_error still writes at least one.
LEMMA ErrorKept ==
  ASSUME TypeOK, [Next]_vars, NEW p \in Proc, globalError[p] > 0
  PROVE  globalError'[p] > 0
<1> USE Ranges, CalloutType DEF TypeOK
<1>1. ASSUME NEW q \in Proc, NEW e \in Nat, AddError(q, e) PROVE globalError'[p] > 0
  BY <1>1 DEF AddError
<1>2. ASSUME NEW s \in Strand, StrandStep(s) PROVE globalError'[p] > 0
  <2>1. CASE FlagErrorWrite(s)
    BY <2>1, HomeType DEF FlagErrorWrite
  <2>2. CASE ~FlagErrorWrite(s)
    <3>1. UNCHANGED globalError
      BY <1>2, <2>2 DEF StrandStep, StrandStart, ArriveAtBarrier, PassBarrier, TxnSucceeds,
         TxnFails, FlagErrorRead, StrandExit, StrandDies, shmVars
    <3>2. QED BY <3>1
  <2>3. QED BY <2>1, <2>2
<1>3. CASE MasterStep
  <2>1. CASE MasterPollSlaves BY <1>1, <2>1 DEF MasterPollSlaves
  <2>2. CASE MasterDrain BY <1>1, <2>2 DEF MasterDrain
  <2>3. CASE MasterJoin BY <1>1, <2>3, KilledProcessesType DEF MasterJoin
  <2>4. CASE MasterUnlock BY <2>4 DEF MasterUnlock
  <2>5. CASE ~(MasterPollSlaves \/ MasterDrain \/ MasterJoin \/ MasterUnlock)
    <3>1. UNCHANGED globalError
      BY <1>3, <2>5 DEF MasterStep, MasterPoll, MasterBarrier, MasterSendNext, MasterDecide,
         MasterKill, MasterSendAbort, MasterAborted, MasterSendStats, MasterStatsSent, MasterReturned,
         MasterGoodbye, MasterExit, SendingUnchanged, shmVars
    <3>2. QED BY <3>1
  <2>6. QED BY <2>1, <2>2, <2>3, <2>4, <2>5
<1>4. CASE MasterInterrupted BY <1>4 DEF MasterInterrupted, shmVars
<1>5. ASSUME NEW sl \in Slave, SlaveStep(sl) PROVE globalError'[p] > 0
  <2>1. CASE SlaveIdle(sl) BY <1>1, <2>1 DEF SlaveIdle
  <2>2. CASE SlaveSkips(sl) BY <1>1, <2>2 DEF SlaveSkips
  <2>3. CASE SlaveUnlock(sl) BY <1>1, <2>3 DEF SlaveUnlock
  <2>4. CASE SlaveWaits(sl) BY <1>1, <2>4 DEF SlaveWaits
  <2>5. CASE ~(SlaveIdle(sl) \/ SlaveSkips(sl) \/ SlaveUnlock(sl) \/ SlaveWaits(sl))
    <3>1. UNCHANGED globalError
      BY <1>5, <2>5 DEF SlaveStep, SlavePoll, SlaveEOF, SlaveCommand, SlaveKill, SlaveJoin,
         SlaveGoodbye, shmVars
    <3>2. QED BY <3>1
  <2>6. QED BY <2>1, <2>2, <2>3, <2>4, <2>5
<1>6. ASSUME NEW sl \in Slave, SlaveCrash(sl) PROVE globalError'[p] > 0
  BY <1>6 DEF SlaveCrash, shmVars
<1>7. CASE UNCHANGED vars BY <1>7 DEF vars, shmVars
<1> QED BY <1>2, <1>3, <1>4, <1>5, <1>6, <1>7 DEF Next, Terminated

\* No step brings the error count of a process back to zero.
THEOREM ErrorsAreSticky == Spec => ErrorIsSticky
<1>1. TypeOK /\ [Next]_vars => [\A p \in Proc : globalError[p] > 0 => globalError'[p] > 0]_vars
  BY ErrorKept
<1>2. QED BY <1>1, TypeCorrect, PTL DEF Spec, ErrorIsSticky

-----------------------------------------------------------------------------
(* Arrivals at the barriers                                                *)

LEMMA TxnsType ==
  /\ \A s \in Strand : NtxnOf(s) \in 1 .. NumBarrier
  /\ \A s \in Strand, n \in Nat : n < NtxnOf(s) => n \in Txn
BY ConfigAssumption DEF NtxnOf, Txn

\* Only strands change where a strand is.
LEMMA OnlyStrandsMove ==
  ASSUME [Next]_vars
  PROVE  (\E s \in Strand : StrandStep(s)) \/ UNCHANGED <<pc, txn, failed, count>>
<1>1. CASE MasterStep
  BY <1>1 DEF MasterStep, MasterPoll, MasterPollSlaves, MasterBarrier, MasterSendNext,
     MasterUnlock, MasterDrain, MasterDecide, MasterKill, MasterSendAbort, MasterAborted,
     MasterSendStats, MasterStatsSent, MasterReturned, MasterJoin, MasterGoodbye, MasterExit,
     SendingUnchanged, strandVars, shmVars
<1>2. CASE MasterInterrupted BY <1>2 DEF MasterInterrupted, strandVars, shmVars
<1>3. ASSUME NEW sl \in Slave, SlaveStep(sl) PROVE UNCHANGED <<pc, txn, failed, count>>
  BY <1>3 DEF SlaveStep, SlavePoll, SlaveIdle, SlaveEOF, SlaveCommand, SlaveSkips,
     SlaveUnlock, SlaveWaits, SlaveKill, SlaveJoin, SlaveGoodbye, strandVars, shmVars
<1>4. ASSUME NEW sl \in Slave, SlaveCrash(sl) PROVE UNCHANGED <<pc, txn, failed, count>>
  BY <1>4 DEF SlaveCrash, strandVars, shmVars
<1>5. CASE UNCHANGED vars BY <1>5 DEF vars, strandVars, shmVars
<1> QED BY <1>1, <1>2, <1>3, <1>4, <1>5 DEF Next, Terminated

LEMMA TxnInRangeKept == TypeOK /\ TxnInRange /\ [Next]_vars => TxnInRange'
<1> SUFFICES ASSUME TypeOK, TxnInRange, [Next]_vars PROVE TxnInRange'
  OBVIOUS
<1>1. ASSUME NEW s \in Strand, StrandStep(s) PROVE TxnInRange'
  <2> USE TxnsType DEF TypeOK, TxnInRange, Runs, Goto
  <2>1. CASE StrandStart(s) BY <2>1 DEF StrandStart
  <2>2. CASE ArriveAtBarrier(s) BY <2>2 DEF ArriveAtBarrier
  <2>3. CASE PassBarrier(s) BY <2>3 DEF PassBarrier
  <2>4. CASE TxnSucceeds(s) BY <2>4 DEF TxnSucceeds
  <2>5. CASE TxnFails(s) BY <2>5 DEF TxnFails
  <2>6. CASE FlagErrorRead(s) BY <2>6 DEF FlagErrorRead
  <2>7. CASE FlagErrorWrite(s) BY <2>7 DEF FlagErrorWrite
  <2>8. CASE StrandExit(s) BY <2>8 DEF StrandExit
  <2>9. CASE StrandDies(s) BY <2>9 DEF StrandDies
  <2> QED BY <1>1, <2>1, <2>2, <2>3, <2>4, <2>5, <2>6, <2>7, <2>8, <2>9 DEF StrandStep
<1>2. CASE UNCHANGED <<pc, txn, failed, count>>
  BY <1>2 DEF TxnInRange
<1> QED BY <1>1, <1>2, OnlyStrandsMove

\* wait_barrier counts a strand at the barrier of its transaction, where it was not
\* counted before, and nothing else changes who has arrived where.
LEMMA ArrivalStep ==
  ASSUME TypeOK, TxnInRange, [Next]_vars
  PROVE  \/ /\ \A r \in Strand, t \in Nat : HasArrived(r, t)' <=> HasArrived(r, t)
            /\ UNCHANGED count
         \/ \E s \in Strand :
              /\ count' = [count EXCEPT ![Home[s]][txn[s]] = @ + 1]
              /\ txn[s] \in Txn
              /\ ~HasArrived(s, txn[s])
              /\ \A r \in Strand, t \in Nat :
                   HasArrived(r, t)' <=> HasArrived(r, t) \/ (r = s /\ t = txn[s])
<1> DEFINE same == \A r \in Strand, t \in Nat : HasArrived(r, t)' <=> HasArrived(r, t)
<1>1. ASSUME NEW s \in Strand, StrandStep(s), ~ArriveAtBarrier(s) PROVE same /\ UNCHANGED count
  <2>1. UNCHANGED count
    BY <1>1 DEF StrandStep, StrandStart, PassBarrier, TxnSucceeds, TxnFails, FlagErrorRead,
       FlagErrorWrite, StrandExit, StrandDies, shmVars
  <2> USE TxnsType DEF TypeOK, TxnInRange, HasArrived, Runs, Goto
  <2>2. CASE StrandStart(s) BY <2>1, <2>2 DEF StrandStart
  <2>3. CASE PassBarrier(s) BY <2>1, <2>3 DEF PassBarrier
  <2>4. CASE TxnSucceeds(s)
    <3>1. /\ pc[s] = "execute" /\ txn[s] \in Nat /\ txn[s] < NtxnOf(s)
          /\ txn'[s] = txn[s] + 1
          /\ pc'[s] \in {"arrive", "exit"}
          /\ pc'[s] = "exit" => ~(txn[s] + 1 < NtxnOf(s))
      BY <2>4 DEF TxnSucceeds
    <3>2. \A r \in Strand : r # s => pc'[r] = pc[r] /\ txn'[r] = txn[r]
      BY <2>4 DEF TxnSucceeds
    <3>3. NtxnOf(s) \in Nat
      OBVIOUS
    <3>4. ASSUME NEW t \in Nat PROVE HasArrived(s, t)' <=> HasArrived(s, t)
      BY <3>1, <3>3
    <3>5. ASSUME NEW r \in Strand, NEW t \in Nat, r # s
          PROVE  HasArrived(r, t)' <=> HasArrived(r, t)
      BY <3>2, <3>5
    <3>6. QED BY <2>1, <3>4, <3>5
  <2>5. CASE TxnFails(s) BY <2>1, <2>5 DEF TxnFails
  <2>6. CASE FlagErrorRead(s) BY <2>1, <2>6 DEF FlagErrorRead
  <2>7. CASE FlagErrorWrite(s) BY <2>1, <2>7 DEF FlagErrorWrite
  <2>8. CASE StrandExit(s) BY <2>1, <2>8 DEF StrandExit
  <2>9. CASE StrandDies(s) BY <2>1, <2>9 DEF StrandDies
  <2> QED BY <1>1, <2>2, <2>3, <2>4, <2>5, <2>6, <2>7, <2>8, <2>9 DEF StrandStep
<1>2. ASSUME NEW s \in Strand, ArriveAtBarrier(s)
      PROVE  /\ count' = [count EXCEPT ![Home[s]][txn[s]] = @ + 1]
             /\ txn[s] \in Txn
             /\ ~HasArrived(s, txn[s])
             /\ \A r \in Strand, t \in Nat :
                  HasArrived(r, t)' <=> HasArrived(r, t) \/ (r = s /\ t = txn[s])
  <2>1. pc[s] = "arrive" /\ txn[s] \in Nat /\ txn[s] < NtxnOf(s)
    BY <1>2 DEF ArriveAtBarrier, Runs, TypeOK, TxnInRange
  <2>2. txn[s] \in Txn /\ ~HasArrived(s, txn[s])
    BY <2>1, TxnsType DEF HasArrived
  <2>3. ASSUME NEW r \in Strand, NEW t \in Nat
        PROVE  HasArrived(r, t)' <=> HasArrived(r, t) \/ (r = s /\ t = txn[s])
    BY <1>2, <2>1 DEF ArriveAtBarrier, Goto, HasArrived, TypeOK
  <2>4. QED BY <1>2, <2>2, <2>3 DEF ArriveAtBarrier
<1>3. CASE UNCHANGED <<pc, txn, failed, count>>
  BY <1>3 DEF HasArrived
<1> QED BY <1>1, <1>2, <1>3, OnlyStrandsMove

\* A strand that was counted stays counted.
LEMMA ArrivedForGood ==
  ASSUME TypeOK, TxnInRange, [Next]_vars
  PROVE  \A p \in Proc, t \in Nat : AllArrived(p, t) => AllArrived(p, t)'
<1>1. \A r \in Strand, t \in Nat : HasArrived(r, t) => HasArrived(r, t)'
  BY ArrivalStep
<1>2. QED BY <1>1 DEF AllArrived, Waiters, StrandsOf

LEMMA ArrivedWait ==
  ASSUME TypeOK, TxnInRange
  PROVE  \A p \in Proc, t \in Nat : {s \in StrandsOf(p) : HasArrived(s, t)} \subseteq Waiters(p, t)
BY TxnsType DEF TypeOK, TxnInRange, HasArrived, Waiters, StrandsOf

LEMMA WaitersFinite == \A p, t : IsFiniteSet(Waiters(p, t))
<1>1. \A p, t : Waiters(p, t) \subseteq Strand
  BY DEF Waiters, StrandsOf
<1>2. QED BY <1>1, FS_Subset, ConfigAssumption

\* BARRIER_REACHED compares the count with the limit: equal, it means that every strand
\* that ever comes to the barrier is there.
LEMMA ReachedIffArrived == TypeOK /\ TxnInRange /\ CountIsExact => ReachedMeansAllArrived
<1> SUFFICES ASSUME TypeOK, TxnInRange, CountIsExact, NEW p \in Proc, NEW t \in Txn
             PROVE  BarrierReached(p, t) <=> AllArrived(p, t)
  BY DEF ReachedMeansAllArrived
<1> DEFINE A == {s \in StrandsOf(p) : HasArrived(s, t)}
<1>1. t \in Nat
  BY DEF Txn
<1>2. A \subseteq Waiters(p, t) /\ IsFiniteSet(Waiters(p, t))
  BY <1>1, ArrivedWait, WaitersFinite
<1>3. count[p][t] = Cardinality(A)
  BY DEF CountIsExact
<1>4. Cardinality(A) = Cardinality(Waiters(p, t)) <=> A = Waiters(p, t)
  BY <1>2, FS_Subset
<1>5. A = Waiters(p, t) <=> AllArrived(p, t)
  BY <1>2 DEF AllArrived, Waiters
<1> QED BY <1>3, <1>4, <1>5 DEF BarrierReached, Limit

LEMMA CountKept == TypeOK /\ TxnInRange /\ CountIsExact /\ [Next]_vars => CountIsExact'
<1> SUFFICES ASSUME TypeOK, TxnInRange, CountIsExact, [Next]_vars, NEW p \in Proc, NEW t \in Txn
             PROVE  count'[p][t] = Cardinality({r \in StrandsOf(p) : HasArrived(r, t)'})
  BY DEF CountIsExact
<1> DEFINE A == {r \in StrandsOf(p) : HasArrived(r, t)}
<1> DEFINE B == {r \in StrandsOf(p) : HasArrived(r, t)'}
<1>1. t \in Nat /\ \A r \in StrandsOf(p) : r \in Strand /\ Home[r] = p
  BY DEF Txn, StrandsOf
<1>2. count[p][t] = Cardinality(A)
  BY DEF CountIsExact
<1>3. ASSUME \A r \in Strand, n \in Nat : HasArrived(r, n)' <=> HasArrived(r, n), UNCHANGED count
      PROVE  count'[p][t] = Cardinality(B)
  <2>1. B = A
    BY <1>1, <1>3
  <2>2. QED BY <1>2, <1>3, <2>1
<1>4. ASSUME NEW s \in Strand,
             count' = [count EXCEPT ![Home[s]][txn[s]] = @ + 1],
             txn[s] \in Txn,
             ~HasArrived(s, txn[s]),
             \A r \in Strand, n \in Nat :
               HasArrived(r, n)' <=> HasArrived(r, n) \/ (r = s /\ n = txn[s])
      PROVE  count'[p][t] = Cardinality(B)
  <2>1. CASE p = Home[s] /\ t = txn[s]
    <3>1. s \notin A /\ s \in StrandsOf(p)
      BY <1>4, <2>1 DEF StrandsOf
    <3>2. B = A \cup {s}
      BY <1>1, <1>4, <2>1, <3>1
    <3>3. IsFiniteSet(A)
      <4>1. A \subseteq Waiters(p, t)
        BY <1>1, ArrivedWait
      <4>2. QED BY <4>1, WaitersFinite, FS_Subset
    <3>4. Cardinality(B) = Cardinality(A) + 1
      BY <3>1, <3>2, <3>3, FS_AddElement
    <3>5. count'[p][t] = count[p][t] + 1
      BY <1>4, <2>1 DEF TypeOK
    <3>6. QED BY <1>2, <3>4, <3>5
  <2>2. CASE ~(p = Home[s] /\ t = txn[s])
    <3>1. B = A
      BY <1>1, <1>4, <2>2
    <3>2. count'[p][t] = count[p][t]
      BY <1>4, <2>2, HomeType DEF TypeOK
    <3>3. QED BY <1>2, <3>1, <3>2
  <2>3. QED BY <2>1, <2>2
<1> QED BY <1>3, <1>4, ArrivalStep

-----------------------------------------------------------------------------
(* Open barriers                                                           *)

\* Barriers change only when the master or a slave unlocks one.
LEMMA BarrierStep ==
  ASSUME [Next]_vars
  PROVE  UNCHANGED barrier \/ MasterUnlock \/ \E sl \in Slave : SlaveUnlock(sl)
<1>1. ASSUME NEW s \in Strand, StrandStep(s) PROVE UNCHANGED barrier
  BY <1>1 DEF StrandStep, StrandStart, ArriveAtBarrier, PassBarrier, TxnSucceeds, TxnFails,
     FlagErrorRead, FlagErrorWrite, StrandExit, StrandDies, shmVars
<1>2. ASSUME MasterStep, ~MasterUnlock PROVE UNCHANGED barrier
  BY <1>2 DEF MasterStep, MasterPoll, MasterPollSlaves, MasterBarrier, MasterSendNext,
     MasterDrain, MasterDecide, MasterKill, MasterSendAbort, MasterAborted,
     MasterSendStats, MasterStatsSent, MasterReturned, MasterJoin, MasterGoodbye, MasterExit,
     SendingUnchanged, shmVars
<1>3. CASE MasterInterrupted BY <1>3 DEF MasterInterrupted, shmVars
<1>4. ASSUME NEW sl \in Slave, SlaveStep(sl), ~SlaveUnlock(sl) PROVE UNCHANGED barrier
  BY <1>4 DEF SlaveStep, SlavePoll, SlaveIdle, SlaveEOF, SlaveCommand, SlaveSkips,
     SlaveWaits, SlaveKill, SlaveJoin, SlaveGoodbye, shmVars
<1>5. ASSUME NEW sl \in Slave, SlaveCrash(sl) PROVE UNCHANGED barrier
  BY <1>5 DEF SlaveCrash, shmVars
<1>6. CASE UNCHANGED vars BY <1>6 DEF vars, shmVars
<1> QED BY <1>1, <1>2, <1>3, <1>4, <1>5, <1>6 DEF Next, Terminated

\* What one unlock_barrier does to the barriers.
LEMMA OneOpens ==
  ASSUME TypeOK, NEW p \in Proc, NEW n,
         barrier' = [barrier EXCEPT ![p][n] = "open"],
         NEW q \in Proc, NEW t \in Txn
  PROVE  barrier'[q][t] = IF q = p /\ t = n THEN "open" ELSE barrier[q][t]
BY DEF TypeOK

LEMMA OpensOrStays ==
  ASSUME TypeOK, [Next]_vars, NEW p \in Proc, NEW t \in Txn
  PROVE  barrier'[p][t] = barrier[p][t] \/ barrier'[p][t] = "open"
<1>1. CASE UNCHANGED barrier BY <1>1
<1>2. CASE MasterUnlock BY <1>2, OneOpens, Ranges DEF MasterUnlock
<1>3. ASSUME NEW sl \in Slave, SlaveUnlock(sl)
      PROVE  barrier'[p][t] = barrier[p][t] \/ barrier'[p][t] = "open"
  BY <1>3, OneOpens, Ranges DEF SlaveUnlock
<1> QED BY <1>1, <1>2, <1>3, BarrierStep

LEMMA BarrierForWaitersKept ==
  TypeOK /\ BarrierForWaiters /\ [Next]_vars => BarrierForWaiters'
<1> SUFFICES ASSUME TypeOK, BarrierForWaiters, [Next]_vars, NEW p \in Proc, NEW t \in Txn,
                    barrier'[p][t] = "none"
             PROVE  Waiters(p, t) = {}
  BY DEF BarrierForWaiters, Waiters, StrandsOf, NtxnOf
<1> QED BY OpensOrStays DEF BarrierForWaiters

\* A strand begins only where its barrier is unlocked, and an unlocked barrier stays so.
LEMMA BegunIsReleasedKept ==
  TypeOK /\ TxnInRange /\ BarrierForWaiters /\ BegunIsReleased /\ [Next]_vars => BegunIsReleased'
<1> SUFFICES ASSUME TypeOK, TxnInRange, BarrierForWaiters, BegunIsReleased, [Next]_vars,
                    NEW r \in Strand, Begun(r)'
             PROVE  barrier'[Home[r]][txn'[r]] = "open"
  BY DEF BegunIsReleased
<1> DEFINE sameBegun == Begun(r) /\ txn'[r] = txn[r]
<1>1. ASSUME sameBegun PROVE barrier'[Home[r]][txn'[r]] = "open"
  <2>1. txn[r] \in Txn /\ Home[r] \in Proc
    BY <1>1, TxnsType, HomeType DEF TypeOK, TxnInRange, Begun
  <2>2. QED BY <1>1, <2>1, OpensOrStays DEF BegunIsReleased
<1>2. ASSUME NEW s \in Strand, StrandStep(s) PROVE sameBegun \/ PassBarrier(r)
  <2> USE DEF TypeOK, TxnInRange, Begun, Runs, Goto
  <2>1. CASE StrandStart(s) BY <2>1 DEF StrandStart
  <2>2. CASE ArriveAtBarrier(s) BY <2>2 DEF ArriveAtBarrier
  <2>3. CASE PassBarrier(s) BY <2>3 DEF PassBarrier
  <2>4. CASE TxnSucceeds(s) BY <2>4 DEF TxnSucceeds
  <2>5. CASE TxnFails(s) BY <2>5 DEF TxnFails
  <2>6. CASE FlagErrorRead(s) BY <2>6 DEF FlagErrorRead
  <2>7. CASE FlagErrorWrite(s) BY <2>7 DEF FlagErrorWrite
  <2>8. CASE StrandExit(s) BY <2>8 DEF StrandExit
  <2>9. CASE StrandDies(s) BY <2>9 DEF StrandDies
  <2> QED BY <1>2, <2>1, <2>2, <2>3, <2>4, <2>5, <2>6, <2>7, <2>8, <2>9 DEF StrandStep
<1>3. CASE PassBarrier(r)
  <2>1. /\ txn[r] \in Txn /\ txn[r] \in Nat /\ txn[r] < NtxnOf(r) /\ Home[r] \in Proc
        /\ barrier[Home[r]][txn[r]] # "locked"
        /\ UNCHANGED <<barrier, txn>>
    BY <1>3, TxnsType, HomeType DEF PassBarrier, Runs, TypeOK, TxnInRange, shmVars
  <2>2. r \in Waiters(Home[r], txn[r])
    BY <2>1 DEF Waiters, StrandsOf
  <2>3. barrier[Home[r]][txn[r]] # "none"
    BY <2>1, <2>2 DEF BarrierForWaiters
  <2>4. barrier[Home[r]][txn[r]] = "open"
    BY <2>1, <2>3 DEF TypeOK
  <2>5. QED BY <2>1, <2>4
<1>4. CASE UNCHANGED <<pc, txn, failed, count>>
  BY <1>1, <1>4 DEF Begun
<1> QED BY <1>1, <1>2, <1>3, <1>4, OnlyStrandsMove

\* A barrier is unlocked when its own strands and the master's have all reached it: the
\* master looks at its own barrier, a slave at its own and at the master's command.
LEMMA OpenMeansArrivedKept == IInv /\ [Next]_vars => OpenMeansArrived'
<1> SUFFICES ASSUME IInv, [Next]_vars, NEW p \in Proc, NEW t \in Txn, barrier'[p][t] = "open"
             PROVE  AllArrived(p, t)' /\ AllArrived(Master, t)'
  BY DEF OpenMeansArrived
<1>1. t \in Nat
  BY DEF Txn
<1>2. SUFFICES AllArrived(p, t) /\ AllArrived(Master, t)
  BY <1>1, ArrivedForGood, Ranges DEF IInv
<1>3. CASE barrier[p][t] = "open"
  BY <1>3 DEF IInv, OpenMeansArrived
<1>4. CASE barrier[p][t] # "open" /\ MasterUnlock
  <2>1. p = Master /\ t = currTxn
    BY <1>4, OneOpens, Ranges DEF MasterUnlock, IInv
  <2>2. QED BY <1>4, <2>1 DEF MasterUnlock, IInv, AnnouncedMeansArrived
<1>5. ASSUME barrier[p][t] # "open", NEW sl \in Slave, SlaveUnlock(sl)
      PROVE  AllArrived(p, t) /\ AllArrived(Master, t)
  <2>1. p = sl /\ t = unlocking[sl]
    BY <1>5, OneOpens, Ranges DEF SlaveUnlock, IInv
  <2>2. AllArrived(Master, t)
    BY <1>5, <2>1 DEF SlaveUnlock, IInv, AnnouncedMeansArrived
  <2>3. BarrierReached(p, t)
    BY <1>5, <2>1 DEF SlaveUnlock
  <2>4. AllArrived(p, t)
    BY <2>3, ReachedIffArrived DEF IInv, ReachedMeansAllArrived
  <2>5. QED BY <2>2, <2>4
<1> QED BY <1>3, <1>4, <1>5, BarrierStep

-----------------------------------------------------------------------------
(* Commands                                                                *)

\* A command of the list was there before, or was just sent.
LEMMA AppendedCommand ==
  ASSUME TypeOK, NEW sl \in Slave, NEW c \in Command, SendCommand(c),
         NEW i \in 1 .. Len(chan'[sl])
  PROVE  \/ i \in 1 .. Len(chan[sl]) /\ chan'[sl][i] = chan[sl][i]
         \/ chan'[sl][i] = c
<1>1. CASE chan' = [chan EXCEPT ![sendTo] = Append(@, c)] /\ sendTo = sl
  <2>1. chan[sl] \in Seq(Command)
    BY DEF TypeOK
  <2>2. chan'[sl] = Append(chan[sl], c)
    BY <1>1 DEF TypeOK
  <2>3. QED BY <2>1, <2>2
<1>2. CASE chan'[sl] = chan[sl]
  BY <1>2
<1>3. \/ chan' = [chan EXCEPT ![sendTo] = Append(@, c)]
      \/ chan' = chan
  BY DEF SendCommand, Delivered, WriteFails
<1>4. QED
  <2>1. CASE sendTo # sl /\ chan' = [chan EXCEPT ![sendTo] = Append(@, c)]
    BY <1>2, <2>1 DEF TypeOK
  <2>2. QED BY <1>1, <1>2, <1>3, <2>1

\* Whatever changes the commands in flight takes the first of a slave's or adds one.
LEMMA ChannelStep ==
  ASSUME [Next]_vars
  PROVE  \/ UNCHANGED chan
         \/ MasterSendNext
         \/ SendCommand(Abort)
         \/ SendCommand(SendStats)
         \/ \E sl \in Slave : SlaveCommand(sl)
<1>1. ASSUME NEW s \in Strand, StrandStep(s) PROVE UNCHANGED chan
  BY <1>1 DEF StrandStep, StrandStart, ArriveAtBarrier, PassBarrier, TxnSucceeds, TxnFails,
     FlagErrorRead, FlagErrorWrite, StrandExit, StrandDies, netVars
<1>2. ASSUME MasterStep, ~MasterSendNext
      PROVE  UNCHANGED chan \/ SendCommand(Abort) \/ SendCommand(SendStats)
  BY <1>2 DEF MasterStep, MasterPoll, MasterPollSlaves, MasterBarrier, MasterUnlock,
     MasterDrain, MasterDecide, MasterKill, MasterSendAbort, MasterAborted,
     MasterSendStats, MasterStatsSent, MasterReturned, MasterJoin, MasterGoodbye, MasterExit, netVars
<1>3. CASE MasterInterrupted BY <1>3 DEF MasterInterrupted, netVars
<1>4. ASSUME NEW sl \in Slave, SlaveStep(sl), ~SlaveCommand(sl) PROVE UNCHANGED chan
  BY <1>4 DEF SlaveStep, SlavePoll, SlaveIdle, SlaveEOF, SlaveSkips, SlaveUnlock,
     SlaveWaits, SlaveKill, SlaveJoin, SlaveGoodbye, netVars
<1>5. ASSUME NEW sl \in Slave, SlaveCrash(sl) PROVE UNCHANGED chan
  BY <1>5 DEF SlaveCrash, netVars
<1>6. CASE UNCHANGED vars BY <1>6 DEF vars, netVars
<1> QED BY <1>1, <1>2, <1>3, <1>4, <1>5, <1>6 DEF Next, Terminated

\* A NEXT_TXN names a transaction the master's strands are all at.
LEMMA CommandsAnnounceArrived ==
  ASSUME IInv, [Next]_vars, NEW sl \in Slave, NEW i \in 1 .. Len(chan'[sl]),
         chan'[sl][i].cmd = "NEXT_TXN", NEW n, n = chan'[sl][i].value
  PROVE  AllArrived(Master, n)'
<1>1. TypeOK /\ TypeOK'
  BY NextType DEF IInv
<1>2. n \in Nat
  <2>1. chan'[sl] \in Seq(Command)
    BY <1>1 DEF TypeOK
  <2>2. chan'[sl][i] \in Command
    BY <2>1
  <2>3. QED BY <2>2 DEF Command
<1>3. SUFFICES AllArrived(Master, n)
  BY <1>2, ArrivedForGood, Ranges DEF IInv
<1>4. ASSUME i \in 1 .. Len(chan[sl]), chan'[sl][i] = chan[sl][i]
      PROVE  AllArrived(Master, n)
  BY <1>4 DEF IInv, AnnouncedMeansArrived
<1>5. CASE UNCHANGED chan
  BY <1>4, <1>5
<1>6. CASE MasterSendNext
  <2>1. NextTxn(currTxn) \in Command /\ SendCommand(NextTxn(currTxn))
    BY <1>1, <1>6, CommandTypes DEF MasterSendNext, TypeOK
  <2>2. CASE chan'[sl][i] = NextTxn(currTxn)
    BY <1>6, <2>2 DEF NextTxn, MasterSendNext, IInv, AnnouncedMeansArrived
  <2>3. QED BY <1>1, <1>4, <2>1, <2>2, AppendedCommand
<1>7. CASE SendCommand(Abort) \/ SendCommand(SendStats)
  <2>1. PICK c \in {Abort, SendStats} : SendCommand(c)
    BY <1>7
  <2>2. c \in Command /\ c.cmd # "NEXT_TXN"
    BY CommandTypes DEF Abort, SendStats
  <2>3. QED BY <1>1, <1>4, <2>1, <2>2, AppendedCommand
<1>8. ASSUME NEW r \in Slave, SlaveCommand(r) PROVE AllArrived(Master, n)
  <2>1. CASE r = sl
    <3>1. chan[sl] \in Seq(Command) /\ chan[sl] # <<>> /\ chan'[sl] = Tail(chan[sl])
      BY <1>1, <1>8, <2>1 DEF SlaveCommand, TypeOK
    <3>2. i + 1 \in 1 .. Len(chan[sl]) /\ chan'[sl][i] = chan[sl][i + 1]
      BY <3>1
    <3>3. QED BY <3>2 DEF IInv, AnnouncedMeansArrived
  <2>2. CASE r # sl
    <3>1. chan'[sl] = chan[sl]
      BY <1>1, <1>8, <2>2 DEF SlaveCommand, TypeOK
    <3>2. QED BY <1>4, <3>1
  <2>3. QED BY <2>1, <2>2
<1> QED BY <1>5, <1>6, <1>7, <1>8, ChannelStep

\* MasterBarrier alone takes the master to sending a NEXT_TXN.
LEMMA MasterGoesToNext ==
  ASSUME [Next]_vars
  PROVE  \/ UNCHANGED <<mpc, currTxn>>
         \/ mpc' \notin {"slaves", "barrier", "next"}
         \/ mpc = "poll" /\ mpc' = "slaves" /\ MoreTxns(currTxn) /\ UNCHANGED currTxn
         \/ mpc = "slaves" /\ mpc' = "barrier" /\ UNCHANGED currTxn
         \/ mpc = "barrier" /\ mpc' = "next" /\ BarrierReached(Master, currTxn) /\ UNCHANGED currTxn
<1>1. ASSUME NEW s \in Strand, StrandStep(s) PROVE UNCHANGED <<mpc, currTxn>>
  BY <1>1 DEF StrandStep, StrandStart, ArriveAtBarrier, PassBarrier, TxnSucceeds, TxnFails,
     FlagErrorRead, FlagErrorWrite, StrandExit, StrandDies, masterVars
<1>2. CASE MasterStep
  <2>1. CASE MasterPoll BY <2>1 DEF MasterPoll
  <2>2. CASE MasterPollSlaves BY <2>2 DEF MasterPollSlaves
  <2>3. CASE MasterBarrier BY <2>3 DEF MasterBarrier
  <2>4. CASE ~(MasterPoll \/ MasterPollSlaves \/ MasterBarrier)
    <3>1. UNCHANGED <<mpc, currTxn>> \/ mpc' \notin {"slaves", "barrier", "next"}
      BY <1>2, <2>4 DEF MasterStep, MasterSendNext, MasterUnlock, MasterDrain, MasterDecide,
         MasterKill, MasterSendAbort, MasterAborted, MasterSendStats, MasterStatsSent, MasterReturned,
         MasterJoin, MasterGoodbye, MasterExit, SendingUnchanged
    <3>2. QED BY <3>1
  <2>5. QED BY <2>1, <2>2, <2>3, <2>4
<1>3. CASE MasterInterrupted BY <1>3 DEF MasterInterrupted
<1>4. ASSUME NEW sl \in Slave, SlaveStep(sl) PROVE UNCHANGED <<mpc, currTxn>>
  BY <1>4 DEF SlaveStep, SlavePoll, SlaveIdle, SlaveEOF, SlaveCommand, SlaveSkips,
     SlaveUnlock, SlaveWaits, SlaveKill, SlaveJoin, SlaveGoodbye, masterVars
<1>5. ASSUME NEW sl \in Slave, SlaveCrash(sl) PROVE UNCHANGED <<mpc, currTxn>>
  BY <1>5 DEF SlaveCrash, masterVars
<1>6. CASE UNCHANGED vars BY <1>6 DEF vars, masterVars
<1> QED BY <1>1, <1>2, <1>3, <1>4, <1>5, <1>6 DEF Next, Terminated

\* Only SlaveCommand, with a NEXT_TXN, takes a slave to wait_unlock_barrier.
LEMMA SlaveGoesToUnlock ==
  ASSUME TypeOK, [Next]_vars, NEW sl \in Slave, spc'[sl] = "unlock"
  PROVE  \/ spc[sl] = "unlock" /\ unlocking'[sl] = unlocking[sl]
         \/ /\ chan[sl] # <<>>
            /\ Head(chan[sl]).cmd = "NEXT_TXN"
            /\ unlocking'[sl] = Head(chan[sl]).value
<1> USE DEF TypeOK
<1>1. ASSUME NEW s \in Strand, StrandStep(s) PROVE UNCHANGED <<spc, unlocking>>
  BY <1>1 DEF StrandStep, StrandStart, ArriveAtBarrier, PassBarrier, TxnSucceeds, TxnFails,
     FlagErrorRead, FlagErrorWrite, StrandExit, StrandDies, slaveVars
<1>2. CASE MasterStep
  <2>1. UNCHANGED <<spc, unlocking>>
    BY <1>2 DEF MasterStep, MasterPoll, MasterPollSlaves, MasterBarrier, MasterSendNext,
       MasterUnlock, MasterDrain, MasterDecide, MasterKill, MasterSendAbort, MasterAborted,
       MasterSendStats, MasterStatsSent, MasterReturned, MasterJoin, MasterGoodbye, MasterExit,
       SendingUnchanged, slaveVars
  <2>2. QED BY <2>1
<1>3. CASE MasterInterrupted BY <1>3 DEF MasterInterrupted, slaveVars
<1>4. ASSUME NEW r \in Slave, SlaveStep(r), r # sl
      PROVE  spc'[sl] = spc[sl] /\ unlocking'[sl] = unlocking[sl]
  BY <1>4 DEF SlaveStep, SlavePoll, SlaveIdle, SlaveEOF, SlaveCommand, SlaveSkips,
     SlaveUnlock, SlaveWaits, SlaveKill, SlaveJoin, SlaveGoodbye, SlaveGoto, SlaveAborts
<1>5. CASE SlaveStep(sl)
  <2>1. CASE SlaveCommand(sl)
    BY <2>1 DEF SlaveCommand, SlaveGoto, SlaveAborts
  <2>2. CASE SlaveWaits(sl)
    BY <2>2 DEF SlaveWaits
  <2>3. CASE ~(SlaveCommand(sl) \/ SlaveWaits(sl))
    <3>1. spc'[sl] # "unlock"
      BY <1>5, <2>3 DEF SlaveStep, SlavePoll, SlaveIdle, SlaveEOF, SlaveSkips,
         SlaveUnlock, SlaveKill, SlaveJoin, SlaveGoodbye, SlaveGoto, SlaveAborts
    <3>2. QED BY <3>1
  <2>4. QED BY <2>1, <2>2, <2>3
<1>6. ASSUME NEW r \in Slave, SlaveCrash(r)
      PROVE  spc'[sl] = "unlock" => spc[sl] = "unlock" /\ unlocking'[sl] = unlocking[sl]
  BY <1>6 DEF SlaveCrash, SlaveGoto
<1>7. CASE UNCHANGED vars BY <1>7 DEF vars, slaveVars
<1> QED BY <1>1, <1>2, <1>3, <1>4, <1>5, <1>6, <1>7 DEF Next, Terminated

LEMMA AnnouncedMeansArrivedKept == IInv /\ [Next]_vars => AnnouncedMeansArrived'
<1> SUFFICES ASSUME IInv, [Next]_vars PROVE AnnouncedMeansArrived'
  OBVIOUS
<1> USE DEF IInv
<1>1. mpc' \in {"slaves", "barrier", "next"} => currTxn' \in Txn
  <2>1. MoreTxns(currTxn) => currTxn \in Txn
    BY ConfigAssumption DEF MoreTxns, Txn, TypeOK
  <2>2. QED BY <2>1, MasterGoesToNext DEF AnnouncedMeansArrived
<1>2. ASSUME mpc' = "next", NEW n, n = currTxn' PROVE AllArrived(Master, n)'
  <2>1. /\ UNCHANGED currTxn
        /\ currTxn \in Txn
        /\ mpc = "next" \/ BarrierReached(Master, currTxn)
    BY <1>2, MasterGoesToNext DEF AnnouncedMeansArrived
  <2>2. n \in Txn /\ AllArrived(Master, n)
    BY <1>2, <2>1, ReachedIffArrived, Ranges DEF AnnouncedMeansArrived, ReachedMeansAllArrived
  <2>3. QED BY <2>2, ArrivedForGood, Ranges DEF Txn
<1>3. ASSUME NEW sl \in Slave, spc'[sl] = "unlock", NEW n, n = unlocking'[sl]
      PROVE  AllArrived(Master, n)'
  <2>1. AllArrived(Master, n)
    <3>1. CASE spc[sl] = "unlock" /\ unlocking'[sl] = unlocking[sl]
      BY <1>3, <3>1 DEF AnnouncedMeansArrived
    <3>2. CASE /\ chan[sl] # <<>>
               /\ Head(chan[sl]).cmd = "NEXT_TXN"
               /\ unlocking'[sl] = Head(chan[sl]).value
      <4>1. chan[sl] \in Seq(Command)
        BY DEF TypeOK
      <4>2. 1 \in 1 .. Len(chan[sl]) /\ Head(chan[sl]) = chan[sl][1]
        BY <3>2, <4>1
      <4>3. QED BY <1>3, <3>2, <4>2 DEF AnnouncedMeansArrived
    <3>3. QED BY <1>3, <3>1, <3>2, SlaveGoesToUnlock
  <2>2. n \in Nat
    BY <1>3, NextType DEF TypeOK
  <2>3. QED BY <2>1, <2>2, ArrivedForGood, Ranges
<1>4. ASSUME NEW sl \in Slave, NEW i \in 1 .. Len(chan'[sl]),
             chan'[sl][i].cmd = "NEXT_TXN", NEW n, n = chan'[sl][i].value
      PROVE  AllArrived(Master, n)'
  BY <1>4, CommandsAnnounceArrived
<1> QED BY <1>1, <1>2, <1>3, <1>4
        DEF AnnouncedMeansArrived, AllArrived, Waiters, StrandsOf, NtxnOf, HasArrived, Master

-----------------------------------------------------------------------------
(* The theorems                                                            *)

LEMMA InitIInv == Init => IInv
<1> SUFFICES ASSUME Init PROVE IInv
  OBVIOUS
<1>1. TypeOK
  BY InitType
<1>2. TxnInRange
  BY TxnsType DEF Init, TxnInRange
<1>3. CountIsExact
  <2>1. \A s \in Strand, t \in Txn : ~HasArrived(s, t)
    BY DEF Init, HasArrived, Txn
  <2>2. \A p \in Proc, t \in Txn : {s \in StrandsOf(p) : HasArrived(s, t)} = {}
    BY <2>1 DEF StrandsOf
  <2>3. QED BY <2>2, FS_EmptySet DEF Init, CountIsExact
<1>4. BarrierForWaiters
  BY DEF Init, InitBarrier, BarrierForWaiters
<1>5. BegunIsReleased
  BY DEF Init, Begun, BegunIsReleased
<1>6. OpenMeansArrived
  BY DEF Init, InitBarrier, OpenMeansArrived
<1>7. AnnouncedMeansArrived
  BY DEF Init, AnnouncedMeansArrived
<1> QED BY <1>1, <1>2, <1>3, <1>4, <1>5, <1>6, <1>7 DEF IInv

LEMMA NextIInv == IInv /\ [Next]_vars => IInv'
BY NextType, TxnInRangeKept, CountKept, BarrierForWaitersKept, BegunIsReleasedKept,
   OpenMeansArrivedKept, AnnouncedMeansArrivedKept DEF IInv

\* The barriers count right, open only for strands that have all arrived, and every NEXT_TXN
\* on its way names a transaction that the master's own strands have reached: sync.c and
\* the loops of master_poll and slave_master_poll together.
THEOREM Invariance == Spec => []IInv
BY InitIInv, NextIInv, PTL DEF Spec

\* The barriers of one process: no strand is in a transaction that another strand of the
\* process has not reached.
THEOREM BarriersAreSafe == Spec => []BarrierSafety
<1>1. IInv => BarrierSafety
  BY HomeType, TxnsType DEF IInv, TypeOK, TxnInRange, Begun, BegunIsReleased,
     OpenMeansArrived, BarrierSafety
<1>2. QED BY <1>1, Invariance, PTL

\* The barriers of the slaves follow those of the master.
THEOREM SlavesFollow == Spec => []SlavesFollowMaster
<1>1. IInv => SlavesFollowMaster
  BY HomeType, TxnsType DEF IInv, TypeOK, TxnInRange, Begun, BegunIsReleased,
     OpenMeansArrived, SlavesFollowMaster
<1>2. QED BY <1>1, Invariance, PTL

\* The counts of the barriers.
THEOREM CountsAreExact == Spec => []CountIsExact
BY Invariance, PTL DEF IInv

\* BARRIER_REACHED.
THEOREM ReachedIsAllArrived == Spec => []ReachedMeansAllArrived
<1>1. IInv => ReachedMeansAllArrived
  BY ReachedIffArrived DEF IInv
<1>2. QED BY <1>1, Invariance, PTL

\* No barrier is unlocked past a strand that failed.
THEOREM FailuresStopTheRun == Spec => []FailureStopsRun
<1>1. IInv => FailureStopsRun
  <2> SUFFICES ASSUME IInv, NEW s \in Strand, failed[s], NEW t \in Txn,
                      txn[s] < t, t < NtxnOf(s), barrier[Home[s]][t] = "open"
               PROVE  FALSE
    BY DEF FailureStopsRun
  <2>1. s \in Waiters(Home[s], t)
    BY DEF Waiters, StrandsOf
  <2>2. HasArrived(s, t)
    BY <2>1, HomeType DEF IInv, OpenMeansArrived, AllArrived
  <2>3. txn[s] \in Nat /\ t \in Nat
    BY DEF IInv, TypeOK, Txn
  <2>4. QED BY <2>2, <2>3 DEF HasArrived
<1>2. QED BY <1>1, Invariance, PTL

-----------------------------------------------------------------------------
(* The exit status of the master: success is the success of every strand    *)
(* of the master                                                           *)

LEMMA MasterStrands ==
  /\ ProcStrand \subseteq StrandsOf(Master)
  /\ \A s \in StrandsOf(Master) : s \in Strand /\ Home[s] = Master
  /\ \A s \in StrandsOf(Master), sl \in Slave : s \notin StrandsOf(sl)
BY ConfigAssumption DEF StrandsOf, Slave, Master

\* strand_killall of the master alone signals its strands.
LEMMA OnlyStrandsAndKills ==
  ASSUME TypeOK, [Next]_vars
  PROVE  \/ \E s \in Strand : StrandStep(s)
         \/ MasterKill
         \/ \A s \in StrandsOf(Master) :
              pc'[s] = pc[s] /\ txn'[s] = txn[s] /\ failed'[s] = failed[s] /\ kill'[s] = kill[s]
<1> DEFINE same == \A s \in StrandsOf(Master) :
      pc'[s] = pc[s] /\ txn'[s] = txn[s] /\ failed'[s] = failed[s] /\ kill'[s] = kill[s]
<1>1. ASSUME UNCHANGED strandVars PROVE same
  BY <1>1 DEF strandVars
<1>2. ASSUME MasterStep, ~MasterKill PROVE UNCHANGED strandVars
  BY <1>2 DEF MasterStep, MasterPoll, MasterPollSlaves, MasterBarrier, MasterSendNext,
     MasterUnlock, MasterDrain, MasterDecide, MasterSendAbort, MasterAborted,
     MasterSendStats, MasterStatsSent, MasterReturned, MasterJoin, MasterGoodbye, MasterExit, SendingUnchanged
<1>3. ASSUME MasterInterrupted PROVE UNCHANGED strandVars
  BY <1>3 DEF MasterInterrupted
<1>4. ASSUME NEW sl \in Slave, SlaveStep(sl), ~SlaveKill(sl) PROVE UNCHANGED strandVars
  BY <1>4 DEF SlaveStep, SlavePoll, SlaveIdle, SlaveEOF, SlaveCommand, SlaveSkips,
     SlaveUnlock, SlaveWaits, SlaveJoin, SlaveGoodbye
<1>5. ASSUME NEW sl \in Slave, SlaveKill(sl) PROVE same
  BY <1>5, MasterStrands DEF SlaveKill, Kill, TypeOK
<1>6. ASSUME NEW sl \in Slave, SlaveCrash(sl) PROVE UNCHANGED strandVars
  BY <1>6 DEF SlaveCrash
<1>7. ASSUME UNCHANGED vars PROVE UNCHANGED strandVars
  BY <1>7 DEF vars
<1>8. ASSUME NEW sl \in Slave, SlaveStep(sl) \/ SlaveCrash(sl) PROVE same
  BY <1>1, <1>4, <1>5, <1>6, <1>8
<1> QED BY <1>1, <1>2, <1>3, <1>7, <1>8 DEF Next, Terminated

LEMMA ShortfallIsErrorKept ==
  TypeOK /\ TxnInRange /\ ShortfallIsError /\ ErrorIsCounted /\ [Next]_vars => ShortfallIsError'
<1> SUFFICES ASSUME TypeOK, TxnInRange, ShortfallIsError, ErrorIsCounted, [Next]_vars,
                    NEW s \in StrandsOf(Master),
                    \/ pc'[s] = "gone"
                    \/ kill'[s] # "none"
                    \/ pc'[s] \in {"exit", "done"} /\ (failed'[s] \/ txn'[s] < NtxnOf(s))
             PROVE  globalError'[Master] > 0
  BY DEF ShortfallIsError, StrandsOf, NtxnOf
<1>1. globalError[Master] > 0 => globalError'[Master] > 0
  BY ErrorKept, Ranges
<1>2. s \in Strand /\ Home[s] = Master /\ globalError[Master] \in Nat /\ txn[s] \in Nat
  BY MasterStrands, Ranges DEF TypeOK
<1>3. NtxnOf(s) \in Nat
  BY <1>2, TxnsType
<1> DEFINE same == pc'[s] = pc[s] /\ txn'[s] = txn[s] /\ failed'[s] = failed[s] /\ kill'[s] = kill[s]
<1>4. CASE same
  BY <1>1, <1>4 DEF ShortfallIsError
<1>5. CASE MasterKill
  BY <1>1, <1>5 DEF MasterKill, ErrorIsCounted
<1>6. ASSUME NEW r \in Strand, StrandStep(r), r # s PROVE same
  BY <1>2, <1>6 DEF TypeOK, StrandStep, StrandStart, ArriveAtBarrier, PassBarrier, TxnSucceeds,
     TxnFails, FlagErrorRead, FlagErrorWrite, StrandExit, StrandDies, Goto
<1>7. ASSUME globalError[Master] = 0, StrandStep(s) PROVE globalError'[Master] > 0
  <2>1. /\ pc[s] # "gone" /\ kill[s] = "none"
        /\ pc[s] \in {"exit", "done"} => ~failed[s] /\ ~(txn[s] < NtxnOf(s))
    BY <1>2, <1>7 DEF ShortfallIsError
  <2> USE <1>2, <1>3, <1>7, <2>1 DEF TypeOK, Runs, Goto
  <2>2. CASE StrandStart(s) BY <2>2 DEF StrandStart
  <2>3. CASE ArriveAtBarrier(s) BY <2>3 DEF ArriveAtBarrier
  <2>4. CASE PassBarrier(s) BY <2>4 DEF PassBarrier
  <2>5. CASE TxnSucceeds(s)
    <3>1. ~failed[s] /\ UNCHANGED <<failed, kill>> /\ txn'[s] = txn[s] + 1
      BY <2>5 DEF TxnSucceeds, TxnInRange
    <3>2. pc'[s] = IF txn[s] + 1 < NtxnOf(s) THEN "arrive" ELSE "exit"
      BY <2>5 DEF TxnSucceeds
    <3>3. QED BY <3>1, <3>2
  <2>6. CASE TxnFails(s) BY <2>6 DEF TxnFails
  <2>7. CASE FlagErrorRead(s) BY <2>7 DEF FlagErrorRead
  <2>8. CASE FlagErrorWrite(s)
    <3>1. globalError'[Master] = seen[s] + 1 /\ seen[s] \in Nat
      BY <2>8, Ranges DEF FlagErrorWrite
    <3>2. QED BY <3>1
  <2>9. CASE StrandExit(s) BY <2>9 DEF StrandExit
  <2>10. CASE StrandDies(s) BY <2>10 DEF StrandDies
  <2> QED BY <2>2, <2>3, <2>4, <2>5, <2>6, <2>7, <2>8, <2>9, <2>10 DEF StrandStep
<1> QED BY <1>1, <1>2, <1>4, <1>5, <1>6, <1>7, OnlyStrandsAndKills

\* The steps of the others leave the master where it is, and its connections.
LEMMA OnlyMasterGoesOn ==
  ASSUME [Next]_vars
  PROVE  \/ MasterStep \/ MasterInterrupted
         \/ UNCHANGED <<mpc, error, status, broken>>
<1> DEFINE same == UNCHANGED <<mpc, error, status, broken>>
<1>1. ASSUME NEW s \in Strand, StrandStep(s) PROVE same
  BY <1>1 DEF StrandStep, StrandStart, ArriveAtBarrier, PassBarrier, TxnSucceeds, TxnFails,
     FlagErrorRead, FlagErrorWrite, StrandExit, StrandDies, masterVars
<1>2. ASSUME NEW sl \in Slave, SlaveStep(sl) PROVE same
  BY <1>2 DEF SlaveStep, SlavePoll, SlaveIdle, SlaveEOF, SlaveCommand, SlaveSkips,
     SlaveUnlock, SlaveWaits, SlaveKill, SlaveJoin, SlaveGoodbye, masterVars
<1>3. ASSUME NEW sl \in Slave, SlaveCrash(sl) PROVE same
  BY <1>3 DEF SlaveCrash, masterVars
<1>4. CASE UNCHANGED vars BY <1>4 DEF vars, masterVars
<1> QED BY <1>1, <1>2, <1>3, <1>4 DEF Next, Terminated

\* send_command_to_slaves ends early only with a connection that broke.
LEMMA ErrorIsCountedKept == TypeOK /\ ErrorIsCounted /\ [Next]_vars => ErrorIsCounted'
<1> SUFFICES ASSUME TypeOK, ErrorIsCounted, [Next]_vars PROVE ErrorIsCounted'
  OBVIOUS
<1>1. globalError[Master] > 0 => globalError'[Master] > 0
  BY ErrorKept, Ranges
<1>2. globalError[Master] \in Nat /\ NSlave \in Nat
  BY Ranges, ConfigAssumption DEF TypeOK
<1>3. broken # {} => broken' # {}
  <2>1. ASSUME NEW c, SendCommand(c) PROVE broken \subseteq broken'
    BY <2>1 DEF SendCommand, Delivered, WriteFails
  <2>2. broken \subseteq broken'
    BY <2>1, OnlyMasterGoesOn DEF MasterStep, MasterPoll, MasterPollSlaves, MasterBarrier,
       MasterSendNext, MasterUnlock, MasterDrain, MasterDecide, MasterKill, MasterSendAbort,
       MasterAborted, MasterSendStats, MasterStatsSent, MasterReturned, MasterJoin, MasterGoodbye, MasterExit,
       MasterInterrupted
  <2>3. QED BY <2>2
<1>4. CASE UNCHANGED <<mpc, error, status, broken>>
  BY <1>1, <1>4 DEF ErrorIsCounted
<1>5. CASE MasterDecide
  BY <1>1, <1>2, <1>5 DEF MasterDecide, ErrorIsCounted
<1>6. CASE MasterStatsSent
  <2>1. error' = (NSlave = 0 \/ globalError[Master] # 0)
    BY <1>6 DEF MasterStatsSent
  <2>2. error' => NSlave = 0 \/ globalError[Master] # 0
    BY <2>1, Zenon
  <2>3. mpc' = "join" /\ UNCHANGED globalError
    BY <1>6 DEF MasterStatsSent, MasterReturned, shmVars
  <2>4. QED BY <1>2, <2>2, <2>3 DEF ErrorIsCounted
<1>7. CASE MasterSendStats
  BY <1>7 DEF MasterSendStats, ErrorIsCounted
<1>11. CASE MasterReturned
  <2>1. error' => globalError[Master] # 0
    BY <1>11, Zenon DEF MasterReturned
  <2>2. mpc' = "join" /\ UNCHANGED globalError
    BY <1>11 DEF MasterReturned, shmVars
  <2>3. QED BY <1>2, <2>1, <2>2 DEF ErrorIsCounted
<1>8. CASE MasterKill \/ MasterSendAbort \/ MasterAborted
  BY <1>1, <1>8 DEF MasterKill, MasterSendAbort, MasterAborted, ErrorIsCounted
<1>9. CASE MasterJoin \/ MasterGoodbye
  BY <1>1, <1>3, <1>9 DEF MasterJoin, MasterGoodbye, ErrorIsCounted
<1>10. CASE \/ MasterPoll \/ MasterPollSlaves \/ MasterBarrier \/ MasterSendNext \/ MasterUnlock
            \/ MasterDrain \/ MasterExit \/ MasterInterrupted
  <2>1. mpc' \notin {"kill", "abort", "join", "goodbye"}
    BY <1>10 DEF MasterPoll, MasterPollSlaves, MasterBarrier, MasterSendNext, MasterUnlock,
       MasterDrain, MasterExit, MasterInterrupted
  <2>2. QED BY <2>1 DEF ErrorIsCounted
<1> QED BY <1>4, <1>5, <1>6, <1>7, <1>8, <1>9, <1>10, <1>11, OnlyMasterGoesOn DEF MasterStep

\* A strand that ended does not come back.
LEMMA EndedForGood ==
  ASSUME TypeOK, [Next]_vars, NEW s \in StrandsOf(Master), Ended(s), mpc # "kill"
  PROVE  Ended(s)'
<1>1. s \in Strand
  BY MasterStrands
<1>2. ~MasterKill
  BY DEF MasterKill
<1>3. ASSUME NEW r \in Strand, StrandStep(r) PROVE Ended(s)'
  BY <1>1, <1>3 DEF TypeOK, Ended, StrandStep, StrandStart, ArriveAtBarrier, PassBarrier,
     TxnSucceeds, TxnFails, FlagErrorRead, FlagErrorWrite, StrandExit, StrandDies, Runs, Goto
<1>4. CASE pc'[s] = pc[s] /\ kill'[s] = kill[s]
  BY <1>4 DEF Ended
<1> QED BY <1>2, <1>3, <1>4, OnlyStrandsAndKills

LEMMA JoinedForGood ==
  ASSUME TypeOK, [Next]_vars, Joined, mpc # "kill", error' = error
  PROVE  Joined'
BY EndedForGood, MasterStrands DEF Joined

LEMMA JoinedBeforeGoodbyeKept ==
  TypeOK /\ JoinedBeforeGoodbye /\ [Next]_vars => JoinedBeforeGoodbye'
<1> SUFFICES ASSUME TypeOK, JoinedBeforeGoodbye, [Next]_vars, mpc' = "goodbye" PROVE Joined'
  BY DEF JoinedBeforeGoodbye
<1>1. CASE mpc = "goodbye" /\ error' = error
  BY <1>1, JoinedForGood DEF JoinedBeforeGoodbye
<1>2. CASE MasterJoin
  BY <1>2, JoinedForGood DEF MasterJoin, Joined
<1>3. CASE MasterGoodbye
  BY <1>1, <1>3 DEF MasterGoodbye
<1>4. CASE MasterStep /\ ~MasterJoin /\ ~MasterGoodbye
  <2>1. mpc' # "goodbye"
    BY <1>4 DEF MasterStep, MasterPoll, MasterPollSlaves, MasterBarrier, MasterSendNext,
       MasterUnlock, MasterDrain, MasterDecide, MasterKill, MasterSendAbort, MasterAborted,
       MasterSendStats, MasterStatsSent, MasterReturned, MasterExit
  <2>2. QED BY <2>1
<1>5. CASE MasterInterrupted
  BY <1>5 DEF MasterInterrupted
<1> QED BY <1>1, <1>2, <1>3, <1>4, <1>5, OnlyMasterGoesOn

\* Nobody counts an error after the master is gone and its strands ended.
LEMMA NoErrorAfterExit ==
  ASSUME TypeOK, [Next]_vars, mpc = "done", \A s \in ProcStrand : Ended(s)
  PROVE  globalError'[Master] = globalError[Master]
<1>1. ~MasterStep /\ ~MasterInterrupted
  BY DEF MasterStep, MasterPoll, MasterPollSlaves, MasterBarrier, MasterSendNext,
     MasterUnlock, MasterDrain, MasterDecide, MasterKill, MasterSendAbort, MasterAborted,
     MasterSendStats, MasterStatsSent, MasterReturned, MasterJoin, MasterGoodbye, MasterExit, MasterInterrupted
<1>2. ASSUME NEW s \in Strand, StrandStep(s) PROVE globalError'[Master] = globalError[Master]
  <2>1. CASE Home[s] = Master
    <3>1. ~StrandAlive(s) \/ Ended(s)
      BY <2>1 DEF StrandAlive, Alive
    <3>2. ~FlagErrorWrite(s)
      BY <3>1 DEF FlagErrorWrite, Runs, Ended
    <3>3. QED BY <1>2, <3>2 DEF StrandStep, StrandStart, ArriveAtBarrier, PassBarrier,
       TxnSucceeds, TxnFails, FlagErrorRead, StrandExit, StrandDies, shmVars
  <2>2. CASE Home[s] # Master
    BY <1>2, <2>2, HomeType, Ranges DEF TypeOK, StrandStep, StrandStart, ArriveAtBarrier, PassBarrier,
       TxnSucceeds, TxnFails, FlagErrorRead, FlagErrorWrite, StrandExit, StrandDies, shmVars
  <2>3. QED BY <2>1, <2>2
<1>3. ASSUME NEW sl \in Slave, SlaveStep(sl) PROVE globalError'[Master] = globalError[Master]
  <2>1. sl # Master /\ Master \in Proc
    BY ConfigAssumption, Ranges DEF Slave, Master
  <2>2. \/ UNCHANGED globalError
        \/ \E e : AddError(sl, e)
    BY <1>3 DEF SlaveStep, SlavePoll, SlaveIdle, SlaveEOF, SlaveCommand, SlaveSkips,
       SlaveUnlock, SlaveWaits, SlaveKill, SlaveJoin, SlaveGoodbye, shmVars
  <2>3. QED BY <2>1, <2>2 DEF AddError, TypeOK
<1>4. ASSUME NEW sl \in Slave, SlaveCrash(sl) PROVE UNCHANGED globalError
  BY <1>4 DEF SlaveCrash, shmVars
<1>5. ASSUME UNCHANGED vars PROVE UNCHANGED globalError
  BY <1>5 DEF vars, shmVars
<1> QED BY <1>1, <1>2, <1>3, <1>4, <1>5 DEF Next, Terminated

LEMMA SuccessIsFinalKept ==
  /\ TypeOK /\ ErrorIsCounted /\ JoinedBeforeGoodbye /\ SuccessIsFinal /\ [Next]_vars
  => SuccessIsFinal'
<1> SUFFICES ASSUME TypeOK, ErrorIsCounted, JoinedBeforeGoodbye, SuccessIsFinal, [Next]_vars
             PROVE  SuccessIsFinal'
  OBVIOUS
<1> USE DEF SuccessIsFinal
<1>1. CASE UNCHANGED <<mpc, error, status, broken>>
  <2>1. ASSUME status = "success"
        PROVE  globalError'[Master] = globalError[Master] /\ Joined'
    <3>1. mpc = "done" /\ Joined
      BY <2>1
    <3>2. QED BY <1>1, <3>1, NoErrorAfterExit, JoinedForGood DEF Joined
  <2>2. QED BY <1>1, <2>1
<1>2. CASE MasterExit
  <2>1. mpc = "goodbye" /\ mpc' = "done" /\ UNCHANGED <<error, broken, globalError>>
    BY <1>2 DEF MasterExit, shmVars
  <2>2. status' = "success" => globalError[Master] = 0
    BY <1>2 DEF MasterExit, ExitStatus
  <2>3. Joined'
    BY <2>1, JoinedForGood DEF JoinedBeforeGoodbye
  <2>4. status' = "success" /\ error => broken # {} \/ NSlave = 0
    BY <2>1, <2>2 DEF ErrorIsCounted
  <2>5. QED BY <2>1, <2>2, <2>3, <2>4
<1>3. CASE MasterStep /\ ~MasterExit
  <2>1. mpc # "done" /\ (mpc' # "done" => status' = status) /\ (status' = status \/ status' = "error")
    BY <1>3 DEF MasterStep, MasterPoll, MasterPollSlaves, MasterBarrier, MasterSendNext,
       MasterUnlock, MasterDrain, MasterDecide, MasterKill, MasterSendAbort, MasterAborted,
       MasterSendStats, MasterStatsSent, MasterReturned, MasterJoin, MasterGoodbye, SendingUnchanged
  <2>2. QED BY <2>1
<1>4. CASE MasterInterrupted
  BY <1>4 DEF MasterInterrupted
<1> QED BY <1>1, <1>2, <1>3, <1>4, OnlyMasterGoesOn

LEMMA InitEInv == Init => EInv
<1> SUFFICES ASSUME Init PROVE EInv
  OBVIOUS
<1>1. TypeOK /\ TxnInRange
  BY InitIInv DEF IInv
<1>2. ShortfallIsError
  BY MasterStrands DEF Init, ShortfallIsError
<1>3. ErrorIsCounted /\ JoinedBeforeGoodbye /\ SuccessIsFinal
  BY DEF Init, ErrorIsCounted, JoinedBeforeGoodbye, SuccessIsFinal
<1> QED BY <1>1, <1>2, <1>3 DEF EInv

LEMMA NextEInv == EInv /\ [Next]_vars => EInv'
BY NextType, TxnInRangeKept, ShortfallIsErrorKept, ErrorIsCountedKept, JoinedBeforeGoodbyeKept,
   SuccessIsFinalKept DEF EInv

\* The exit status of the master, as far as its commands could be sent: a strand that
\* failed, was killed, never ran its transactions or is still running makes it a failure.
THEOREM SuccessIsComplete == Spec => []SuccessMeansComplete
<1>1. EInv => SuccessMeansComplete
  <2> SUFFICES ASSUME EInv, status = "success", broken = {}, NSlave > 0,
                      NEW s \in StrandsOf(Master)
               PROVE  txn[s] = NtxnOf(s) /\ ~failed[s] /\ pc[s] = "done"
    BY DEF SuccessMeansComplete
  <2>1. s \in Strand /\ globalError[Master] = 0 /\ NSlave # 0
    BY MasterStrands, ConfigAssumption DEF EInv, SuccessIsFinal
  <2>2. Ended(s)
    BY <2>1 DEF EInv, SuccessIsFinal, Joined
  <2>3. pc[s] = "done" /\ ~failed[s] /\ ~(txn[s] < NtxnOf(s))
    BY <2>1, <2>2 DEF EInv, ShortfallIsError, Ended
  <2>4. txn[s] <= NtxnOf(s) /\ txn[s] \in Nat /\ NtxnOf(s) \in Nat
    BY <2>1, TxnsType DEF EInv, TxnInRange, TypeOK
  <2>5. QED BY <2>3, <2>4
<1>2. QED BY <1>1, InitEInv, NextEInv, PTL DEF Spec
=============================================================================
