----------------------------- MODULE RunControl -----------------------------
(***************************************************************************)
(* The run phase of uperf: from the end of the handshake to the exit of    *)
(* every process.  The master process (master.c) and one slave process per *)
(* control connection (slave.c) each own a shared segment with barriers    *)
(* (sync.c, shm.c), a global error counter and a count of finished strands,*)
(* and each run strands (strand.c, execute.c).  The master opens a barrier *)
(* per transaction and tells the slaves with commands on the control       *)
(* connections (common.c); errors, a dead peer or an interrupt abort the   *)
(* run.                                                                    *)
(*                                                                         *)
(* The work of a transaction is abstracted to its result, success or       *)
(* failure.                                                                *)
(***************************************************************************)
EXTENDS Integers, Sequences, FiniteSets

CONSTANTS
  NSlave,       \* no_slaves: slaves[0 .. no_slaves-1] of master.c, here 1..NSlave
  Strand,       \* the strands of all processes
  Home,         \* [Strand -> Proc]: the process a strand belongs to
  ProcStrand,   \* the master's strands that are processes (nprocs=), not threads
  Group,        \* the groups of the profile
  GroupOf,      \* [Strand -> Group]: the group a strand executes
  SlaveGroup,   \* [Slave -> Group]: the group the slave was created for
  Ntxn,         \* [Group -> Nat]: g->ntxn
  NumBarrier,   \* NUM_BARRIER, the length of shm->bar
  MaxWait,      \* wait_time of wait_unlock_barrier (5)
  ErrorStats,   \* ENABLED_ERROR_STATS(options)
  CtrlC,        \* whether the user may interrupt the master
  MaxCrash      \* bound: how many slave processes may die

Master == 0
Slave == 1 .. NSlave
Proc == 0 .. NSlave
SendIndex == 1 .. NSlave + 1
Txn == 0 .. NumBarrier - 1

StrandsOf(p) == {s \in Strand : Home[s] = p}

\* The number of transactions strand s executes.
NtxnOf(s) == Ntxn[GroupOf[s]]

ASSUME ConfigAssumption ==
  /\ NSlave \in Nat
  /\ IsFiniteSet(Strand)
  /\ Home \in [Strand -> Proc]
  /\ ProcStrand \subseteq StrandsOf(Master)
  /\ GroupOf \in [Strand -> Group]
  /\ SlaveGroup \in [Slave -> Group]
  /\ \A s \in Strand : Home[s] # Master => GroupOf[s] = SlaveGroup[Home[s]]
  /\ NumBarrier \in Nat \ {0}
  /\ Ntxn \in [Group -> 1 .. NumBarrier]
  /\ MaxWait \in Nat
  /\ ErrorStats \in BOOLEAN
  /\ CtrlC \in BOOLEAN
  /\ MaxCrash \in Nat

\* create_control_connections makes a connection for a group, and every group has
\* at least one strand on the master and on each of its slaves.
ASSUME PopulationAssumption ==
  /\ \A g \in Group : \E s \in StrandsOf(Master) : GroupOf[s] = g
  /\ \A sl \in Slave : StrandsOf(sl) # {}

VARIABLES
  pc,           \* [Strand -> StrandPC]: where a strand is in strand_run/group_execute
  txn,          \* [Strand -> Nat]: the strand's transaction
  failed,       \* [Strand -> BOOLEAN]: txn_execute returned UPERF_FAILURE
  seen,         \* [Strand -> Nat]: global_error as read in flag_error's increment
  kill,         \* [Strand -> {"none","sent","dead"}]: SIGUSR1/SIGKILL to the strand
  barrier,      \* [Proc -> [Txn -> {"none","locked","open"}]]: the rwlock of shm->bar[t]
  count,        \* [Proc -> [Txn -> Nat]]: shm->bar[t].count
  globalError,  \* [Proc -> Nat]: shm->global_error
  finished,     \* [Proc -> Nat]: shm->finished
  mpc,          \* the master's main thread
  currTxn,      \* curr_txn of master_poll
  sendTo,       \* the slave the next command goes to, NSlave + 1 at the end of the loop
  error,        \* error of master(), as passed to wait_for_strands
  status,       \* exit status of the master: "none", "success", "error"
  closed,       \* connections the master destroyed in say_goodbyes_and_close
  broken,       \* connections on which a write of the master has failed
  spc,          \* [Slave -> SlavePC]: the slave's main thread
  unlocking,    \* [Slave -> Nat]: the transaction wait_unlock_barrier was called for
  waitTime,     \* [Slave -> Nat]: wait_time of wait_unlock_barrier
  serror,       \* [Slave -> BOOLEAN]: slave_master_poll returned an error
  chan,         \* [Slave -> Seq(Command)]: commands in flight to the slave
  goodbye,      \* [Slave -> BOOLEAN]: an unread goodbye message from the slave
  crashes       \* slaves that died so far

strandVars == <<pc, txn, failed, seen, kill>>
shmVars    == <<barrier, count, globalError, finished>>
masterVars == <<mpc, currTxn, sendTo, error, status, closed, broken>>
slaveVars  == <<spc, unlocking, waitTime, serror>>
netVars    == <<chan, goodbye>>
vars == <<strandVars, shmVars, masterVars, slaveVars, netVars, crashes>>

StrandPC == {"start", "gone", "arrive", "wait", "execute", "flag", "flagged",
             "exit", "done"}
MasterPC == {"poll", "slaves", "barrier", "next", "drain", "decide", "kill",
             "abort", "stats", "returned", "join", "goodbye", "done"}
SlavePC  == {"poll", "command", "unlock", "kill", "join", "goodbye", "done"}

Command == [cmd : {"NEXT_TXN", "ABORT", "SEND_STATS"}, value : Nat]
NextTxn(t) == [cmd |-> "NEXT_TXN", value |-> t]
Abort      == [cmd |-> "ABORT", value |-> 0]
SendStats  == [cmd |-> "SEND_STATS", value |-> 0]

TypeOK ==
  /\ pc \in [Strand -> StrandPC]
  /\ txn \in [Strand -> Nat]
  /\ failed \in [Strand -> BOOLEAN]
  /\ seen \in [Strand -> Nat]
  /\ kill \in [Strand -> {"none", "sent", "dead"}]
  /\ barrier \in [Proc -> [Txn -> {"none", "locked", "open"}]]
  /\ count \in [Proc -> [Txn -> Nat]]
  /\ globalError \in [Proc -> Nat]
  /\ finished \in [Proc -> Nat]
  /\ mpc \in MasterPC
  /\ currTxn \in Nat
  /\ sendTo \in SendIndex
  /\ error \in BOOLEAN
  /\ status \in {"none", "success", "error"}
  /\ closed \subseteq Slave
  /\ broken \subseteq Slave
  /\ spc \in [Slave -> SlavePC]
  /\ unlocking \in [Slave -> Nat]
  /\ waitTime \in [Slave -> Nat]
  /\ serror \in [Slave -> BOOLEAN]
  /\ chan \in [Slave -> Seq(Command)]
  /\ goodbye \in [Slave -> BOOLEAN]
  /\ crashes \in Nat

-----------------------------------------------------------------------------
(* Barriers: shm_init_barriers_master and _slave, sync.c                   *)

\* The strands that wait at barrier t of process p.
Waiters(p, t) == {s \in StrandsOf(p) : t < NtxnOf(s)}

\* Mutant: every strand of the process, whether its group has the transaction or not.
Limit_OfAllStrands(p, t) == Cardinality(StrandsOf(p))

\* bar->limit: the threads of the groups that have a transaction t, 0 in a barrier
\* that was never initialised.
Limit(p, t) == Cardinality(Waiters(p, t))

\* Mutants: one strand may be missing; the master does not wait for its own strands.
BarrierReached_OneMissing(p, t) == count[p][t] >= Limit(p, t) - 1
BarrierReached_MasterGoesOn(p, t) == p = Master \/ count[p][t] = Limit(p, t)

BarrierReached(p, t) == count[p][t] = Limit(p, t)

\* Mutant: one transaction too many.
MoreTxns_OneMore(t) == \E g \in Group : t <= Ntxn[g]

\* curr_txn < workorder_max_txn(w)
MoreTxns(t) == \E g \in Group : t < Ntxn[g]

InitBarrier(p, t) == IF Waiters(p, t) # {} THEN "locked" ELSE "none"

-----------------------------------------------------------------------------
(* Processes and connections                                               *)

\* The threads of a process go with it; a strand that is a process of its own stays.
Alive(p) == IF p = Master THEN mpc # "done" ELSE spc[p] # "done"
StrandAlive(s) == s \in ProcStrand \/ Alive(Home[s])

Ended(s) == pc[s] \in {"gone", "done"} \/ kill[s] = "dead"

\* A connection ends with the last process that holds it, and the strands that are
\* processes were forked with the control connections open.
MasterClosed(sl) ==
  /\ mpc = "done" \/ sl \in closed
  /\ \A s \in ProcStrand : Ended(s)

SlaveClosed(sl) == spc[sl] = "done"

\* strand_state: AT_BARRIER is also the value of a strand that has not begun.
AtBarrier(s) == pc[s] \in {"start", "gone", "arrive", "wait"}

\* signal_all_strands gives up, and reports an error, when pthread_kill still finds a
\* strand after the last retry (a strand that ended may be found until it is joined) and
\* some other strand is at a barrier.
SignalFails(p) ==
  /\ \E s \in StrandsOf(p) : ~AtBarrier(s)
  /\ \E s \in StrandsOf(p) : AtBarrier(s)

\* shm_process_callouts: e is 1 when a callout was due and its strands were not signalled.
CalloutResult(p) == IF SignalFails(p) THEN {0, 1} ELSE {0}

\* Mutants: the result is assigned, not added; the result is a negative code.
AddError_Assigns(p, e) == globalError' = [globalError EXCEPT ![p] = e]
AddError_Negative(p, e) == globalError' = [globalError EXCEPT ![p] = @ - e]

\* global_error++ of a main thread, which found no error before: the increments of the
\* strands since it read the count are lost.
AddError(p, e) ==
  \E lost \in 0 .. globalError[p] :
    globalError' = [globalError EXCEPT ![p] = IF e = 0 THEN @ ELSE @ - lost + e]

-----------------------------------------------------------------------------
Init ==
  /\ pc = [s \in Strand |-> "start"]
  /\ txn = [s \in Strand |-> 0]
  /\ failed = [s \in Strand |-> FALSE]
  /\ seen = [s \in Strand |-> 0]
  /\ kill = [s \in Strand |-> "none"]
  /\ barrier = [p \in Proc |-> [t \in Txn |-> InitBarrier(p, t)]]
  /\ count = [p \in Proc |-> [t \in Txn |-> 0]]
  /\ globalError = [p \in Proc |-> 0]
  /\ finished = [p \in Proc |-> 0]
  /\ mpc = "poll"
  /\ currTxn = 0
  /\ sendTo = 1
  /\ error = FALSE
  /\ status = "none"
  /\ closed = {}
  /\ broken = {}
  /\ spc = [sl \in Slave |-> "poll"]
  /\ unlocking = [sl \in Slave |-> 0]
  /\ waitTime = [sl \in Slave |-> 0]
  /\ serror = [sl \in Slave |-> FALSE]
  /\ chan = [sl \in Slave |-> <<>>]
  /\ goodbye = [sl \in Slave |-> FALSE]
  /\ crashes = 0

-----------------------------------------------------------------------------
(* Strands: strand_run and group_execute                                   *)

Runs(s, at) == StrandAlive(s) /\ kill[s] # "dead" /\ pc[s] = at

Goto(s, to) == pc' = [pc EXCEPT ![s] = to]

\* strand_run up to group_execute: a strand that starts after an error returns at
\* once, without counting itself as finished.
StrandStart(s) ==
  /\ Runs(s, "start")
  /\ Goto(s, IF globalError[Home[s]] > 0 THEN "gone" ELSE "arrive")
  /\ UNCHANGED <<txn, failed, seen, kill, shmVars, masterVars, slaveVars, netVars,
                 crashes>>

\* Mutant: a strand that is woken up counts itself again.
ArriveAtBarrier_Again(s) ==
  /\ Runs(s, "arrive")
  /\ count' = [count EXCEPT ![Home[s]][txn[s]] = @ + 1]
  /\ \E to \in {"arrive", "wait"} : Goto(s, to)
  /\ UNCHANGED <<txn, failed, seen, kill, barrier, globalError, finished, masterVars,
                 slaveVars, netVars, crashes>>

\* wait_barrier: the strand adds itself to the barrier's count, then waits for the lock.
ArriveAtBarrier(s) ==
  /\ Runs(s, "arrive")
  /\ count' = [count EXCEPT ![Home[s]][txn[s]] = @ + 1]
  /\ Goto(s, "wait")
  /\ UNCHANGED <<txn, failed, seen, kill, barrier, globalError, finished, masterVars,
                 slaveVars, netVars, crashes>>

\* The barrier's lock is free: with two or more errors the strand leaves the loop,
\* otherwise it executes the transaction.
PassBarrier(s) ==
  /\ Runs(s, "wait")
  /\ barrier[Home[s]][txn[s]] # "locked"
  /\ Goto(s, IF globalError[Home[s]] > 1 THEN "exit" ELSE "execute")
  /\ UNCHANGED <<txn, failed, seen, kill, shmVars, masterVars, slaveVars, netVars,
                 crashes>>

\* txn_execute returned success or DURATION_EXPIRED: on to the group's next transaction.
TxnSucceeds(s) ==
  /\ Runs(s, "execute")
  /\ txn' = [txn EXCEPT ![s] = @ + 1]
  /\ Goto(s, IF txn[s] + 1 < NtxnOf(s) THEN "arrive" ELSE "exit")
  /\ UNCHANGED <<failed, seen, kill, shmVars, masterVars, slaveVars, netVars, crashes>>

\* txn_execute returned UPERF_FAILURE: group_execute ends.
TxnFails(s) ==
  /\ Runs(s, "execute")
  /\ failed' = [failed EXCEPT ![s] = TRUE]
  /\ Goto(s, "flag")
  /\ UNCHANGED <<txn, seen, kill, shmVars, masterVars, slaveVars, netVars, crashes>>

\* flag_error's global_error++ is a plain read and write of shared memory.
FlagErrorRead(s) ==
  /\ Runs(s, "flag")
  /\ seen' = [seen EXCEPT ![s] = globalError[Home[s]]]
  /\ Goto(s, "flagged")
  /\ UNCHANGED <<txn, failed, kill, shmVars, masterVars, slaveVars, netVars, crashes>>

FlagErrorWrite(s) ==
  /\ Runs(s, "flagged")
  /\ globalError' = [globalError EXCEPT ![Home[s]] = seen[s] + 1]
  /\ seen' = [seen EXCEPT ![s] = 0]
  /\ Goto(s, "exit")
  /\ UNCHANGED <<txn, failed, kill, barrier, count, finished, masterVars,
                 slaveVars, netVars, crashes>>

\* shm_update_strand_exit, an atomic increment, and strand_fini.
StrandExit(s) ==
  /\ Runs(s, "exit")
  /\ finished' = [finished EXCEPT ![Home[s]] = @ + 1]
  /\ Goto(s, "done")
  /\ UNCHANGED <<txn, failed, seen, kill, barrier, count, globalError, masterVars,
                 slaveVars, netVars, crashes>>

\* The signal of strand_killall reaches the strand: pthread_exit in signal_handler.
StrandDies(s) ==
  /\ StrandAlive(s)
  /\ kill[s] = "sent"
  /\ ~Ended(s)
  /\ kill' = [kill EXCEPT ![s] = "dead"]
  /\ UNCHANGED <<pc, txn, failed, seen, shmVars, masterVars, slaveVars, netVars,
                 crashes>>

StrandStep(s) ==
  \/ StrandStart(s) \/ ArriveAtBarrier(s) \/ PassBarrier(s)
  \/ TxnSucceeds(s) \/ TxnFails(s)
  \/ FlagErrorRead(s) \/ FlagErrorWrite(s)
  \/ StrandExit(s) \/ StrandDies(s)

\* Mutant: only threads are signalled.
Kill_Threads(S) ==
  kill' = [s \in Strand |-> IF s \in S \ ProcStrand /\ kill[s] = "none" THEN "sent" ELSE kill[s]]

\* strand_killall, signal_strand: SIGKILL to a process, SIGUSR1 to a thread.
Kill(S) == kill' = [s \in Strand |-> IF s \in S /\ kill[s] = "none" THEN "sent" ELSE kill[s]]

\* Only setup_strand_signal installs a handler for SIGUSR1: sent to a thread before
\* any thread of the process has run it, the signal terminates the process.
KillTerminates(p) ==
  /\ \E s \in StrandsOf(p) \ ProcStrand : pc[s] = "start"
  /\ \A s \in StrandsOf(p) \ ProcStrand : pc[s] \in {"start", "gone"}

-----------------------------------------------------------------------------
(* The master: master_poll and the rest of master()                        *)

\* Top of the main loop: out of it on an error.
MasterPoll ==
  /\ mpc = "poll"
  /\ mpc' = IF MoreTxns(currTxn) /\ globalError[Master] = 0 THEN "slaves" ELSE "drain"
  /\ UNCHANGED <<currTxn, sendTo, error, status, closed, broken, strandVars, shmVars,
                 slaveVars, netVars, crashes>>

\* poll_slaves: anything readable, an end of file included, is taken as an abort, and so is
\* a poll that fails.  shm_process_callouts runs when nothing was readable.
MasterPollSlaves ==
  /\ mpc = "slaves"
  /\ \/ AddError(Master, 1) /\ mpc' = "drain"
     \/ /\ ~\E sl \in Slave : goodbye[sl] \/ SlaveClosed(sl)
        /\ \E e \in CalloutResult(Master) : AddError(Master, e)
        /\ mpc' = "barrier"
  /\ UNCHANGED <<currTxn, sendTo, error, status, closed, broken, strandVars, barrier,
                 count, finished, slaveVars, netVars, crashes>>

\* BARRIER_REACHED(curr_bar)
MasterBarrier ==
  /\ mpc = "barrier"
  /\ IF BarrierReached(Master, currTxn)
     THEN mpc' = "next" /\ sendTo' = 1
     ELSE mpc' = "poll" /\ UNCHANGED sendTo
  /\ UNCHANGED <<currTxn, error, status, closed, broken, strandVars, shmVars,
                 slaveVars, netVars, crashes>>

\* uperf_send_command to one slave.  A write to a peer that is gone is lost or fails,
\* and once it failed it fails again.
Delivered(sl, c) ==
  /\ sl \notin broken
  /\ chan' = IF SlaveClosed(sl) THEN chan ELSE [chan EXCEPT ![sl] = Append(@, c)]
  /\ UNCHANGED broken
WriteFails(sl) ==
  /\ SlaveClosed(sl)
  /\ broken' = broken \cup {sl}
  /\ UNCHANGED chan

\* One turn of the loop of send_command_to_slaves, which ends at the first failure.
SendCommand(c) ==
  /\ sendTo \in Slave
  /\ \/ Delivered(sendTo, c) /\ sendTo' = sendTo + 1
     \/ WriteFails(sendTo) /\ sendTo' = NSlave + 1

SendingUnchanged ==
  UNCHANGED <<currTxn, status, closed, strandVars, shmVars, slaveVars, goodbye, crashes>>

MasterSendNext ==
  /\ mpc = "next"
  /\ SendCommand(NextTxn(currTxn))
  /\ UNCHANGED <<mpc, error>>
  /\ SendingUnchanged

\* After the loop: unlock_barrier(curr_bar) and curr_txn++.
MasterUnlock ==
  /\ mpc = "next"
  /\ sendTo = NSlave + 1
  /\ barrier' = [barrier EXCEPT ![Master][currTxn] = "open"]
  /\ currTxn' = currTxn + 1
  /\ mpc' = "poll"
  /\ UNCHANGED <<sendTo, error, status, closed, broken, strandVars, count, globalError,
                 finished, slaveVars, netVars, crashes>>

\* The second loop of master_poll: it ends with the first error or the first strand
\* that has finished.
MasterDrain ==
  /\ mpc = "drain"
  /\ IF globalError[Master] = 0 /\ finished[Master] = 0
     THEN \E e \in CalloutResult(Master) : AddError(Master, e) /\ UNCHANGED mpc
     ELSE mpc' = "decide" /\ UNCHANGED globalError
  /\ UNCHANGED <<currTxn, sendTo, error, status, closed, broken, strandVars, barrier,
                 count, finished, slaveVars, netVars, crashes>>

MasterDecide ==
  /\ mpc = "decide"
  /\ sendTo' = 1
  /\ \/ globalError[Master] > 0 /\ mpc' = "kill" /\ UNCHANGED error
     \/ globalError[Master] = 0 /\ ErrorStats /\ mpc' = "stats" /\ UNCHANGED error
     \/ globalError[Master] = 0 /\ ~ErrorStats /\ mpc' = "returned" /\ UNCHANGED error
  /\ UNCHANGED <<currTxn, status, closed, broken, strandVars, shmVars, slaveVars,
                 netVars, crashes>>

\* master_poll returned 0, and master() looks at the errors once more.
MasterReturned ==
  /\ mpc = "returned"
  /\ mpc' = "join"
  /\ error' = (globalError[Master] # 0)
  /\ UNCHANGED <<currTxn, sendTo, status, closed, broken, strandVars, shmVars, slaveVars,
                 netVars, crashes>>

\* master_prepare_to_exit: strand_killall, then ABORT to the slaves.
MasterKill ==
  /\ mpc = "kill"
  /\ IF KillTerminates(Master)
     THEN mpc' = "done" /\ status' = "error" /\ \E S \in SUBSET ProcStrand : Kill(S)
     ELSE mpc' = "abort" /\ Kill(StrandsOf(Master)) /\ UNCHANGED status
  /\ UNCHANGED <<currTxn, sendTo, error, closed, broken, pc, txn, failed, seen, shmVars,
                 slaveVars, netVars, crashes>>

MasterSendAbort ==
  /\ mpc = "abort"
  /\ SendCommand(Abort)
  /\ UNCHANGED <<mpc, error>>
  /\ SendingUnchanged

MasterAborted ==
  /\ mpc = "abort"
  /\ sendTo = NSlave + 1
  /\ mpc' = "join"
  /\ error' = TRUE
  /\ UNCHANGED <<currTxn, sendTo, status, closed, broken, strandVars, shmVars, slaveVars,
                 netVars, crashes>>

\* SEND_STATS: when it cannot be sent, master_poll returns an error.
MasterSendStats ==
  /\ mpc = "stats"
  /\ SendCommand(SendStats)
  /\ IF sendTo \in broken' THEN mpc' = "join" /\ error' = TRUE ELSE UNCHANGED <<mpc, error>>
  /\ SendingUnchanged

\* Every slave has the command and master_poll returned 0: the error is whatever the
\* strands reported meanwhile.  Without a slave send_command_to_slaves returned 0, which
\* counts as a failure to send.
MasterStatsSent ==
  /\ mpc = "stats"
  /\ sendTo = NSlave + 1
  /\ mpc' = "join"
  /\ error' = (NSlave = 0 \/ globalError[Master] # 0)
  /\ UNCHANGED <<currTxn, sendTo, status, closed, broken, strandVars, shmVars, slaveVars,
                 netVars, crashes>>

\* wait_for_strands: processes are always waited for, threads only without an error;
\* each process that was killed is one more error.
KilledProcesses == Cardinality({s \in ProcStrand : kill[s] = "dead"})

MasterJoin ==
  /\ mpc = "join"
  /\ \A s \in ProcStrand : Ended(s)
  /\ ~error => \A s \in StrandsOf(Master) : Ended(s)
  /\ globalError' = [globalError EXCEPT ![Master] = @ + KilledProcesses]
  /\ mpc' = "goodbye"
  /\ sendTo' = 1
  /\ UNCHANGED <<currTxn, error, status, closed, broken, strandVars, barrier, count,
                 finished, slaveVars, netVars, crashes>>

\* say_goodbye with one slave: its message, or a timeout or end of file; then the
\* connection is destroyed.
MasterGoodbye ==
  /\ mpc = "goodbye"
  /\ ErrorStats
  /\ sendTo \in Slave
  /\ \E got \in {goodbye[sendTo], FALSE} :
       goodbye' = [goodbye EXCEPT ![sendTo] = @ /\ ~got]
  /\ closed' = closed \cup {sendTo}
  /\ sendTo' = sendTo + 1
  /\ UNCHANGED <<mpc, currTxn, error, status, broken, strandVars, shmVars, slaveVars,
                 chan, crashes>>

\* Mutant: a single error is let through, as group_execute does.
ExitStatus_OneError == IF globalError[Master] > 1 THEN {"error"} ELSE {"success"}

\* The end of master(): exit(1) if an error was counted, else the return value of
\* say_goodbyes_and_close, 0, in a variable that nothing sets without ErrorStats.
ExitStatus ==
  IF globalError[Master] # 0 THEN {"error"}
  ELSE IF ErrorStats THEN {"success"} ELSE {"success", "error"}

MasterExit ==
  /\ mpc = "goodbye"
  /\ ErrorStats => sendTo = NSlave + 1
  /\ mpc' = "done"
  /\ status' \in ExitStatus
  /\ UNCHANGED <<currTxn, sendTo, error, closed, broken, strandVars, shmVars, slaveVars,
                 netVars, crashes>>

\* SIGINT: signal_handler exits the process.
MasterInterrupted ==
  /\ CtrlC
  /\ mpc # "done"
  /\ mpc' = "done"
  /\ status' = "error"
  /\ UNCHANGED <<currTxn, sendTo, error, closed, broken, strandVars, shmVars, slaveVars,
                 netVars, crashes>>

MasterStep ==
  \/ MasterPoll \/ MasterPollSlaves \/ MasterBarrier
  \/ MasterSendNext \/ MasterUnlock
  \/ MasterDrain \/ MasterDecide
  \/ MasterKill \/ MasterSendAbort \/ MasterAborted
  \/ MasterSendStats \/ MasterStatsSent \/ MasterReturned
  \/ MasterJoin \/ MasterGoodbye \/ MasterExit

-----------------------------------------------------------------------------
(* A slave: slave_master_poll and the rest of slave_master()               *)

SlaveGoto(sl, to) == spc' = [spc EXCEPT ![sl] = to]

\* slave_master_poll returns: 0 after SEND_STATS, -1 otherwise.
SlaveAborts(sl) ==
  /\ SlaveGoto(sl, "kill")
  /\ serror' = [serror EXCEPT ![sl] = TRUE]

\* Top of the loop of slave_master_poll.
SlavePoll(sl) ==
  /\ spc[sl] = "poll"
  /\ \/ globalError[sl] > 0 /\ SlaveAborts(sl)
     \/ globalError[sl] = 0 /\ SlaveGoto(sl, "command") /\ UNCHANGED serror
  /\ UNCHANGED <<unlocking, waitTime, strandVars, shmVars, masterVars, netVars, crashes>>

\* generic_poll timed out; the callouts are processed and the loop goes on.
SlaveIdle(sl) ==
  /\ spc[sl] = "command"
  /\ chan[sl] = <<>>
  /\ ~MasterClosed(sl)
  /\ \E e \in CalloutResult(sl) : AddError(sl, e)
  /\ SlaveGoto(sl, "poll")
  /\ UNCHANGED <<unlocking, waitTime, serror, strandVars, barrier, count, finished,
                 masterVars, netVars, crashes>>

\* uperf_get_command fails: the master closed the connection.
SlaveEOF(sl) ==
  /\ spc[sl] = "command"
  /\ chan[sl] = <<>>
  /\ MasterClosed(sl)
  /\ SlaveAborts(sl)
  /\ UNCHANGED <<unlocking, waitTime, strandVars, shmVars, masterVars, netVars, crashes>>

SlaveCommand(sl) ==
  /\ spc[sl] = "command"
  /\ chan[sl] # <<>>
  /\ chan' = [chan EXCEPT ![sl] = Tail(@)]
  /\ LET c == Head(chan[sl])
     IN \/ /\ c.cmd = "NEXT_TXN"
           /\ unlocking' = [unlocking EXCEPT ![sl] = c.value]
           /\ waitTime' = [waitTime EXCEPT ![sl] = MaxWait]
           /\ SlaveGoto(sl, "unlock")
           /\ UNCHANGED serror
        \/ /\ c.cmd = "ABORT"
           /\ SlaveAborts(sl)
           /\ UNCHANGED <<unlocking, waitTime>>
        \/ /\ c.cmd = "SEND_STATS"
           /\ SlaveGoto(sl, "join")
           /\ UNCHANGED <<unlocking, waitTime, serror>>
  /\ UNCHANGED <<strandVars, shmVars, masterVars, goodbye, crashes>>

\* Mutant: the last transaction is taken for one the group does not have.
SkipTxn_Last(sl) == unlocking[sl] >= Ntxn[SlaveGroup[sl]] - 1

\* wait_unlock_barrier for a transaction the slave's group does not have.
SkipTxn(sl) == unlocking[sl] > Ntxn[SlaveGroup[sl]]

SlaveSkips(sl) ==
  /\ spc[sl] = "unlock"
  /\ SkipTxn(sl)
  /\ \E e \in CalloutResult(sl) : AddError(sl, e)
  /\ SlaveGoto(sl, "poll")
  /\ UNCHANGED <<unlocking, waitTime, serror, strandVars, barrier, count, finished,
                 masterVars, netVars, crashes>>

\* The barrier is reached: unlock_barrier, then back to the loop, whose callouts follow.
SlaveUnlock(sl) ==
  /\ spc[sl] = "unlock"
  /\ ~SkipTxn(sl)
  /\ BarrierReached(sl, unlocking[sl])
  /\ barrier' = [barrier EXCEPT ![sl][unlocking[sl]] = "open"]
  /\ \E e \in CalloutResult(sl) : AddError(sl, e)
  /\ SlaveGoto(sl, "poll")
  /\ UNCHANGED <<unlocking, waitTime, serror, strandVars, count, finished, masterVars,
                 netVars, crashes>>

\* One turn of the loop of wait_unlock_barrier: strands are missing.
SlaveWaits(sl) ==
  /\ spc[sl] = "unlock"
  /\ ~SkipTxn(sl)
  /\ ~BarrierReached(sl, unlocking[sl])
  /\ \/ /\ globalError[sl] > 0 \/ SignalFails(sl)
        /\ SlaveAborts(sl)
        /\ UNCHANGED <<waitTime, globalError>>
     \/ /\ globalError[sl] = 0
        /\ \E e \in CalloutResult(sl) :
             /\ AddError(sl, e)
             /\ IF e = 1
                THEN SlaveAborts(sl) /\ UNCHANGED waitTime
                ELSE /\ waitTime' = [waitTime EXCEPT ![sl] = IF @ = 0 THEN 0 ELSE @ - 1]
                     /\ IF waitTime[sl] = 0
                        THEN SlaveAborts(sl)
                        ELSE UNCHANGED <<spc, serror>>
  /\ UNCHANGED <<unlocking, strandVars, barrier, count, finished, masterVars, netVars,
                 crashes>>

SlaveKill(sl) ==
  /\ spc[sl] = "kill"
  /\ IF KillTerminates(sl)
     THEN SlaveGoto(sl, "done") /\ UNCHANGED kill
     ELSE SlaveGoto(sl, "join") /\ Kill(StrandsOf(sl))
  /\ UNCHANGED <<unlocking, waitTime, serror, pc, txn, failed, seen, shmVars, masterVars,
                 netVars, crashes>>

\* wait_for_strands: the threads are joined unless there was an error.
SlaveJoin(sl) ==
  /\ spc[sl] = "join"
  /\ ~serror[sl] => \A s \in StrandsOf(sl) : Ended(s)
  /\ SlaveGoto(sl, "goodbye")
  /\ UNCHANGED <<unlocking, waitTime, serror, strandVars, shmVars, masterVars, netVars,
                 crashes>>

\* slave_master_goodbye and exit.
SlaveGoodbye(sl) ==
  /\ spc[sl] = "goodbye"
  /\ goodbye' = [goodbye EXCEPT ![sl] = ~MasterClosed(sl)]
  /\ SlaveGoto(sl, "done")
  /\ UNCHANGED <<unlocking, waitTime, serror, strandVars, shmVars, masterVars, chan,
                 crashes>>

\* The slave process dies: its strands go with it and its connection closes.
SlaveCrash(sl) ==
  /\ spc[sl] # "done"
  /\ crashes < MaxCrash
  /\ crashes' = crashes + 1
  /\ SlaveGoto(sl, "done")
  /\ UNCHANGED <<unlocking, waitTime, serror, strandVars, shmVars, masterVars, netVars>>

SlaveStep(sl) ==
  \/ SlavePoll(sl) \/ SlaveIdle(sl) \/ SlaveEOF(sl) \/ SlaveCommand(sl)
  \/ SlaveSkips(sl) \/ SlaveUnlock(sl) \/ SlaveWaits(sl)
  \/ SlaveKill(sl) \/ SlaveJoin(sl) \/ SlaveGoodbye(sl)

-----------------------------------------------------------------------------
AllExited == mpc = "done" /\ \A sl \in Slave : spc[sl] = "done"

Terminated == AllExited /\ UNCHANGED vars

Next ==
  \/ \E s \in Strand : StrandStep(s)
  \/ MasterStep
  \/ MasterInterrupted
  \/ \E sl \in Slave : SlaveStep(sl) \/ SlaveCrash(sl)
  \/ Terminated

Spec == Init /\ [][Next]_vars

\* Every thread is scheduled, a pending signal is delivered, and a transaction ends.
Fairness ==
  /\ WF_vars(MasterStep)
  /\ \A sl \in Slave : WF_vars(SlaveStep(sl))
  /\ \A s \in Strand : WF_vars(StrandStep(s)) /\ WF_vars(StrandDies(s))

FairSpec == Spec /\ Fairness

-----------------------------------------------------------------------------
(* What must hold                                                          *)

\* Strand s has been counted at barrier t.
HasArrived(s, t) ==
  \/ t < txn[s]
  \/ t = txn[s] /\ t < NtxnOf(s) /\ pc[s] \notin {"start", "gone", "arrive"}

AllArrived(p, t) == \A s \in Waiters(p, t) : HasArrived(s, t)

\* Strand s has begun the transaction it is at.
Begun(s) == pc[s] = "execute" \/ failed[s]

\* "All strands complete a transaction before moving onto the next" (sync.c in
\* Architecture.md): while a strand is in transaction t, every strand of its process
\* that has a transaction t has left t-1 and reached barrier t.
BarrierSafety ==
  \A s \in Strand : Begun(s) => AllArrived(Home[s], txn[s])

\* The slaves follow the master: a strand of a slave is in transaction t only after
\* every strand of the master reached barrier t.
SlavesFollowMaster ==
  \A s \in Strand : Begun(s) => AllArrived(Master, txn[s])

\* The count of a barrier is the number of strands that reached it: no strand is
\* counted twice, and BARRIER_REACHED, an equality, cannot be overrun.
CountIsExact ==
  \A p \in Proc, t \in Txn :
    count[p][t] = Cardinality({s \in StrandsOf(p) : HasArrived(s, t)})

\* BARRIER_REACHED holds exactly when all those strands are there that will ever come:
\* the limit leaves out the groups that have fewer transactions.
ReachedMeansAllArrived ==
  \A p \in Proc, t \in Txn : BarrierReached(p, t) <=> AllArrived(p, t)

\* An error count that was raised is never lost: global_error++ is not atomic, yet no
\* interleaving of increments brings it back to zero.
ErrorIsSticky ==
  [][\A p \in Proc : globalError[p] > 0 => globalError'[p] > 0]_vars

\* A strand whose failure was flagged stops its process: no barrier of the process is
\* unlocked for a transaction after the one that failed.
FailureStopsRun ==
  \A s \in Strand : failed[s] =>
    \A t \in Txn : txn[s] < t /\ t < NtxnOf(s) => barrier[Home[s]][t] # "open"

\* A slave that was asked for its statistics joins its strands, and none of them is
\* still held at a barrier: no NEXT_TXN was skipped, however sends failed.
StatsAfterLastTxn ==
  \A sl \in Slave : spc[sl] = "join" /\ ~serror[sl] =>
    \A t \in Txn : barrier[sl][t] # "locked"

\* Slave sl has opened the barriers of the transactions below v that its group has, and the
\* one after, which nobody waits at (wait_unlock_barrier).
Opened(sl, v) ==
  \A t \in Txn : barrier[sl][t] = "open" <=> t < v /\ t <= Ntxn[SlaveGroup[sl]]

\* It was commanded the transactions below v, and may still be waiting for the last of them.
Commanded(sl, v) ==
  IF spc[sl] = "unlock"
  THEN v = unlocking[sl] + 1 /\ MoreTxns(unlocking[sl]) /\ Opened(sl, unlocking[sl])
  ELSE Opened(sl, v)

\* What may follow the commands for the transactions below v.
Follows(c, v) ==
  \/ c.cmd = "NEXT_TXN" /\ c.value = v /\ MoreTxns(v)
  \/ c.cmd = "SEND_STATS" /\ ~MoreTxns(v)
  \/ c.cmd = "ABORT"

InOrder(sl, v) ==
  /\ Commanded(sl, v)
  /\ \A i \in 1 .. Len(chan[sl]) : Follows(chan[sl][i], v + i - 1)

\* A slave that runs opens its barriers one after the other, and the commands on their way
\* to it name the transactions that come next, each once and none left out, and ask for
\* statistics only after the last (send_command_to_slaves, slave_master_poll).
Running(sl) == spc[sl] \in {"poll", "command", "unlock"}
CommandsInOrder == \A sl \in Slave : Running(sl) => \E v \in 0 .. NumBarrier : InOrder(sl, v)

\* When there were slaves and all commands could be sent, the master exits with success
\* only if each of its strands executed all its transactions without a failure.
SuccessMeansComplete ==
  status = "success" /\ broken = {} /\ NSlave > 0 =>
    \A s \in StrandsOf(Master) : txn[s] = NtxnOf(s) /\ ~failed[s] /\ pc[s] = "done"

\* Every process of the run exits: whatever fails, whoever dies, nobody waits for ever
\* at a barrier, for a command or for a strand.
Termination == <>AllExited

-----------------------------------------------------------------------------
(* Why the barriers hold: the inductive invariant                          *)

\* A strand is within its transactions, and stays at the one it failed in.
TxnInRange ==
  \A s \in Strand :
    /\ txn[s] <= NtxnOf(s)
    /\ pc[s] \notin {"exit", "done"} => txn[s] < NtxnOf(s)
    /\ failed[s] => txn[s] < NtxnOf(s) /\ pc[s] \in {"flag", "flagged", "exit", "done"}

\* Only a barrier no strand comes to was never initialised.
BarrierForWaiters ==
  \A p \in Proc, t \in Txn : barrier[p][t] = "none" => Waiters(p, t) = {}

BegunIsReleased ==
  \A s \in Strand : Begun(s) => barrier[Home[s]][txn[s]] = "open"

OpenMeansArrived ==
  \A p \in Proc, t \in Txn :
    barrier[p][t] = "open" => AllArrived(p, t) /\ AllArrived(Master, t)

\* What the master has decided to announce, has sent, and a slave acts on.
AnnouncedMeansArrived ==
  /\ mpc \in {"slaves", "barrier", "next"} => currTxn \in Txn
  /\ mpc = "next" => AllArrived(Master, currTxn)
  /\ \A sl \in Slave :
       /\ \A i \in 1 .. Len(chan[sl]) :
            chan[sl][i].cmd = "NEXT_TXN" => AllArrived(Master, chan[sl][i].value)
       /\ spc[sl] = "unlock" => AllArrived(Master, unlocking[sl])

IInv ==
  /\ TypeOK
  /\ TxnInRange
  /\ CountIsExact
  /\ BarrierForWaiters
  /\ BegunIsReleased
  /\ OpenMeansArrived
  /\ AnnouncedMeansArrived

-----------------------------------------------------------------------------
(* Why the commands are in order                                           *)

\* A slave on a connection before every one that a write failed on.
Reached(sl) == \A b \in broken : sl < b

\* Before the master gives up, what it has told a slave it still reaches is what the slave
\* has acted upon and what is on its way.
Told(sl) == currTxn + (IF mpc \in {"next", "stats"} /\ sl < sendTo THEN 1 ELSE 0)
Informing == mpc \in {"poll", "slaves", "barrier", "next", "drain", "decide", "stats"}

InOrderAsTold(sl, v) ==
  /\ InOrder(sl, v)
  /\ Informing /\ Reached(sl) => v + Len(chan[sl]) = Told(sl)
CommandsAreTold ==
  \A sl \in Slave : Running(sl) => \E v \in 0 .. NumBarrier : InOrderAsTold(sl, v)

\* A write fails only on the connection of a slave that is gone: poll_slaves finds that
\* connection before anything else is announced.
BrokenStops ==
  /\ \A b \in broken : SlaveClosed(b)
  /\ mpc = "barrier" => broken = {}
  /\ mpc = "next" => broken = {} \/ sendTo = NSlave + 1
  /\ mpc = "stats" => \A b \in broken : sendTo <= b

\* The master opens its barriers in order, and asks for statistics when there are no more
\* transactions.
MasterInOrder ==
  /\ currTxn \in 0 .. NumBarrier
  /\ \A t \in Txn : barrier[Master][t] = "open" <=> t < currTxn
  /\ mpc \in {"slaves", "barrier", "next"} => MoreTxns(currTxn)
  /\ mpc \in {"drain", "decide"} => globalError[Master] > 0 \/ ~MoreTxns(currTxn)
  /\ mpc = "stats" => ~MoreTxns(currTxn)

\* No slave is told of a transaction the master is not at.
NothingAhead ==
  \A sl \in Slave :
    /\ \A i \in 1 .. Len(chan[sl]) : chan[sl][i].cmd = "NEXT_TXN" => chan[sl][i].value <= currTxn
    /\ spc[sl] = "unlock" => unlocking[sl] <= currTxn

\* A barrier is locked for somebody, and open behind the strands that passed it.
LockedForWaiters ==
  \A p \in Proc, t \in Txn : barrier[p][t] = "locked" => Waiters(p, t) # {}
PassedIsOpen ==
  \A s \in Strand, t \in Txn : t < txn[s] => barrier[Home[s]][t] = "open"

\* A slave kills its strands only after an error.
KillsOnError == \A sl \in Slave : spc[sl] = "kill" => serror[sl]

OInv ==
  /\ IInv
  /\ LockedForWaiters
  /\ PassedIsOpen
  /\ MasterInOrder
  /\ NothingAhead
  /\ BrokenStops
  /\ CommandsAreTold
  /\ KillsOnError
  /\ StatsAfterLastTxn

-----------------------------------------------------------------------------
(* Why success means complete                                              *)

\* A strand of the master that ends early leaves an error behind.
ShortfallIsError ==
  \A s \in StrandsOf(Master) :
    \/ pc[s] = "gone"
    \/ kill[s] # "none"
    \/ pc[s] \in {"exit", "done"} /\ (failed[s] \/ txn[s] < NtxnOf(s))
    => globalError[Master] > 0

\* The master leaves strands behind only after an error that it counted, or when it could
\* not ask for statistics.
ErrorIsCounted ==
  /\ mpc \in {"kill", "abort"} => globalError[Master] > 0
  /\ mpc \in {"join", "goodbye"} /\ error =>
       globalError[Master] > 0 \/ broken # {} \/ NSlave = 0

Joined ==
  /\ \A s \in ProcStrand : Ended(s)
  /\ ~error => \A s \in StrandsOf(Master) : Ended(s)
JoinedBeforeGoodbye == mpc = "goodbye" => Joined

SuccessIsFinal ==
  /\ mpc # "done" => status = "none"
  /\ status = "success" =>
       /\ globalError[Master] = 0
       /\ Joined
       /\ error => broken # {} \/ NSlave = 0

EInv ==
  /\ TypeOK
  /\ TxnInRange
  /\ ShortfallIsError
  /\ ErrorIsCounted
  /\ JoinedBeforeGoodbye
  /\ SuccessIsFinal

-----------------------------------------------------------------------------
(* RunControl implements LockStep                                          *)

Announced ==
  IF MoreTxns(currTxn) /\ AllArrived(Master, currTxn) THEN currTxn + 1 ELSE currTxn

Released(p) == Cardinality({t \in Txn : barrier[p][t] = "open"})

Promise == INSTANCE LockStep WITH
  Txns <- [s \in Strand |-> NtxnOf(s)],
  announced <- Announced,
  released <- [p \in Proc |-> Released(p)],
  begun <- [s \in Strand |-> IF Begun(s) THEN txn[s] + 1 ELSE txn[s]],
  ended <- txn

\* Every step of the processes is a step of LockStep or leaves it unchanged.
ImplementsLockStep == Promise!Spec
=============================================================================
