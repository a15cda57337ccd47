------------------------------ MODULE Duration ------------------------------
(***************************************************************************)
(* How a transaction ends: the strands of one process execute their         *)
(* transactions flowop by flowop (execute.c), and the main thread of the    *)
(* process (master.c or slave.c) signals them out of a transaction whose    *)
(* duration has passed, through callouts (shm.c) and SIGUSR2 (strand.c,     *)
(* signals.c).  The other processes of the run are what the main thread of  *)
(* a slave hears from the master.  Time is the order of events: a callout   *)
(* becomes due at some point after it was registered.                       *)
(***************************************************************************)
EXTENDS Integers, Sequences, FiniteSets

CONSTANTS
  Processes, \* [role, txns, outcomes, retries]: the processes this may be
  NGroup,    \* w->ngrp, 1 for a slave
  NStrand,   \* shm->no_strands
  GroupOf,   \* [Strand -> Group]
  MaxWait,   \* wait_time of wait_unlock_barrier (5)
  Prompt     \* a strand runs within the 200ms of a retry and within a duration

Group == 1 .. NGroup
Strand == 1 .. NStrand
All == 0     \* the group id -1 of signal_all_strands

\* duration: the transaction runs until it is called out, else iter times.
Flowops == Seq([count : Nat \ {0}, canfail : BOOLEAN])
TxnType == [duration : BOOLEAN, iter : Nat \ {0}, flowops : Flowops \ {<<>>}]

Members(g) == {s \in Strand : GroupOf[s] = g}
Leader(s) == \A r \in Members(GroupOf[s]) : s <= r

ASSUME DurationAssumption ==
  /\ NGroup \in Nat \ {0}
  /\ NStrand \in Nat \ {0}
  /\ GroupOf \in [Strand -> Group]
  /\ \A g \in Group : Members(g) # {}
  /\ \A p \in Processes :
       /\ p.role \in {"master", "slave"}
       /\ p.role = "slave" => NGroup = 1
       /\ p.outcomes \subseteq {"hangup", "error"}
       /\ p.retries \in Nat
       /\ \A g \in Group : p.txns[g] \in Seq(TxnType) /\ p.txns[g] # <<>>
  /\ MaxWait \in Nat
  /\ Prompt \in BOOLEAN

VARIABLES
  self,         \* which of Processes this is: it never changes
  pc,           \* [Strand -> StrandPC]
  txn,          \* [Strand -> Nat]: the transaction, from 1
  iter,         \* [Strand -> Nat]: completed iterations of the transaction
  op,           \* [Strand -> Nat]: the flowop of the transaction
  call,         \* [Strand -> Nat]: how often the flowop was executed
  ret,          \* [Strand -> {0, -1}]: what the flowop's execute function returned
  errno,        \* [Strand -> {"none", "EINTR", "other"}]
  result,       \* [Strand -> Result]: what txn_execute returned
  state,        \* [Strand -> StrandState]: strand_state
  signalled,    \* [Strand -> BOOLEAN]
  pending,      \* [Strand -> BOOLEAN]: a SIGUSR2 that was not delivered yet
  arrived,      \* [Barrier -> Nat]: count of the barrier
  callouts,     \* [Group -> {"none", "set", "due"}]
  globalError,  \* shm->global_error
  finished,     \* shm->finished
  mpc,          \* the main thread
  cur,          \* the barriers below are open; the next to open
  grp,          \* i of shm_process_callouts
  scope,        \* groupid of signal_all_strands
  idx,          \* i of the loops of signal_all_strands
  retries,
  noSignalled,  \* no_signalled
  back,         \* where shm_process_callouts returns to
  failedCall,   \* shm_process_callouts returned -1
  waitTime      \* wait_time of wait_unlock_barrier

work       == <<iter, op, call, ret, result>>
strandVars == <<pc, txn, work, errno, state>>
signalVars == <<signalled, pending>>
callVars   == <<grp, scope, idx, retries, noSignalled, back, failedCall>>
mainVars   == <<self, mpc, cur, callVars, waitTime>>
shmVars    == <<arrived, callouts, globalError, finished>>
vars == <<strandVars, signalVars, shmVars, mainVars>>

StrandPC == {"arrive", "wait", "begin", "flowop", "call", "blocked", "after", "clear",
             "exit", "done"}
MainPC == {"poll", "drain", "callout", "mark", "set", "signal", "check", "barrier",
           "unlock", "waited", "join", "kill", "done"}

Role == self.role
Txns == self.txns          \* [Group -> Seq(TxnType)]: the transactions of the group
Outcomes == self.outcomes  \* what a flowop may come to when it is not interrupted
Retries == self.retries    \* REPEATED_SIGNAL_RETRIES (5)

NtxnOf(s) == Len(Txns[GroupOf[s]])
MaxTxn == CHOOSE n \in {Len(Txns[g]) : g \in Group} : \A g \in Group : Len(Txns[g]) <= n
Barrier == 1 .. MaxTxn

TypeOK ==
  /\ self \in Processes
  /\ pc \in [Strand -> StrandPC]
  /\ txn \in [Strand -> Barrier]
  /\ iter \in [Strand -> Nat]
  /\ op \in [Strand -> Nat]
  /\ call \in [Strand -> Nat]
  /\ ret \in [Strand -> {0, -1}]
  /\ errno \in [Strand -> {"none", "EINTR", "other"}]
  /\ result \in [Strand -> {"success", "expired", "failure"}]
  /\ state \in [Strand -> {"AT_BARRIER", "EXECUTING", "EXIT"}]
  /\ signalled \in [Strand -> BOOLEAN]
  /\ pending \in [Strand -> BOOLEAN]
  /\ arrived \in [Barrier -> Nat]
  /\ callouts \in [Group -> {"none", "set", "due"}]
  /\ globalError \in Nat
  /\ finished \in 0 .. NStrand
  /\ mpc \in MainPC
  /\ cur \in 1 .. MaxTxn + 1
  /\ grp \in 1 .. NGroup + 1
  /\ scope \in 0 .. NGroup
  /\ idx \in 1 .. NStrand + 1
  /\ retries \in -1 .. Retries
  /\ noSignalled \in 0 .. NStrand
  /\ back \in {"poll", "drain", "barrier", "waited"}
  /\ failedCall \in BOOLEAN
  /\ waitTime \in 0 .. MaxWait

Txn(s) == Txns[GroupOf[s]][txn[s]]
FlowopOf(s) == Txn(s).flowops[op[s]]
Open(n) == n < cur
Limit(n) == Cardinality({s \in Strand : n <= NtxnOf(s)})

Init ==
  /\ self \in Processes
  /\ pc = [s \in Strand |-> "arrive"]
  /\ txn = [s \in Strand |-> 1]
  /\ iter = [s \in Strand |-> 0]
  /\ op = [s \in Strand |-> 1]
  /\ call = [s \in Strand |-> 0]
  /\ ret = [s \in Strand |-> 0]
  /\ errno = [s \in Strand |-> "none"]
  /\ result = [s \in Strand |-> "success"]
  /\ state = [s \in Strand |-> "AT_BARRIER"]
  /\ signalled = [s \in Strand |-> FALSE]
  /\ pending = [s \in Strand |-> FALSE]
  /\ arrived = [n \in Barrier |-> 0]
  /\ callouts = [g \in Group |-> "none"]
  /\ globalError = 0
  /\ finished = 0
  /\ mpc = "poll"
  /\ cur = 1
  /\ grp = 1
  /\ scope = All
  /\ idx = 1
  /\ retries = Retries
  /\ noSignalled = 0
  /\ back = "poll"
  /\ failedCall = FALSE
  /\ waitTime = MaxWait

-----------------------------------------------------------------------------
(* A strand: group_execute, txn_execute, flowop_execute                    *)

\* The main thread's exit ends the process.
Runs(s, at) == pc[s] = at /\ mpc # "done"
Goto(s, to) == pc' = [pc EXCEPT ![s] = to]

\* strand_state = STRAND_STATE_AT_BARRIER; wait_barrier
Arrive(s) ==
  /\ Runs(s, "arrive")
  /\ state' = [state EXCEPT ![s] = "AT_BARRIER"]
  /\ arrived' = [arrived EXCEPT ![txn[s]] = @ + 1]
  /\ Goto(s, "wait")
  /\ UNCHANGED <<txn, work, errno, signalVars, callouts, globalError, finished, mainVars>>

\* The barrier is open.  A signal that is pending is delivered before the strand goes on.
Pass(s) ==
  /\ Runs(s, "wait")
  /\ Open(txn[s])
  /\ ~pending[s]
  /\ IF globalError > 1
     THEN Goto(s, "exit") /\ UNCHANGED state
     ELSE Goto(s, "begin") /\ state' = [state EXCEPT ![s] = "EXECUTING"]
  /\ UNCHANGED <<txn, work, errno, signalVars, shmVars, mainVars>>

\* shm_callout_register, whose result nobody looks at.
Register(g) == callouts' = [callouts EXCEPT ![g] = IF @ = "none" THEN "set" ELSE @]

\* The start of duration_execute or txn_iterations, and of the first flowop.
Begin(s) ==
  /\ Runs(s, "begin")
  /\ IF Txn(s).duration /\ Leader(s) THEN Register(GroupOf[s]) ELSE UNCHANGED callouts
  /\ iter' = [iter EXCEPT ![s] = 0]
  /\ op' = [op EXCEPT ![s] = 1]
  /\ call' = [call EXCEPT ![s] = 0]
  /\ Goto(s, "flowop")
  /\ UNCHANGED <<txn, ret, result, errno, state, signalVars, arrived, globalError, finished,
                 mainVars>>

EndTxn(s, r) ==
  /\ result' = [result EXCEPT ![s] = r]
  /\ Goto(s, "clear")

\* flowop_execute: a strand that is signalled does not execute its flowop.
Flowop(s) ==
  /\ Runs(s, "flowop")
  /\ IF signalled[s] THEN EndTxn(s, "expired") ELSE Goto(s, "call") /\ UNCHANGED result
  /\ UNCHANGED <<txn, iter, op, call, ret, errno, state, signalVars, shmVars, mainVars>>

\* The execute function enters its system call.
EnterCall(s) ==
  /\ Runs(s, "call")
  /\ Goto(s, "blocked")
  /\ UNCHANGED <<txn, work, errno, state, signalVars, shmVars, mainVars>>

\* The execute function returns r, and flowop_execute goes on to the next of the flowop's
\* executions unless it failed.  A flowop that may fail has not failed.
Returns(s, r, e) ==
  /\ errno' = [errno EXCEPT ![s] = e]
  /\ LET failing == r < 0 /\ ~FlowopOf(s).canfail
         last == call[s] + 1 = FlowopOf(s).count
     IN /\ ret' = [ret EXCEPT ![s] = IF failing THEN r ELSE 0]
        /\ Goto(s, IF failing \/ last THEN "after" ELSE "flowop")
        /\ call' = [call EXCEPT ![s] = IF failing \/ last THEN 0 ELSE @ + 1]

\* The call succeeds, which leaves errno alone; the peer hung up, which is taken for the
\* end of the duration; or it fails.
Return(s) ==
  /\ Runs(s, "blocked")
  /\ \/ Returns(s, 0, errno[s])
     \/ "hangup" \in Outcomes /\ Returns(s, -1, "EINTR")
     \/ "error" \in Outcomes /\ Returns(s, -1, "other")
  /\ UNCHANGED <<txn, iter, op, result, state, signalVars, shmVars, mainVars>>

\* SIGUSR2 is delivered: it interrupts a system call and does nothing else.
Deliver(s) ==
  /\ pending[s]
  /\ mpc # "done"
  /\ pending' = [pending EXCEPT ![s] = FALSE]
  /\ IF pc[s] = "blocked" THEN Returns(s, -1, "EINTR") ELSE UNCHANGED <<pc, call, ret, errno>>
  /\ UNCHANGED <<txn, iter, op, result, state, signalled, shmVars, mainVars>>

\* The end of flowop_execute: EINTR and signalled are checked before the result.
Expired(s) == errno[s] = "EINTR" \/ signalled[s]

\* Mutant: one iteration less.
LastIteration_Early(s) == iter[s] + 2 >= Txn(s).iter

LastIteration(s) == iter[s] + 1 = Txn(s).iter

\* After the last flowop: txn_iterations counts, a duration starts over.
NextIteration(s) ==
  /\ iter' = [iter EXCEPT ![s] = IF Txn(s).duration THEN 0 ELSE @ + 1]
  /\ op' = [op EXCEPT ![s] = 1]
  /\ IF Txn(s).duration \/ ~LastIteration(s)
     THEN Goto(s, "flowop") /\ UNCHANGED result
     ELSE EndTxn(s, "success")

NextFlowop(s) ==
  /\ op' = [op EXCEPT ![s] = @ + 1]
  /\ Goto(s, "flowop")
  /\ UNCHANGED <<iter, result>>

After(s) ==
  /\ Runs(s, "after")
  /\ \/ Expired(s) /\ EndTxn(s, "expired") /\ UNCHANGED <<iter, op>>
     \/ ~Expired(s) /\ ret[s] < 0 /\ EndTxn(s, "failure") /\ UNCHANGED <<iter, op>>
     \/ /\ ~Expired(s)
        /\ ret[s] = 0
        /\ IF op[s] < Len(Txn(s).flowops) THEN NextFlowop(s) ELSE NextIteration(s)
  /\ UNCHANGED <<txn, call, ret, errno, state, signalVars, shmVars, mainVars>>

\* Mutant: one transaction too many.
MoreTxns_OneMore(s) == txn[s] <= NtxnOf(s)

MoreTxns(s) == txn[s] < NtxnOf(s)

\* Mutant: the flag stays set.
ClearSignal_Forgotten(s) == UNCHANGED signalled

ClearSignal(s) == signalled' = [signalled EXCEPT ![s] = FALSE]

\* CLEAR_SIGNAL, and on to the next transaction unless this one failed.
Clear(s) ==
  /\ Runs(s, "clear")
  /\ ClearSignal(s)
  /\ IF result[s] # "failure" /\ MoreTxns(s)
     THEN txn' = [txn EXCEPT ![s] = @ + 1] /\ Goto(s, "arrive")
     ELSE Goto(s, "exit") /\ UNCHANGED txn
  /\ UNCHANGED <<work, errno, state, pending, shmVars, mainVars>>

\* The end of group_execute and of strand_run.  DURATION_EXPIRED (4) is EINTR there, not an
\* error.
Exit(s) ==
  /\ Runs(s, "exit")
  /\ state' = [state EXCEPT ![s] = "EXIT"]
  /\ globalError' = globalError + (IF result[s] = "failure" THEN 1 ELSE 0)
  /\ finished' = finished + 1
  /\ Goto(s, "done")
  /\ UNCHANGED <<txn, work, errno, signalVars, arrived, callouts, mainVars>>

StrandStep(s) ==
  \/ Arrive(s) \/ Pass(s) \/ Begin(s) \/ Flowop(s) \/ EnterCall(s) \/ After(s)
  \/ Clear(s) \/ Exit(s)

-----------------------------------------------------------------------------
(* The main thread: signal_all_strands and shm_process_callouts            *)

AtBarrier(s) == state[s] = "AT_BARRIER"

\* signal_all_strands(shm, g, SIGUSR2)
StartSignalling(g) ==
  /\ scope' = g
  /\ idx' = 1
  /\ retries' = Retries
  /\ mpc' = "mark"

\* shm_process_callouts, called from where it returns to at.
StartCallouts(at) ==
  /\ grp' = 1
  /\ back' = at
  /\ failedCall' = FALSE
  /\ mpc' = "callout"

\* The loop over the groups.
Callout ==
  /\ mpc = "callout"
  /\ IF grp > NGroup
     THEN mpc' = back /\ UNCHANGED <<grp, scope, idx, retries>>
     ELSE IF callouts[grp] = "due"
          THEN StartSignalling(grp) /\ UNCHANGED grp
          ELSE grp' = grp + 1 /\ UNCHANGED <<mpc, scope, idx, retries>>
  /\ UNCHANGED <<cur, noSignalled, back, failedCall, waitTime, self, strandVars, signalVars,
                 shmVars>>

\* Mutant: the strands of every group.
InScope_AllGroups(s) == TRUE

InScope(s) == scope \in {All, GroupOf[s]}

\* The first loop reads the strand's state ...
Mark ==
  /\ mpc = "mark"
  /\ IF idx > NStrand
     THEN mpc' = "signal" /\ idx' = 1 /\ noSignalled' = 0
     ELSE /\ UNCHANGED noSignalled
          /\ IF AtBarrier(idx) \/ ~InScope(idx)
             THEN idx' = idx + 1 /\ UNCHANGED mpc
             ELSE mpc' = "set" /\ UNCHANGED idx
  /\ UNCHANGED <<cur, grp, scope, retries, back, failedCall, waitTime, self, strandVars,
                 signalVars, shmVars>>

\* ... and then writes signalled.
Set ==
  /\ mpc = "set"
  /\ signalled' = [signalled EXCEPT ![idx] = TRUE]
  /\ idx' = idx + 1
  /\ mpc' = "mark"
  /\ UNCHANGED <<cur, grp, scope, retries, noSignalled, back, failedCall, waitTime,
                 self, strandVars, pending, shmVars>>

\* After uperf_sleep(SIGNAL_SLEEP) a strand that runs promptly has seen signalled or is
\* in a system call.
Breather ==
  Prompt => \A s \in Strand : signalled[s] => ~pending[s] /\ pc[s] \in {"blocked", "wait", "done"}

\* The second loop: pthread_kill of a strand that ended may succeed until it is joined.
Signal ==
  /\ mpc = "signal"
  /\ idx <= NStrand
  /\ idx = 1 /\ retries < Retries => Breather
  /\ idx' = idx + 1
  /\ IF AtBarrier(idx) \/ ~signalled[idx]
     THEN UNCHANGED <<noSignalled, pending>>
     ELSE IF pc[idx] = "done"
          THEN noSignalled' \in {noSignalled, noSignalled + 1} /\ UNCHANGED pending
          ELSE noSignalled' = noSignalled + 1 /\ pending' = [pending EXCEPT ![idx] = TRUE]
  /\ UNCHANGED <<mpc, cur, grp, scope, retries, back, failedCall, waitTime, self, strandVars,
                 signalled, shmVars>>

\* while ((no_signalled > 0) && (retries-- > 0))
Again ==
  /\ mpc = "signal"
  /\ idx > NStrand
  /\ retries' = IF noSignalled > 0 THEN retries - 1 ELSE retries
  /\ IF noSignalled > 0 /\ retries > 0
     THEN idx' = 1 /\ noSignalled' = 0 /\ UNCHANGED mpc
     ELSE mpc' = "check" /\ UNCHANGED <<idx, noSignalled>>
  /\ UNCHANGED <<cur, grp, scope, back, failedCall, waitTime, self, strandVars, signalVars,
                 shmVars>>

\* signal_all_strands fails when strands were still there at the last retry and some
\* strand is at a barrier.
NotResponding == retries < 0 /\ noSignalled > 0 /\ \E s \in Strand : AtBarrier(s)

\* Mutant: the callout stays registered.
CalledOut_Kept == UNCHANGED callouts

CalledOut == callouts' = [callouts EXCEPT ![grp] = "none"]

\* Back in shm_process_callouts.
CheckCallout ==
  /\ mpc = "check"
  /\ scope # All
  /\ IF NotResponding
     THEN /\ globalError' = globalError + 1
          /\ failedCall' = TRUE
          /\ mpc' = back
          /\ UNCHANGED <<callouts, grp>>
     ELSE /\ CalledOut
          /\ grp' = grp + 1
          /\ mpc' = "callout"
          /\ UNCHANGED <<globalError, failedCall>>
  /\ UNCHANGED <<cur, scope, idx, retries, noSignalled, back, waitTime, self, strandVars,
                 signalVars, arrived, finished>>

CalloutStep == Callout \/ Mark \/ Set \/ Signal \/ Again \/ CheckCallout

-----------------------------------------------------------------------------
(* The main thread of the master: master_poll                              *)

MasterPoll ==
  /\ Role = "master"
  /\ mpc = "poll"
  /\ IF cur <= MaxTxn /\ globalError = 0
     THEN StartCallouts("barrier")
     ELSE mpc' = "drain" /\ UNCHANGED <<grp, back, failedCall>>
  /\ UNCHANGED <<cur, scope, idx, retries, noSignalled, waitTime, self, strandVars, signalVars,
                 shmVars>>

MasterBarrier ==
  /\ mpc = "barrier"
  /\ cur' = IF arrived[cur] = Limit(cur) THEN cur + 1 ELSE cur
  /\ mpc' = "poll"
  /\ UNCHANGED <<callVars, waitTime, self, strandVars, signalVars, shmVars>>

\* Mutant: the callouts of the last transaction are not processed.
Draining_Never == FALSE

\* while (shm->global_error == 0 && shm->finished == 0)
Draining == finished = 0

MasterDrain ==
  /\ mpc = "drain"
  /\ \/ globalError = 0 /\ Draining /\ StartCallouts("drain")
     \/ globalError = 0 /\ ~Draining /\ mpc' = "join" /\ UNCHANGED <<grp, back, failedCall>>
     \/ globalError > 0 /\ mpc' = "kill" /\ UNCHANGED <<grp, back, failedCall>>
  /\ UNCHANGED <<cur, scope, idx, retries, noSignalled, waitTime, self, strandVars, signalVars,
                 shmVars>>

-----------------------------------------------------------------------------
(* The main thread of a slave: slave_master_poll and wait_unlock_barrier   *)

\* The loop of slave_master_poll ends on an error, an ABORT or the end of the connection.
SlaveAborts ==
  /\ Role = "slave"
  /\ mpc = "poll"
  /\ mpc' = "kill"
  /\ UNCHANGED <<cur, callVars, waitTime, self, strandVars, signalVars, shmVars>>

\* NEXT_TXN comes for one transaction after the other, then SEND_STATS.
SlaveCommand ==
  /\ Role = "slave"
  /\ mpc = "poll"
  /\ globalError = 0
  /\ IF cur <= MaxTxn
     THEN mpc' = "unlock" /\ waitTime' = MaxWait
     ELSE mpc' = "join" /\ UNCHANGED waitTime
  /\ UNCHANGED <<cur, callVars, self, strandVars, signalVars, shmVars>>

\* No command yet.
SlaveIdle ==
  /\ Role = "slave"
  /\ mpc = "poll"
  /\ globalError = 0
  /\ StartCallouts("poll")
  /\ UNCHANGED <<cur, scope, idx, retries, noSignalled, waitTime, self, strandVars, signalVars,
                 shmVars>>

\* The loop of wait_unlock_barrier.
SlaveUnlock ==
  /\ mpc = "unlock"
  /\ \/ /\ arrived[cur] = Limit(cur)
        /\ cur' = cur + 1
        /\ StartCallouts("poll")
        /\ UNCHANGED <<scope, idx, retries>>
     \/ /\ arrived[cur] # Limit(cur)
        /\ globalError > 0
        /\ mpc' = "kill"
        /\ UNCHANGED <<cur, grp, back, failedCall, scope, idx, retries>>
     \/ /\ arrived[cur] # Limit(cur)
        /\ globalError = 0
        /\ StartSignalling(All)
        /\ UNCHANGED <<cur, grp, back, failedCall>>
  /\ UNCHANGED <<noSignalled, waitTime, self, strandVars, signalVars, shmVars>>

\* After signal_all_strands: sleep(1) and the callouts.
SlaveSignalled ==
  /\ mpc = "check"
  /\ scope = All
  /\ IF NotResponding
     THEN mpc' = "kill" /\ UNCHANGED <<grp, back, failedCall>>
     ELSE StartCallouts("waited")
  /\ UNCHANGED <<cur, scope, idx, retries, noSignalled, waitTime, self, strandVars, signalVars,
                 shmVars>>

\* wait_time-- == 0
SlaveWaited ==
  /\ mpc = "waited"
  /\ mpc' = IF failedCall \/ waitTime = 0 THEN "kill" ELSE "unlock"
  /\ waitTime' = IF waitTime = 0 THEN 0 ELSE waitTime - 1
  /\ UNCHANGED <<cur, callVars, self, strandVars, signalVars, shmVars>>

-----------------------------------------------------------------------------
(* The end of the process                                                  *)

\* Mutant: strand_killall is forgotten, the strands are waited for.
Join_WithoutKill ==
  /\ mpc \in {"join", "kill"}
  /\ \A s \in Strand : pc[s] = "done"
  /\ mpc' = "done"
  /\ UNCHANGED <<cur, callVars, waitTime, self, strandVars, signalVars, shmVars>>

\* wait_for_strands joins every strand, and none that strand_killall has ended.
Join ==
  /\ \/ mpc = "join" /\ \A s \in Strand : pc[s] = "done"
     \/ mpc = "kill"
  /\ mpc' = "done"
  /\ UNCHANGED <<cur, callVars, waitTime, self, strandVars, signalVars, shmVars>>

MainStep ==
  \/ CalloutStep
  \/ MasterPoll \/ MasterBarrier \/ MasterDrain
  \/ SlaveAborts \/ SlaveCommand \/ SlaveIdle \/ SlaveUnlock \/ SlaveSignalled \/ SlaveWaited
  \/ Join

\* The duration of group g's transaction passes.  A strand that runs promptly has begun
\* by then.
Due(g) ==
  /\ callouts[g] = "set"
  /\ mpc # "done"
  /\ Prompt => \A s \in Members(g) : pc[s] = "wait" => ~Open(txn[s])
  /\ callouts' = [callouts EXCEPT ![g] = "due"]
  /\ UNCHANGED <<strandVars, signalVars, arrived, globalError, finished, mainVars>>

Terminated == mpc = "done" /\ UNCHANGED vars

Next ==
  \/ \E s \in Strand : StrandStep(s) \/ Return(s) \/ Deliver(s)
  \/ MainStep
  \/ \E g \in Group : Due(g)
  \/ Terminated

Spec == Init /\ [][Next]_vars

\* Threads are scheduled, signals delivered, time passes, and the master's commands come:
\* what it sent stays readable however often the slave polls.  A call of a transaction with
\* iterations returns some time; one under a duration may block for ever.
Fairness ==
  /\ WF_vars(MainStep)
  /\ SF_vars(SlaveCommand)
  /\ \A s \in Strand :
       /\ WF_vars(StrandStep(s))
       /\ WF_vars(Deliver(s))
       /\ WF_vars(Return(s) /\ ~Txn(s).duration)
  /\ \A g \in Group : WF_vars(Due(g))

FairSpec == Spec /\ Fairness
-----------------------------------------------------------------------------
(* What must hold                                                          *)

\* A transaction starts with a clean flag: a strand that was signalled out of one
\* transaction is not signalled out of the next one too (signalled in strand.h,
\* CLEAR_SIGNAL in group_execute against the write in signal_all_strands).
NoStaleSignal == \A s \in Strand : pc[s] \in {"arrive", "wait"} => ~signalled[s]

\* A callout that may still fire belongs to the transaction its group is in: no strand
\* begins another transaction with the callout of an old one registered
\* (shm_process_callouts clears it only after it has signalled the strands).  At the next
\* barrier it waits, or leaves the run because of an error.
CalloutIsCurrent ==
  \A g \in Group : callouts[g] # "none" =>
    \E n \in 1 .. Len(Txns[g]) :
      /\ Txns[g][n].duration
      /\ \A s \in Members(g) :
           txn[s] = n \/ (txn[s] = n + 1 /\ pc[s] \in {"arrive", "wait", "exit", "done"})

\* The transactions that end in this step without a failure.
EndsTxn(s) == pc[s] # "clear" /\ pc'[s] = "clear" /\ result'[s] # "failure"

\* "the contents of the transaction are executed for 30 seconds" (uperf.xml): no strand
\* ends a transaction with a duration while the callout of its group is not due.
LastsForDuration ==
  [][\A s \in Strand : EndsTxn(s) /\ Txn(s).duration => callouts[GroupOf[s]] # "set"]_vars

\* "the contents of the transactions are executed 1000 times" (uperf.xml): a strand of the
\* master that ends a transaction with iterations without a failure has executed all of
\* them.  A slave's strand may stop short: it also ends when the master hung up.
IterationsComplete ==
  [][\A s \in Strand : Role = "master" /\ EndsTxn(s) /\ ~Txn(s).duration =>
                         iter'[s] = Txn(s).iter]_vars

\* The run of the process ends, although no call under a duration ever returns by itself:
\* every callout fires, and every strand is signalled and leaves its call.
Finishes == <>(mpc = "done")
=============================================================================
