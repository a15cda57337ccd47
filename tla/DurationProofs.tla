--------------------------- MODULE DurationProofs ---------------------------
(***************************************************************************)
(* Theorems about Duration, for any number of groups, strands, transactions *)
(* and flowops.  For every process, the types of its variables and its      *)
(* barriers.  For that of a master with at most one duration in each group  *)
(* and no hangups: how its transactions end, that its signals end the       *)
(* transaction they were meant for, and that its callouts belong to the     *)
(* transaction the group is in.  The invariants build on each other:        *)
(* TypeInv, Barriers, Schedule (callouts), Sweep (signals), Rounds (the     *)
(* retries of signal_all_strands), TakenBack (the next transaction).        *)
(***************************************************************************)
EXTENDS Duration, Extrema, FiniteSetTheorems

-----------------------------------------------------------------------------
(* The constants                                                            *)

\* The longest list of transactions.
LEMMA LongestList ==
  ASSUME self \in Processes
  PROVE  /\ Role \in {"master", "slave"} /\ Retries \in Nat /\ Outcomes \subseteq {"hangup", "error"}
         /\ \A g \in Group : Txns[g] \in Seq(TxnType) /\ Len(Txns[g]) \in Nat \ {0}
         /\ MaxTxn \in Nat \ {0} /\ \A g \in Group : Len(Txns[g]) <= MaxTxn
<1> DEFINE len == [g \in Group |-> Len(Txns[g])]
<1>1. /\ Role \in {"master", "slave"} /\ Retries \in Nat /\ Outcomes \subseteq {"hangup", "error"}
      /\ \A g \in Group : Txns[g] \in Seq(TxnType) /\ Txns[g] # <<>>
      /\ NGroup \in Nat \ {0}
  BY DurationAssumption DEF Role, Retries, Outcomes, Txns
<1>2. \A g \in Group : Len(Txns[g]) \in Nat \ {0}
  BY <1>1
<1>3. \A g \in 1 .. NGroup : len[g] \in Nat
  BY <1>2 DEF Group
<1>4. \A g \in Group : len[g] = Len(Txns[g])
  OBVIOUS
<1> HIDE DEF len
<1>5. PICK i \in 1 .. NGroup : \A j \in 1 .. NGroup : len[j] <= len[i]
  BY <1>1, <1>3, LargestOfFinitelyMany
<1>6. \E n \in {Len(Txns[g]) : g \in Group} : \A g \in Group : Len(Txns[g]) <= n
  BY <1>4, <1>5 DEF Group
<1>7. MaxTxn \in {Len(Txns[g]) : g \in Group} /\ \A g \in Group : Len(Txns[g]) <= MaxTxn
  BY <1>6 DEF MaxTxn
<1>8. MaxTxn \in Nat \ {0}
  BY <1>2, <1>7
<1> QED BY <1>1, <1>2, <1>7, <1>8

\* The groups and barriers of the strands.
LEMMA StrandsGroups ==
  ASSUME self \in Processes
  PROVE  /\ NGroup \in Nat \ {0} /\ NStrand \in Nat \ {0} /\ MaxWait \in Nat
         /\ \A s \in Strand : /\ s \in Nat /\ s <= NStrand /\ GroupOf[s] \in Group
                              /\ NtxnOf(s) \in Nat \ {0} /\ NtxnOf(s) <= MaxTxn
                              /\ \A n \in 1 .. NtxnOf(s) : n \in Barrier
<1>1. /\ NGroup \in Nat \ {0} /\ NStrand \in Nat \ {0} /\ MaxWait \in Nat
      /\ \A s \in Strand : s \in Nat /\ s <= NStrand /\ GroupOf[s] \in Group
  BY DurationAssumption DEF Strand
<1>2. MaxTxn \in Nat /\ \A s \in Strand : NtxnOf(s) \in Nat \ {0} /\ NtxnOf(s) <= MaxTxn
  BY <1>1, LongestList DEF NtxnOf
<1>3. \A s \in Strand : \A n \in 1 .. NtxnOf(s) : n \in Barrier
  BY <1>2 DEF Barrier
<1> QED BY <1>1, <1>2, <1>3

LEMMA StrandsFinite == IsFiniteSet(Strand)
<1>1. 1 \in Int /\ NStrand \in Int
  BY DurationAssumption
<1> QED BY <1>1, FS_Interval DEF Strand

\* What depends on which process this is.
LEMMA SameProcess ==
  ASSUME self' = self
  PROVE  /\ Role' = Role /\ Txns' = Txns /\ Outcomes' = Outcomes /\ Retries' = Retries
         /\ MaxTxn' = MaxTxn /\ Barrier' = Barrier
         /\ \A s \in Strand : NtxnOf(s)' = NtxnOf(s)
         /\ \A n : Limit(n)' = Limit(n)
BY DEF Role, Txns, Outcomes, Retries, MaxTxn, Barrier, NtxnOf, Limit

-----------------------------------------------------------------------------
(* Types                                                                    *)

Signalling == {"mark", "set", "signal", "check"}

\* shm_process_callouts is running.
CallingOut == mpc = "callout" \/ (mpc \in Signalling /\ scope # All)

\* There is a barrier that the main thread is about to open.
AtNextBarrier ==
  \/ mpc \in {"barrier", "unlock", "waited"}
  \/ mpc \in Signalling /\ scope = All
  \/ CallingOut /\ back \in {"barrier", "waited"}

StrandTypes ==
  /\ pc \in [Strand -> StrandPC]
  /\ txn \in [Strand -> Barrier]
  /\ iter \in [Strand -> Nat]
  /\ op \in [Strand -> Nat]
  /\ call \in [Strand -> Nat]
  /\ ret \in [Strand -> {0, -1}]
  /\ errno \in [Strand -> {"none", "EINTR", "other"}]
  /\ result \in [Strand -> {"success", "expired", "failure"}]
  /\ state \in [Strand -> {"AT_BARRIER", "EXECUTING", "EXIT"}]

SharedTypes ==
  /\ signalled \in [Strand -> BOOLEAN]
  /\ pending \in [Strand -> BOOLEAN]
  /\ arrived \in [Barrier -> Nat]
  /\ callouts \in [Group -> {"none", "set", "due"}]
  /\ globalError \in Nat

MainTypes ==
  /\ mpc \in MainPC
  /\ cur \in 1 .. MaxTxn + 1
  /\ grp \in 1 .. NGroup + 1
  /\ scope \in 0 .. NGroup
  /\ idx \in 1 .. NStrand + 1
  /\ retries \in -1 .. Retries
  /\ noSignalled \in 0 .. NStrand
  /\ back \in {"poll", "drain", "barrier", "waited"}
  /\ failedCall \in BOOLEAN
  /\ waitTime \in 0 .. MaxWait

\* A strand is in one of its transactions, and those that are done are counted.
StrandsCounted ==
  /\ \A s \in Strand : txn[s] \in 1 .. NtxnOf(s)
  /\ finished = Cardinality({s \in Strand : pc[s] = "done"})

\* The indices of the main thread's loops are those of a group, a strand and a barrier.
LoopsInRange ==
  /\ mpc \in Signalling /\ scope # All => scope = grp
  /\ mpc = "set" => idx <= NStrand
  /\ mpc \in {"mark", "set", "signal"} => retries >= 0
  /\ mpc = "signal" => noSignalled < idx
  /\ AtNextBarrier => cur <= MaxTxn

TypeInv ==
  /\ self \in Processes
  /\ StrandTypes /\ SharedTypes /\ StrandsCounted /\ MainTypes /\ LoopsInRange

\* A step of a strand leaves the main thread alone.
LEMMA MainKept ==
  ASSUME TypeInv, UNCHANGED mainVars
  PROVE  self' \in Processes /\ MainTypes' /\ LoopsInRange'
<1>1. MaxTxn' = MaxTxn /\ Retries' = Retries /\ self' = self
  BY SameProcess DEF mainVars
<1> QED BY <1>1 DEF TypeInv, mainVars, callVars, MainTypes, LoopsInRange, AtNextBarrier, CallingOut

\* The main thread leaves the strands alone.
LEMMA StrandsKept ==
  ASSUME TypeInv, UNCHANGED <<self, strandVars, finished>>
  PROVE  self' \in Processes /\ StrandTypes' /\ StrandsCounted'
<1>1. Barrier' = Barrier /\ self' = self /\ \A s \in Strand : NtxnOf(s)' = NtxnOf(s)
  BY SameProcess
<1> QED BY <1>1 DEF TypeInv, strandVars, work, StrandTypes, StrandsCounted

\* A step that lets no strand end.
LEMMA CountKept ==
  ASSUME TypeInv, finished' = finished, \A s \in Strand : pc'[s] = "done" <=> pc[s] = "done"
  PROVE  finished' = Cardinality({s \in Strand : pc'[s] = "done"})
<1>1. {s \in Strand : pc'[s] = "done"} = {s \in Strand : pc[s] = "done"}
  OBVIOUS
<1> QED BY <1>1 DEF TypeInv, StrandsCounted

-----------------------------------------------------------------------------
(* The steps of the strands                                                 *)

LEMMA ReturnsOK ==
  ASSUME TypeInv, NEW s \in Strand, NEW r \in {0, -1}, NEW e \in {"none", "EINTR", "other"}, Returns(s, r, e)
  PROVE  /\ errno' \in [Strand -> {"none", "EINTR", "other"}]
         /\ ret' \in [Strand -> {0, -1}] /\ call' \in [Strand -> Nat]
         /\ \E to \in {"after", "flowop"} : pc' = [pc EXCEPT ![s] = to]
<1> DEFINE failing == r < 0 /\ ~FlowopOf(s).canfail
           last == call[s] + 1 = FlowopOf(s).count
<1>1. /\ errno' = [errno EXCEPT ![s] = e]
      /\ ret' = [ret EXCEPT ![s] = IF failing THEN r ELSE 0]
      /\ Goto(s, IF failing \/ last THEN "after" ELSE "flowop")
      /\ call' = [call EXCEPT ![s] = IF failing \/ last THEN 0 ELSE @ + 1]
  BY DEF Returns
<1> HIDE DEF failing, last
<1>2. errno \in [Strand -> {"none", "EINTR", "other"}] /\ ret \in [Strand -> {0, -1}] /\ call \in [Strand -> Nat]
  BY DEF TypeInv, StrandTypes
<1>3. \E to \in {"after", "flowop"} : pc' = [pc EXCEPT ![s] = to]
  <2>1. CASE failing \/ last
    BY <1>1, <2>1 DEF Goto
  <2>2. CASE ~(failing \/ last)
    BY <1>1, <2>2 DEF Goto
  <2> QED BY <2>1, <2>2
<1>4. errno' \in [Strand -> {"none", "EINTR", "other"}]
  BY <1>1, <1>2
<1>5. ret' \in [Strand -> {0, -1}]
  <2> DEFINE it == IF failing THEN r ELSE 0
  <2>1. it \in {0, -1} /\ ret' = [ret EXCEPT ![s] = it]
    BY <1>1
  <2> HIDE DEF it
  <2> QED BY <1>2, <2>1
<1>6. call' \in [Strand -> Nat]
  <2> DEFINE it == IF failing \/ last THEN 0 ELSE call[s] + 1
  <2>1. it \in Nat /\ call' = [call EXCEPT ![s] = it]
    BY <1>1, <1>2
  <2> HIDE DEF it
  <2> QED BY <1>2, <2>1
<1> QED BY <1>3, <1>4, <1>5, <1>6

\* What a step changes in the strands, when no strand ends in it.
LEMMA StrandMoves ==
  ASSUME TypeInv, NEW s \in Strand, NEW to \in StrandPC \ {"done"}, pc' = [pc EXCEPT ![s] = to],
         pc[s] # "done", UNCHANGED <<txn, finished, mainVars>>,
         iter' \in [Strand -> Nat], op' \in [Strand -> Nat], call' \in [Strand -> Nat],
         ret' \in [Strand -> {0, -1}], errno' \in [Strand -> {"none", "EINTR", "other"}],
         result' \in [Strand -> {"success", "expired", "failure"}],
         state' \in [Strand -> {"AT_BARRIER", "EXECUTING", "EXIT"}],
         SharedTypes'
  PROVE  TypeInv'
<1>1. self' = self /\ Barrier' = Barrier /\ \A r \in Strand : NtxnOf(r)' = NtxnOf(r)
  BY SameProcess DEF mainVars
<1>2. pc \in [Strand -> StrandPC] /\ txn \in [Strand -> Barrier] /\ \A r \in Strand : txn[r] \in 1 .. NtxnOf(r)
  BY DEF TypeInv, StrandTypes, StrandsCounted
<1>3. pc' \in [Strand -> StrandPC] /\ \A r \in Strand : pc'[r] = "done" <=> pc[r] = "done"
  BY <1>2
<1>4. StrandTypes'
  BY <1>1, <1>2, <1>3 DEF StrandTypes
<1>5. StrandsCounted'
  BY <1>1, <1>2, <1>3, CountKept DEF StrandsCounted
<1> QED BY <1>4, <1>5, MainKept DEF TypeInv

\* The shared variables that only some of the steps of a strand change.
LEMMA SharedKept ==
  ASSUME TypeInv, self' = self, UNCHANGED <<signalVars, arrived, callouts, globalError>>
  PROVE  SharedTypes'
<1>1. Barrier' = Barrier
  BY SameProcess
<1> QED BY <1>1 DEF TypeInv, SharedTypes, signalVars

LEMMA StrandStepOK ==
  ASSUME TypeInv, NEW s \in Strand, StrandStep(s) \/ Return(s) \/ Deliver(s)
  PROVE  TypeInv'
<1> USE DEF work, signalVars, shmVars, mainVars, Runs, Goto
<1>1. /\ StrandTypes /\ SharedTypes /\ StrandsCounted /\ self \in Processes
      /\ \A r \in Strand : txn[r] \in 1 .. NtxnOf(r)
  BY DEF TypeInv, StrandsCounted
<1>2. self' = self /\ Barrier' = Barrier
  <2>1. self' = self
    BY DEF StrandStep, Arrive, Pass, Begin, Flowop, EnterCall, After, Clear, Exit, Return, Deliver
  <2> QED BY <2>1, SameProcess
<1>3. CASE Arrive(s)
  <2>1. arrived' \in [Barrier -> Nat]
    BY <1>1, <1>3 DEF Arrive, StrandTypes, SharedTypes
  <2>2. SharedTypes'
    BY <1>1, <1>2, <1>3, <2>1 DEF Arrive, SharedTypes
  <2>3. pc' = [pc EXCEPT ![s] = "wait"] /\ pc[s] # "done" /\ state' \in [Strand -> {"AT_BARRIER", "EXECUTING", "EXIT"}]
    BY <1>1, <1>3 DEF Arrive, StrandTypes
  <2> QED BY <1>1, <1>3, <2>2, <2>3, StrandMoves DEF Arrive, StrandTypes, StrandPC
<1>4. CASE Pass(s)
  <2>1. /\ pc[s] # "done" /\ state' \in [Strand -> {"AT_BARRIER", "EXECUTING", "EXIT"}]
        /\ \E to \in StrandPC \ {"done"} : pc' = [pc EXCEPT ![s] = to]
    BY <1>1, <1>4 DEF Pass, StrandTypes, StrandPC
  <2>2. SharedTypes'
    BY <1>2, <1>4, SharedKept DEF Pass
  <2> QED BY <1>1, <1>4, <2>1, <2>2, StrandMoves DEF Pass, StrandTypes
<1>5. CASE Begin(s)
  <2>1. GroupOf[s] \in Group
    BY <1>1, StrandsGroups
  <2>2. callouts' \in [Group -> {"none", "set", "due"}]
    <3>1. callouts' = callouts \/ callouts' = [callouts EXCEPT ![GroupOf[s]] = IF @ = "none" THEN "set" ELSE @]
      BY <1>5 DEF Begin, Register
    <3> QED BY <1>1, <2>1, <3>1 DEF SharedTypes
  <2>3. SharedTypes'
    BY <1>1, <1>2, <1>5, <2>2 DEF Begin, SharedTypes
  <2>4. /\ pc[s] # "done" /\ pc' = [pc EXCEPT ![s] = "flowop"]
        /\ iter' \in [Strand -> Nat] /\ op' \in [Strand -> Nat] /\ call' \in [Strand -> Nat]
    BY <1>1, <1>5 DEF Begin, StrandTypes
  <2> QED BY <1>1, <1>5, <2>3, <2>4, StrandMoves DEF Begin, StrandTypes, StrandPC
<1>6. CASE Flowop(s)
  <2>1. /\ pc[s] # "done" /\ result' \in [Strand -> {"success", "expired", "failure"}]
        /\ \E to \in StrandPC \ {"done"} : pc' = [pc EXCEPT ![s] = to]
    BY <1>1, <1>6 DEF Flowop, EndTxn, StrandTypes, StrandPC
  <2>2. SharedTypes'
    BY <1>2, <1>6, SharedKept DEF Flowop
  <2> QED BY <1>1, <1>6, <2>1, <2>2, StrandMoves DEF Flowop, StrandTypes
<1>7. CASE EnterCall(s)
  <2>1. SharedTypes'
    BY <1>2, <1>7, SharedKept DEF EnterCall
  <2> QED BY <1>1, <1>7, <2>1, StrandMoves DEF EnterCall, StrandTypes, StrandPC
<1>8. CASE After(s)
  <2>1. pc[s] # "done" /\ UNCHANGED <<txn, call, ret, errno, state, signalVars, shmVars, mainVars>>
    BY <1>8 DEF After
  <2>2. /\ iter' \in [Strand -> Nat] /\ op' \in [Strand -> Nat]
        /\ result' \in [Strand -> {"success", "expired", "failure"}]
        /\ \E to \in StrandPC \ {"done"} : pc' = [pc EXCEPT ![s] = to]
    <3>1. CASE EndTxn(s, "expired") /\ UNCHANGED <<iter, op>>
      BY <1>1, <3>1 DEF EndTxn, StrandTypes, StrandPC
    <3>2. CASE EndTxn(s, "failure") /\ UNCHANGED <<iter, op>>
      BY <1>1, <3>2 DEF EndTxn, StrandTypes, StrandPC
    <3>3. CASE NextFlowop(s)
      <4>1. op' = [op EXCEPT ![s] = @ + 1] /\ pc' = [pc EXCEPT ![s] = "flowop"] /\ UNCHANGED <<iter, result>>
        BY <3>3 DEF NextFlowop
      <4>2. op' \in [Strand -> Nat]
        BY <1>1, <4>1 DEF StrandTypes
      <4> QED BY <1>1, <4>1, <4>2 DEF StrandTypes, StrandPC
    <3>4. CASE NextIteration(s)
      <4>1. /\ iter' = [iter EXCEPT ![s] = IF Txn(s).duration THEN 0 ELSE @ + 1]
            /\ op' = [op EXCEPT ![s] = 1]
            /\ \/ pc' = [pc EXCEPT ![s] = "flowop"] /\ UNCHANGED result
               \/ EndTxn(s, "success")
        BY <3>4 DEF NextIteration
      <4>2. iter' \in [Strand -> Nat]
        BY <1>1, <4>1 DEF StrandTypes
      <4>3. op' \in [Strand -> Nat]
        BY <1>1, <4>1 DEF StrandTypes
      <4>4. /\ result' \in [Strand -> {"success", "expired", "failure"}]
            /\ \E to \in StrandPC \ {"done"} : pc' = [pc EXCEPT ![s] = to]
        BY <1>1, <4>1 DEF EndTxn, StrandTypes, StrandPC
      <4> QED BY <4>2, <4>3, <4>4
    <3> QED BY <1>8, <3>1, <3>2, <3>3, <3>4 DEF After
  <2>3. SharedTypes'
    BY <1>2, <2>1, SharedKept
  <2> QED BY <1>1, <2>1, <2>2, <2>3, StrandMoves DEF StrandTypes
<1>9. CASE Clear(s)
  <2>1. pc[s] # "done" /\ UNCHANGED <<iter, op, call, ret, result, errno, state, pending, shmVars, mainVars>>
    BY <1>9 DEF Clear
  <2>2. SharedTypes'
    BY <1>1, <1>2, <1>9, <2>1 DEF SharedTypes, Clear, ClearSignal
  <2>3. CASE MoreTxns(s) /\ txn' = [txn EXCEPT ![s] = @ + 1] /\ pc' = [pc EXCEPT ![s] = "arrive"]
    <3>1. txn[s] + 1 \in 1 .. NtxnOf(s) /\ NtxnOf(s) \in Nat
      BY <1>1, <2>3, StrandsGroups DEF MoreTxns
    <3>2. txn[s] + 1 \in Barrier
      BY <1>1, <3>1, StrandsGroups
    <3> DEFINE next == txn[s] + 1
    <3>3. txn' = [txn EXCEPT ![s] = next] /\ next \in Barrier /\ next \in 1 .. NtxnOf(s)
      BY <2>3, <3>1, <3>2
    <3> HIDE DEF next
    <3>4. txn' \in [Strand -> Barrier] /\ \A r \in Strand : txn'[r] \in 1 .. NtxnOf(r)
      BY <1>1, <3>3 DEF StrandTypes
    <3>5. pc' \in [Strand -> StrandPC] /\ \A r \in Strand : pc'[r] = "done" <=> pc[r] = "done"
      BY <1>1, <2>1, <2>3 DEF StrandTypes, StrandPC
    <3>6. StrandTypes'
      BY <1>1, <1>2, <2>1, <3>4, <3>5 DEF StrandTypes
    <3>7. StrandsCounted'
      <4>1. \A r \in Strand : NtxnOf(r)' = NtxnOf(r)
        BY <1>2, SameProcess
      <4> QED BY <2>1, <3>4, <3>5, <4>1, CountKept DEF StrandsCounted
    <3>8. self' \in Processes /\ MainTypes' /\ LoopsInRange'
      BY <2>1, MainKept
    <3> QED BY <2>2, <3>6, <3>7, <3>8 DEF TypeInv
  <2>4. CASE pc' = [pc EXCEPT ![s] = "exit"] /\ txn' = txn
    BY <1>1, <2>1, <2>2, <2>4, StrandMoves DEF StrandTypes, StrandPC
  <2> QED BY <1>9, <2>3, <2>4 DEF Clear
<1>10. CASE Exit(s)
  <2> DEFINE D == {r \in Strand : pc[r] = "done"}
             E == {r \in Strand : pc'[r] = "done"}
  <2>1. /\ pc[s] = "exit" /\ pc' = [pc EXCEPT ![s] = "done"] /\ finished' = finished + 1
        /\ UNCHANGED <<txn, iter, op, call, ret, result, errno, signalVars, arrived, callouts, mainVars>>
        /\ globalError' \in {globalError, globalError + 1} /\ state' = [state EXCEPT ![s] = "EXIT"]
    BY <1>1, <1>10 DEF Exit, SharedTypes
  <2>2. pc' \in [Strand -> StrandPC] /\ state' \in [Strand -> {"AT_BARRIER", "EXECUTING", "EXIT"}]
    BY <1>1, <2>1 DEF StrandTypes, StrandPC
  <2>3. E = D \cup {s} /\ s \notin D
    BY <1>1, <2>1 DEF StrandTypes
  <2>4. IsFiniteSet(D)
    <3>1. IsFiniteSet(Strand)
      BY StrandsFinite
    <3> QED BY <3>1, FS_Subset
  <2>5. Cardinality(E) = Cardinality(D) + 1
    <3> HIDE DEF D, E
    <3> QED BY <2>3, <2>4, FS_AddElement
  <2>6. finished' = Cardinality(E)
    BY <1>1, <2>1, <2>5 DEF StrandsCounted
  <2>7. StrandTypes'
    BY <1>1, <1>2, <2>1, <2>2 DEF StrandTypes
  <2>8. StrandsCounted'
    <3>1. \A r \in Strand : NtxnOf(r)' = NtxnOf(r)
      BY <1>2, SameProcess
    <3> QED BY <1>1, <2>1, <2>6, <3>1 DEF StrandsCounted
  <2>9. SharedTypes'
    BY <1>1, <1>2, <2>1 DEF SharedTypes
  <2>10. self' \in Processes /\ MainTypes' /\ LoopsInRange'
    BY <2>1, MainKept
  <2> QED BY <2>7, <2>8, <2>9, <2>10 DEF TypeInv
<1>11. CASE Return(s)
  <2>1. \E r \in {0, -1}, e \in {"none", "EINTR", "other"} : Returns(s, r, e)
    BY <1>1, <1>11 DEF Return, StrandTypes
  <2>2. pc[s] # "done" /\ UNCHANGED <<txn, iter, op, result, state, signalVars, shmVars, mainVars>>
    BY <1>11 DEF Return
  <2>3. SharedTypes'
    BY <1>2, <2>2, SharedKept
  <2>4. /\ errno' \in [Strand -> {"none", "EINTR", "other"}]
        /\ ret' \in [Strand -> {0, -1}] /\ call' \in [Strand -> Nat]
        /\ \E to \in {"after", "flowop"} : pc' = [pc EXCEPT ![s] = to]
    BY <2>1, ReturnsOK
  <2> QED BY <1>1, <2>2, <2>3, <2>4, StrandMoves DEF StrandTypes, StrandPC
<1>12. CASE Deliver(s)
  <2>1. /\ UNCHANGED <<txn, iter, op, result, state, signalled, shmVars, mainVars>>
        /\ pending' = [pending EXCEPT ![s] = FALSE]
    BY <1>12 DEF Deliver
  <2>2. SharedTypes'
    BY <1>1, <1>2, <2>1 DEF SharedTypes
  <2>3. CASE pc[s] = "blocked"
    <3>1. Returns(s, -1, "EINTR")
      BY <1>12, <2>3 DEF Deliver
    <3>2. /\ errno' \in [Strand -> {"none", "EINTR", "other"}]
          /\ ret' \in [Strand -> {0, -1}] /\ call' \in [Strand -> Nat]
          /\ \E to \in {"after", "flowop"} : pc' = [pc EXCEPT ![s] = to]
      BY <3>1, ReturnsOK
    <3> QED BY <1>1, <2>1, <2>2, <2>3, <3>2, StrandMoves DEF StrandTypes, StrandPC
  <2>4. CASE pc[s] # "blocked"
    <3>1. UNCHANGED <<pc, call, ret, errno>>
      BY <1>12, <2>4 DEF Deliver
    <3>2. StrandTypes'
      BY <1>1, <1>2, <2>1, <3>1 DEF StrandTypes
    <3>3. StrandsCounted'
      <4>1. \A r \in Strand : NtxnOf(r)' = NtxnOf(r)
        BY <1>2, SameProcess
      <4> QED BY <1>1, <2>1, <3>1, <4>1 DEF StrandsCounted
    <3>4. self' \in Processes /\ MainTypes' /\ LoopsInRange'
      BY <2>1, MainKept
    <3> QED BY <2>2, <3>2, <3>3, <3>4 DEF TypeInv
  <2> QED BY <2>3, <2>4
<1> QED BY <1>3, <1>4, <1>5, <1>6, <1>7, <1>8, <1>9, <1>10, <1>11, <1>12 DEF StrandStep

-----------------------------------------------------------------------------
(* The steps of the main thread                                             *)

\* A step of the main thread keeps the types when it keeps its own.
LEMMA MainMoves ==
  ASSUME TypeInv, UNCHANGED <<self, strandVars, shmVars, signalVars>>, MainTypes', LoopsInRange'
  PROVE  TypeInv'
<1>1. self' \in Processes /\ StrandTypes' /\ StrandsCounted'
  BY StrandsKept DEF shmVars
<1>2. SharedTypes'
  BY SharedKept DEF shmVars
<1> QED BY <1>1, <1>2 DEF TypeInv

\* The constants in the types of the main thread.
LEMMA MainRanges ==
  ASSUME TypeInv, self' = self
  PROVE  /\ NGroup \in Nat \ {0} /\ NStrand \in Nat \ {0} /\ MaxWait \in Nat
         /\ Retries \in Nat /\ MaxTxn \in Nat \ {0} /\ MaxTxn' = MaxTxn /\ Retries' = Retries
BY StrandsGroups, LongestList, SameProcess DEF TypeInv

LEMMA CalloutOK == TypeInv /\ Callout => TypeInv'
<1> SUFFICES ASSUME TypeInv, Callout PROVE TypeInv'
  OBVIOUS
<1>1. UNCHANGED <<self, strandVars, shmVars, signalVars>>
  BY DEF Callout
<1>2. /\ NGroup \in Nat \ {0} /\ NStrand \in Nat \ {0} /\ MaxWait \in Nat
      /\ Retries \in Nat /\ MaxTxn \in Nat \ {0} /\ MaxTxn' = MaxTxn /\ Retries' = Retries
  BY <1>1, MainRanges
<1>3. MainTypes'
  BY <1>2 DEF TypeInv, Callout, MainTypes, StartSignalling, MainPC, Group
<1>4. LoopsInRange'
  BY <1>2 DEF TypeInv, Callout, MainTypes, StartSignalling, LoopsInRange, AtNextBarrier, CallingOut, Signalling, All
<1> QED BY <1>1, <1>3, <1>4, MainMoves

LEMMA MarkOK == TypeInv /\ Mark => TypeInv'
<1> SUFFICES ASSUME TypeInv, Mark PROVE TypeInv'
  OBVIOUS
<1>1. UNCHANGED <<self, strandVars, shmVars, signalVars>>
  BY DEF Mark
<1>2. /\ NGroup \in Nat \ {0} /\ NStrand \in Nat \ {0} /\ MaxWait \in Nat
      /\ Retries \in Nat /\ MaxTxn \in Nat \ {0} /\ MaxTxn' = MaxTxn /\ Retries' = Retries
  BY <1>1, MainRanges
<1>3. MainTypes'
  BY <1>2 DEF TypeInv, Mark, MainTypes, MainPC
<1>4. LoopsInRange'
  BY <1>2 DEF TypeInv, Mark, MainTypes, LoopsInRange, AtNextBarrier, CallingOut, Signalling, All
<1> QED BY <1>1, <1>3, <1>4, MainMoves

LEMMA SetOK == TypeInv /\ Set => TypeInv'
<1> SUFFICES ASSUME TypeInv, Set PROVE TypeInv'
  OBVIOUS
<1>1. /\ UNCHANGED <<self, strandVars, finished, pending, arrived, callouts, globalError>>
      /\ signalled' = [signalled EXCEPT ![idx] = TRUE]
  BY DEF Set, shmVars
<1>2. /\ NGroup \in Nat \ {0} /\ NStrand \in Nat \ {0} /\ MaxWait \in Nat
      /\ Retries \in Nat /\ MaxTxn \in Nat \ {0} /\ MaxTxn' = MaxTxn /\ Retries' = Retries
  BY <1>1, MainRanges
<1>3. MainTypes'
  BY <1>2 DEF TypeInv, Set, MainTypes, MainPC, LoopsInRange
<1>4. LoopsInRange'
  BY <1>2 DEF TypeInv, Set, MainTypes, LoopsInRange, AtNextBarrier, CallingOut, Signalling, All
<1>5. SharedTypes'
  <2>1. Barrier' = Barrier
    BY <1>1, SameProcess
  <2> QED BY <1>1, <2>1 DEF TypeInv, SharedTypes
<1> QED BY <1>1, <1>3, <1>4, <1>5, StrandsKept DEF TypeInv

LEMMA SignalOK == TypeInv /\ Signal => TypeInv'
<1> SUFFICES ASSUME TypeInv, Signal PROVE TypeInv'
  OBVIOUS
<1>1. /\ UNCHANGED <<self, strandVars, finished, signalled, arrived, callouts, globalError>>
      /\ pending' \in {pending, [pending EXCEPT ![idx] = TRUE]}
      /\ noSignalled' \in {noSignalled, noSignalled + 1}
      /\ UNCHANGED <<mpc, cur, grp, scope, retries, back, failedCall, waitTime>>
      /\ mpc = "signal" /\ idx <= NStrand /\ idx' = idx + 1
  BY DEF Signal, shmVars
<1>2. /\ NGroup \in Nat \ {0} /\ NStrand \in Nat \ {0} /\ MaxWait \in Nat
      /\ Retries \in Nat /\ MaxTxn \in Nat \ {0} /\ MaxTxn' = MaxTxn /\ Retries' = Retries
  BY <1>1, MainRanges
<1>3. MainTypes'
  BY <1>1, <1>2 DEF TypeInv, MainTypes, LoopsInRange
<1>4. LoopsInRange'
  BY <1>1, <1>2 DEF TypeInv, MainTypes, LoopsInRange, AtNextBarrier, CallingOut
<1>5. SharedTypes'
  <2>1. Barrier' = Barrier
    BY <1>1, SameProcess
  <2> QED BY <1>1, <2>1 DEF TypeInv, SharedTypes
<1> QED BY <1>1, <1>3, <1>4, <1>5, StrandsKept DEF TypeInv

LEMMA AgainOK == TypeInv /\ Again => TypeInv'
<1> SUFFICES ASSUME TypeInv, Again PROVE TypeInv'
  OBVIOUS
<1>1. UNCHANGED <<self, strandVars, shmVars, signalVars>>
  BY DEF Again
<1>2. /\ NGroup \in Nat \ {0} /\ NStrand \in Nat \ {0} /\ MaxWait \in Nat
      /\ Retries \in Nat /\ MaxTxn \in Nat \ {0} /\ MaxTxn' = MaxTxn /\ Retries' = Retries
  BY <1>1, MainRanges
<1>3. MainTypes'
  BY <1>2 DEF TypeInv, Again, MainTypes, MainPC, LoopsInRange
<1>4. LoopsInRange'
  BY <1>2 DEF TypeInv, Again, MainTypes, LoopsInRange, AtNextBarrier, CallingOut, Signalling, All
<1> QED BY <1>1, <1>3, <1>4, MainMoves

LEMMA CheckCalloutOK == TypeInv /\ CheckCallout => TypeInv'
<1> SUFFICES ASSUME TypeInv, CheckCallout PROVE TypeInv'
  OBVIOUS
<1>1. /\ UNCHANGED <<self, strandVars, finished, signalVars, arrived>>
      /\ callouts' \in {callouts, [callouts EXCEPT ![grp] = "none"]}
      /\ globalError' \in {globalError, globalError + 1}
      /\ UNCHANGED <<cur, scope, idx, retries, noSignalled, back, waitTime>>
      /\ mpc = "check" /\ scope # All
      /\ \/ mpc' = back /\ grp' = grp /\ failedCall' = TRUE
         \/ mpc' = "callout" /\ grp' = grp + 1 /\ failedCall' = failedCall
  <2>1. CASE NotResponding
    BY <2>1 DEF CheckCallout
  <2>2. CASE ~NotResponding
    BY <2>2 DEF CheckCallout, CalledOut
  <2> QED BY <2>1, <2>2
<1>2. /\ NGroup \in Nat \ {0} /\ NStrand \in Nat \ {0} /\ MaxWait \in Nat
      /\ Retries \in Nat /\ MaxTxn \in Nat \ {0} /\ MaxTxn' = MaxTxn /\ Retries' = Retries
  BY <1>1, MainRanges
<1>3. MainTypes'
  <2>1. failedCall' \in BOOLEAN
    BY <1>1 DEF TypeInv, MainTypes
  <2>2. /\ mpc' \in MainPC /\ cur' \in 1 .. MaxTxn + 1 /\ grp' \in 1 .. NGroup + 1
        /\ scope' \in 0 .. NGroup /\ idx' \in 1 .. NStrand + 1 /\ retries' \in -1 .. Retries
        /\ noSignalled' \in 0 .. NStrand /\ back' \in {"poll", "drain", "barrier", "waited"}
        /\ waitTime' \in 0 .. MaxWait
    BY <1>1, <1>2 DEF TypeInv, MainTypes, MainPC, LoopsInRange, Signalling, All
  <2> QED BY <1>2, <2>1, <2>2 DEF MainTypes
<1>4. LoopsInRange'
  BY <1>1, <1>2 DEF TypeInv, MainTypes, LoopsInRange, AtNextBarrier, CallingOut, Signalling, All
<1>5. SharedTypes'
  <2>1. Barrier' = Barrier
    BY <1>1, SameProcess
  <2> QED BY <1>1, <2>1 DEF TypeInv, SharedTypes, signalVars
<1> QED BY <1>1, <1>3, <1>4, <1>5, StrandsKept DEF TypeInv

LEMMA MasterPollOK == TypeInv /\ MasterPoll => TypeInv'
<1> SUFFICES ASSUME TypeInv, MasterPoll PROVE TypeInv'
  OBVIOUS
<1>1. UNCHANGED <<self, strandVars, shmVars, signalVars>>
  BY DEF MasterPoll
<1>2. /\ NGroup \in Nat \ {0} /\ NStrand \in Nat \ {0} /\ MaxWait \in Nat
      /\ Retries \in Nat /\ MaxTxn \in Nat \ {0} /\ MaxTxn' = MaxTxn /\ Retries' = Retries
  BY <1>1, MainRanges
<1>3. MainTypes'
  <2>1. failedCall' \in BOOLEAN
    BY DEF TypeInv, MainTypes, MasterPoll, StartCallouts
  <2>2. /\ mpc' \in MainPC /\ cur' \in 1 .. MaxTxn + 1 /\ grp' \in 1 .. NGroup + 1
        /\ scope' \in 0 .. NGroup /\ idx' \in 1 .. NStrand + 1 /\ retries' \in -1 .. Retries
        /\ noSignalled' \in 0 .. NStrand /\ back' \in {"poll", "drain", "barrier", "waited"}
        /\ waitTime' \in 0 .. MaxWait
    BY <1>2 DEF TypeInv, MasterPoll, MainTypes, MainPC, LoopsInRange, AtNextBarrier, CallingOut, Signalling, All, StartCallouts
  <2> QED BY <1>2, <2>1, <2>2 DEF MainTypes
<1>4. LoopsInRange'
  BY <1>2 DEF TypeInv, MasterPoll, MainTypes, LoopsInRange, AtNextBarrier, CallingOut, Signalling, All, StartCallouts
<1> QED BY <1>1, <1>3, <1>4, MainMoves

LEMMA MasterBarrierOK == TypeInv /\ MasterBarrier => TypeInv'
<1> SUFFICES ASSUME TypeInv, MasterBarrier PROVE TypeInv'
  OBVIOUS
<1>1. UNCHANGED <<self, strandVars, shmVars, signalVars>>
  BY DEF MasterBarrier
<1>2. /\ NGroup \in Nat \ {0} /\ NStrand \in Nat \ {0} /\ MaxWait \in Nat
      /\ Retries \in Nat /\ MaxTxn \in Nat \ {0} /\ MaxTxn' = MaxTxn /\ Retries' = Retries
  BY <1>1, MainRanges
<1>3. MainTypes'
  BY <1>2 DEF TypeInv, MasterBarrier, MainTypes, MainPC, LoopsInRange, AtNextBarrier, CallingOut, Signalling, All, callVars
<1>4. LoopsInRange'
  BY <1>2 DEF TypeInv, MasterBarrier, MainTypes, LoopsInRange, AtNextBarrier, CallingOut, Signalling, All, callVars
<1> QED BY <1>1, <1>3, <1>4, MainMoves

LEMMA MasterDrainOK == TypeInv /\ MasterDrain => TypeInv'
<1> SUFFICES ASSUME TypeInv, MasterDrain PROVE TypeInv'
  OBVIOUS
<1>1. UNCHANGED <<self, strandVars, shmVars, signalVars>>
  BY DEF MasterDrain
<1>2. /\ NGroup \in Nat \ {0} /\ NStrand \in Nat \ {0} /\ MaxWait \in Nat
      /\ Retries \in Nat /\ MaxTxn \in Nat \ {0} /\ MaxTxn' = MaxTxn /\ Retries' = Retries
  BY <1>1, MainRanges
<1>3. MainTypes'
  <2>1. failedCall' \in BOOLEAN
    BY DEF TypeInv, MainTypes, MasterDrain, StartCallouts
  <2>2. /\ mpc' \in MainPC /\ cur' \in 1 .. MaxTxn + 1 /\ grp' \in 1 .. NGroup + 1
        /\ scope' \in 0 .. NGroup /\ idx' \in 1 .. NStrand + 1 /\ retries' \in -1 .. Retries
        /\ noSignalled' \in 0 .. NStrand /\ back' \in {"poll", "drain", "barrier", "waited"}
        /\ waitTime' \in 0 .. MaxWait
    BY <1>2 DEF TypeInv, MasterDrain, MainTypes, MainPC, LoopsInRange, AtNextBarrier, CallingOut, Signalling, All, StartCallouts
  <2> QED BY <1>2, <2>1, <2>2 DEF MainTypes
<1>4. LoopsInRange'
  BY <1>2 DEF TypeInv, MasterDrain, MainTypes, LoopsInRange, AtNextBarrier, CallingOut, Signalling, All, StartCallouts
<1> QED BY <1>1, <1>3, <1>4, MainMoves

LEMMA SlaveAbortsOK == TypeInv /\ SlaveAborts => TypeInv'
<1> SUFFICES ASSUME TypeInv, SlaveAborts PROVE TypeInv'
  OBVIOUS
<1>1. UNCHANGED <<self, strandVars, shmVars, signalVars>>
  BY DEF SlaveAborts
<1>2. /\ NGroup \in Nat \ {0} /\ NStrand \in Nat \ {0} /\ MaxWait \in Nat
      /\ Retries \in Nat /\ MaxTxn \in Nat \ {0} /\ MaxTxn' = MaxTxn /\ Retries' = Retries
  BY <1>1, MainRanges
<1>3. MainTypes'
  BY <1>2 DEF TypeInv, SlaveAborts, MainTypes, MainPC, LoopsInRange, AtNextBarrier, CallingOut, Signalling, All, callVars
<1>4. LoopsInRange'
  BY <1>2 DEF TypeInv, SlaveAborts, MainTypes, LoopsInRange, AtNextBarrier, CallingOut, Signalling, All, callVars
<1> QED BY <1>1, <1>3, <1>4, MainMoves

LEMMA SlaveCommandOK == TypeInv /\ SlaveCommand => TypeInv'
<1> SUFFICES ASSUME TypeInv, SlaveCommand PROVE TypeInv'
  OBVIOUS
<1>1. UNCHANGED <<self, strandVars, shmVars, signalVars>>
  BY DEF SlaveCommand
<1>2. /\ NGroup \in Nat \ {0} /\ NStrand \in Nat \ {0} /\ MaxWait \in Nat
      /\ Retries \in Nat /\ MaxTxn \in Nat \ {0} /\ MaxTxn' = MaxTxn /\ Retries' = Retries
  BY <1>1, MainRanges
<1>3. MainTypes'
  BY <1>2 DEF TypeInv, SlaveCommand, MainTypes, MainPC, LoopsInRange, AtNextBarrier, CallingOut, Signalling, All, callVars
<1>4. LoopsInRange'
  BY <1>2 DEF TypeInv, SlaveCommand, MainTypes, LoopsInRange, AtNextBarrier, CallingOut, Signalling, All, callVars
<1> QED BY <1>1, <1>3, <1>4, MainMoves

LEMMA SlaveIdleOK == TypeInv /\ SlaveIdle => TypeInv'
<1> SUFFICES ASSUME TypeInv, SlaveIdle PROVE TypeInv'
  OBVIOUS
<1>1. UNCHANGED <<self, strandVars, shmVars, signalVars>>
  BY DEF SlaveIdle
<1>2. /\ NGroup \in Nat \ {0} /\ NStrand \in Nat \ {0} /\ MaxWait \in Nat
      /\ Retries \in Nat /\ MaxTxn \in Nat \ {0} /\ MaxTxn' = MaxTxn /\ Retries' = Retries
  BY <1>1, MainRanges
<1>3. MainTypes'
  <2>1. failedCall' \in BOOLEAN
    BY DEF TypeInv, MainTypes, SlaveIdle, StartCallouts
  <2>2. /\ mpc' \in MainPC /\ cur' \in 1 .. MaxTxn + 1 /\ grp' \in 1 .. NGroup + 1
        /\ scope' \in 0 .. NGroup /\ idx' \in 1 .. NStrand + 1 /\ retries' \in -1 .. Retries
        /\ noSignalled' \in 0 .. NStrand /\ back' \in {"poll", "drain", "barrier", "waited"}
        /\ waitTime' \in 0 .. MaxWait
    BY <1>2 DEF TypeInv, SlaveIdle, MainTypes, MainPC, LoopsInRange, AtNextBarrier, CallingOut, Signalling, All, StartCallouts
  <2> QED BY <1>2, <2>1, <2>2 DEF MainTypes
<1>4. LoopsInRange'
  BY <1>2 DEF TypeInv, SlaveIdle, MainTypes, LoopsInRange, AtNextBarrier, CallingOut, Signalling, All, StartCallouts
<1> QED BY <1>1, <1>3, <1>4, MainMoves

LEMMA SlaveUnlockOK == TypeInv /\ SlaveUnlock => TypeInv'
<1> SUFFICES ASSUME TypeInv, SlaveUnlock PROVE TypeInv'
  OBVIOUS
<1>1. UNCHANGED <<self, strandVars, shmVars, signalVars>>
  BY DEF SlaveUnlock
<1>2. /\ NGroup \in Nat \ {0} /\ NStrand \in Nat \ {0} /\ MaxWait \in Nat
      /\ Retries \in Nat /\ MaxTxn \in Nat \ {0} /\ MaxTxn' = MaxTxn /\ Retries' = Retries
  BY <1>1, MainRanges
<1>3. MainTypes'
  <2>1. failedCall' \in BOOLEAN
    BY DEF TypeInv, MainTypes, SlaveUnlock, StartCallouts
  <2>2. /\ mpc' \in MainPC /\ cur' \in 1 .. MaxTxn + 1 /\ grp' \in 1 .. NGroup + 1
        /\ scope' \in 0 .. NGroup /\ idx' \in 1 .. NStrand + 1 /\ retries' \in -1 .. Retries
        /\ noSignalled' \in 0 .. NStrand /\ back' \in {"poll", "drain", "barrier", "waited"}
        /\ waitTime' \in 0 .. MaxWait
    BY <1>2 DEF TypeInv, SlaveUnlock, MainTypes, MainPC, LoopsInRange, AtNextBarrier, CallingOut, Signalling, All, StartCallouts, StartSignalling
  <2> QED BY <1>2, <2>1, <2>2 DEF MainTypes
<1>4. LoopsInRange'
  BY <1>2 DEF TypeInv, SlaveUnlock, MainTypes, LoopsInRange, AtNextBarrier, CallingOut, Signalling, All, StartCallouts, StartSignalling
<1> QED BY <1>1, <1>3, <1>4, MainMoves

LEMMA SlaveSignalledOK == TypeInv /\ SlaveSignalled => TypeInv'
<1> SUFFICES ASSUME TypeInv, SlaveSignalled PROVE TypeInv'
  OBVIOUS
<1>1. UNCHANGED <<self, strandVars, shmVars, signalVars>>
  BY DEF SlaveSignalled
<1>2. /\ NGroup \in Nat \ {0} /\ NStrand \in Nat \ {0} /\ MaxWait \in Nat
      /\ Retries \in Nat /\ MaxTxn \in Nat \ {0} /\ MaxTxn' = MaxTxn /\ Retries' = Retries
  BY <1>1, MainRanges
<1>3. MainTypes'
  <2>1. failedCall' \in BOOLEAN
    BY DEF TypeInv, MainTypes, SlaveSignalled, StartCallouts
  <2>2. /\ mpc' \in MainPC /\ cur' \in 1 .. MaxTxn + 1 /\ grp' \in 1 .. NGroup + 1
        /\ scope' \in 0 .. NGroup /\ idx' \in 1 .. NStrand + 1 /\ retries' \in -1 .. Retries
        /\ noSignalled' \in 0 .. NStrand /\ back' \in {"poll", "drain", "barrier", "waited"}
        /\ waitTime' \in 0 .. MaxWait
    BY <1>2 DEF TypeInv, SlaveSignalled, MainTypes, MainPC, LoopsInRange, AtNextBarrier, CallingOut, Signalling, All, StartCallouts
  <2> QED BY <1>2, <2>1, <2>2 DEF MainTypes
<1>4. LoopsInRange'
  BY <1>2 DEF TypeInv, SlaveSignalled, MainTypes, LoopsInRange, AtNextBarrier, CallingOut, Signalling, All, StartCallouts
<1> QED BY <1>1, <1>3, <1>4, MainMoves

LEMMA SlaveWaitedOK == TypeInv /\ SlaveWaited => TypeInv'
<1> SUFFICES ASSUME TypeInv, SlaveWaited PROVE TypeInv'
  OBVIOUS
<1>1. UNCHANGED <<self, strandVars, shmVars, signalVars>>
  BY DEF SlaveWaited
<1>2. /\ NGroup \in Nat \ {0} /\ NStrand \in Nat \ {0} /\ MaxWait \in Nat
      /\ Retries \in Nat /\ MaxTxn \in Nat \ {0} /\ MaxTxn' = MaxTxn /\ Retries' = Retries
  BY <1>1, MainRanges
<1>3. MainTypes'
  BY <1>2 DEF TypeInv, SlaveWaited, MainTypes, MainPC, LoopsInRange, AtNextBarrier, CallingOut, Signalling, All, callVars
<1>4. LoopsInRange'
  BY <1>2 DEF TypeInv, SlaveWaited, MainTypes, LoopsInRange, AtNextBarrier, CallingOut, Signalling, All, callVars
<1> QED BY <1>1, <1>3, <1>4, MainMoves

LEMMA JoinOK == TypeInv /\ Join => TypeInv'
<1> SUFFICES ASSUME TypeInv, Join PROVE TypeInv'
  OBVIOUS
<1>1. UNCHANGED <<self, strandVars, shmVars, signalVars>>
  BY DEF Join
<1>2. /\ NGroup \in Nat \ {0} /\ NStrand \in Nat \ {0} /\ MaxWait \in Nat
      /\ Retries \in Nat /\ MaxTxn \in Nat \ {0} /\ MaxTxn' = MaxTxn /\ Retries' = Retries
  BY <1>1, MainRanges
<1>3. MainTypes'
  BY <1>2 DEF TypeInv, Join, MainTypes, MainPC, LoopsInRange, AtNextBarrier, CallingOut, Signalling, All, callVars
<1>4. LoopsInRange'
  BY <1>2 DEF TypeInv, Join, MainTypes, LoopsInRange, AtNextBarrier, CallingOut, Signalling, All, callVars
<1> QED BY <1>1, <1>3, <1>4, MainMoves

LEMMA MainStepOK == TypeInv /\ MainStep => TypeInv'
BY CalloutOK, MarkOK, SetOK, SignalOK, AgainOK, CheckCalloutOK, MasterPollOK, MasterBarrierOK, MasterDrainOK,
   SlaveAbortsOK, SlaveCommandOK, SlaveIdleOK, SlaveUnlockOK, SlaveSignalledOK, SlaveWaitedOK, JoinOK
   DEF MainStep, CalloutStep

LEMMA DueOK == \A g \in Group : TypeInv /\ Due(g) => TypeInv'
<1> SUFFICES ASSUME NEW g \in Group, TypeInv, Due(g) PROVE TypeInv'
  OBVIOUS
<1>1. /\ UNCHANGED <<self, strandVars, finished, signalVars, arrived, globalError, mainVars>>
      /\ callouts' = [callouts EXCEPT ![g] = "due"]
  BY DEF Due, mainVars
<1>2. SharedTypes'
  <2>1. Barrier' = Barrier
    BY <1>1, SameProcess
  <2> QED BY <1>1, <2>1 DEF TypeInv, SharedTypes, signalVars
<1> QED BY <1>1, <1>2, StrandsKept, MainKept DEF TypeInv

-----------------------------------------------------------------------------
(* The theorem about types                                                  *)

LEMMA InitOK == Init => TypeInv
<1> SUFFICES ASSUME Init PROVE TypeInv
  OBVIOUS
<1>1. self \in Processes
  BY DEF Init
<1>2. /\ NGroup \in Nat \ {0} /\ NStrand \in Nat \ {0} /\ MaxWait \in Nat
      /\ \A s \in Strand : NtxnOf(s) \in Nat \ {0}
  BY <1>1, StrandsGroups
<1>3. Retries \in Nat /\ MaxTxn \in Nat \ {0}
  BY <1>1, LongestList
<1>4. StrandTypes
  <2>1. 1 \in Barrier
    BY <1>3 DEF Barrier
  <2> QED BY <2>1 DEF Init, StrandTypes, StrandPC
<1>5. SharedTypes
  BY DEF Init, SharedTypes
<1>6. StrandsCounted
  <2>1. {s \in Strand : pc[s] = "done"} = {}
    BY DEF Init
  <2>2. finished = Cardinality({s \in Strand : pc[s] = "done"})
    BY <2>1, FS_EmptySet DEF Init
  <2> QED BY <1>2, <2>2 DEF Init, StrandsCounted
<1>7. MainTypes
  <2>1. failedCall \in BOOLEAN
    BY DEF Init
  <2>2. /\ mpc = "poll" /\ cur = 1 /\ grp = 1 /\ scope = 0 /\ idx = 1 /\ retries = Retries
        /\ noSignalled = 0 /\ back = "poll" /\ waitTime = MaxWait
    BY DEF Init, All
  <2> QED BY <1>2, <1>3, <2>1, <2>2 DEF MainTypes, MainPC
<1>8. LoopsInRange
  BY <1>2, <1>3 DEF Init, LoopsInRange, AtNextBarrier, CallingOut, Signalling, All
<1> QED BY <1>1, <1>4, <1>5, <1>6, <1>7, <1>8 DEF TypeInv

LEMMA StepOK == TypeInv /\ [Next]_vars => TypeInv'
<1> SUFFICES ASSUME TypeInv, [Next]_vars PROVE TypeInv'
  OBVIOUS
<1>1. CASE \E s \in Strand : StrandStep(s) \/ Return(s) \/ Deliver(s)
  BY <1>1, StrandStepOK
<1>2. CASE MainStep
  BY <1>2, MainStepOK
<1>3. CASE \E g \in Group : Due(g)
  BY <1>3, DueOK
<1>4. CASE UNCHANGED vars
  <2>1. UNCHANGED <<self, strandVars, shmVars, signalVars, mainVars>>
    BY <1>4 DEF vars, mainVars
  <2>2. MainTypes' /\ LoopsInRange'
    BY <2>1, MainKept
  <2> QED BY <2>1, <2>2, MainMoves
<1> QED BY <1>1, <1>2, <1>3, <1>4 DEF Next, Terminated

LEMMA TypesAreRight == TypeInv => TypeOK
<1> SUFFICES ASSUME TypeInv PROVE TypeOK
  OBVIOUS
<1>1. self \in Processes
  BY DEF TypeInv
<1>2. finished \in 0 .. NStrand
  <2>1. IsFiniteSet(Strand) /\ Cardinality(Strand) = NStrand
    <3>1. NStrand \in Nat
      BY <1>1, StrandsGroups
    <3>2. 1 .. NStrand = Strand
      BY DEF Strand
    <3>3. IsFiniteSet(1 .. NStrand) /\ Cardinality(1 .. NStrand) = NStrand
      <4>1. Cardinality(1 .. NStrand) = IF 1 > NStrand THEN 0 ELSE NStrand - 1 + 1
        BY <3>1, FS_Interval
      <4>2. IsFiniteSet(1 .. NStrand)
        BY <3>1, FS_Interval
      <4> QED BY <3>1, <4>1, <4>2
    <3> QED BY <3>2, <3>3
  <2> DEFINE D == {s \in Strand : pc[s] = "done"}
  <2>2. IsFiniteSet(D) /\ Cardinality(D) <= Cardinality(Strand) /\ D \subseteq Strand
    BY <2>1, FS_Subset
  <2>3. Cardinality(D) \in Nat
    BY <2>2, FS_CardinalityType
  <2>4. finished = Cardinality(D)
    BY DEF TypeInv, StrandsCounted
  <2>5. NStrand \in Nat
    BY <1>1, StrandsGroups
  <2> HIDE DEF D
  <2> QED BY <2>1, <2>2, <2>3, <2>4, <2>5
<1> QED BY <1>1, <1>2 DEF TypeInv, StrandTypes, SharedTypes, MainTypes, TypeOK

\* Every variable keeps its type, whatever the process, and no loop of the main thread
\* leaves its range: it never waits at a barrier after the last (cur of master_poll and
\* slave_master_poll), and never counts more strands than there are (finished, no_signalled).
THEOREM DurationTypes == Spec => []TypeOK
<1>1. Spec => []TypeInv
  BY InitOK, StepOK, PTL DEF Spec
<1> QED BY <1>1, TypesAreRight, PTL

-----------------------------------------------------------------------------
(* What a step does to the strands                                          *)

\* A strand that a step leaves alone.
Same(r) ==
  /\ pc'[r] = pc[r] /\ txn'[r] = txn[r] /\ errno'[r] = errno[r] /\ result'[r] = result[r]
  /\ state'[r] = state[r] /\ signalled'[r] = signalled[r] /\ pending'[r] = pending[r]

\* A step of strand s that changes no more of it than its pc and what is named.
Keeps(s) == txn'[s] = txn[s] /\ signalled'[s] = signalled[s] /\ pending'[s] = pending[s]

LEMMA OthersSame ==
  ASSUME TypeInv, NEW s \in Strand, StrandStep(s) \/ Return(s) \/ Deliver(s)
  PROVE  UNCHANGED mainVars /\ \A r \in Strand \ {s} : Same(r)
<1> USE DEF Same, TypeInv, StrandTypes, SharedTypes, work, signalVars, Runs, Goto
<1>1. CASE Arrive(s)
  BY <1>1 DEF Arrive
<1>2. CASE Pass(s)
  BY <1>2 DEF Pass
<1>3. CASE Begin(s)
  BY <1>3 DEF Begin
<1>4. CASE Flowop(s)
  BY <1>4 DEF Flowop, EndTxn
<1>5. CASE EnterCall(s)
  BY <1>5 DEF EnterCall
<1>6. CASE After(s)
  BY <1>6 DEF After, EndTxn, NextFlowop, NextIteration
<1>7. CASE Clear(s)
  BY <1>7 DEF Clear, ClearSignal
<1>8. CASE Exit(s)
  BY <1>8 DEF Exit
<1>9. ASSUME NEW r, NEW e, Returns(s, r, e)
      PROVE  \A q \in Strand \ {s} : pc'[q] = pc[q] /\ errno'[q] = errno[q]
  <2>1. errno' = [errno EXCEPT ![s] = e] /\ \E to : pc' = [pc EXCEPT ![s] = to]
    BY <1>9 DEF Returns
  <2> QED BY <2>1
<1>10. CASE Return(s)
  BY <1>9, <1>10 DEF Return
<1>11. CASE Deliver(s)
  BY <1>9, <1>11 DEF Deliver
<1> QED BY <1>1, <1>2, <1>3, <1>4, <1>5, <1>6, <1>7, <1>8, <1>10, <1>11 DEF StrandStep

LEMMA ArriveDoes ==
  ASSUME TypeInv, NEW s \in Strand, Arrive(s)
  PROVE  /\ pc[s] = "arrive" /\ pc'[s] = "wait" /\ state'[s] = "AT_BARRIER" /\ Keeps(s)
         /\ errno'[s] = errno[s] /\ result'[s] = result[s]
         /\ arrived' = [arrived EXCEPT ![txn[s]] = @ + 1] /\ UNCHANGED <<callouts, globalError>>
BY DEF Arrive, Keeps, TypeInv, StrandTypes, work, signalVars, Runs, Goto

LEMMA PassDoes ==
  ASSUME TypeInv, NEW s \in Strand, Pass(s)
  PROVE  /\ pc[s] = "wait" /\ Open(txn[s]) /\ Keeps(s) /\ errno'[s] = errno[s] /\ result'[s] = result[s]
         /\ \/ globalError > 1 /\ pc'[s] = "exit"
            \/ globalError <= 1 /\ pc'[s] = "begin"
         /\ UNCHANGED <<arrived, callouts, globalError>>
BY DEF Pass, Keeps, TypeInv, StrandTypes, SharedTypes, work, signalVars, shmVars, Runs, Goto

LEMMA FlowopDoes ==
  ASSUME TypeInv, NEW s \in Strand, Flowop(s)
  PROVE  /\ pc[s] = "flowop" /\ Keeps(s) /\ errno'[s] = errno[s]
         /\ \/ signalled[s] /\ pc'[s] = "clear" /\ result'[s] = "expired"
            \/ ~signalled[s] /\ pc'[s] = "call" /\ result'[s] = result[s]
         /\ UNCHANGED <<arrived, callouts, globalError>>
BY DEF Flowop, EndTxn, Keeps, TypeInv, StrandTypes, signalVars, shmVars, Runs, Goto

LEMMA EnterCallDoes ==
  ASSUME TypeInv, NEW s \in Strand, EnterCall(s)
  PROVE  /\ pc[s] = "call" /\ pc'[s] = "blocked" /\ Keeps(s) /\ errno'[s] = errno[s] /\ result'[s] = result[s]
         /\ UNCHANGED <<arrived, callouts, globalError>>
BY DEF EnterCall, Keeps, TypeInv, StrandTypes, work, signalVars, shmVars, Runs, Goto

LEMMA AfterDoes ==
  ASSUME TypeInv, NEW s \in Strand, After(s)
  PROVE  /\ pc[s] = "after" /\ Keeps(s) /\ errno'[s] = errno[s]
         /\ \/ Expired(s) /\ pc'[s] = "clear" /\ result'[s] = "expired"
            \/ pc'[s] = "clear" /\ result'[s] = "failure"
            \/ pc'[s] = "flowop" /\ result'[s] = result[s]
            \/ /\ pc'[s] = "clear" /\ result'[s] = "success" /\ ~Txn(s).duration
               /\ iter'[s] = Txn(s).iter
         /\ UNCHANGED <<arrived, callouts, globalError>>
<1> USE DEF TypeInv, StrandTypes
<1>1. /\ pc[s] = "after" /\ Keeps(s) /\ errno'[s] = errno[s] /\ UNCHANGED <<arrived, callouts, globalError>>
  BY DEF After, Keeps, signalVars, shmVars, Runs
<1>2. CASE Expired(s) /\ EndTxn(s, "expired")
  BY <1>1, <1>2 DEF EndTxn, Goto
<1>3. CASE EndTxn(s, "failure")
  BY <1>1, <1>3 DEF EndTxn, Goto
<1>4. CASE NextFlowop(s)
  BY <1>1, <1>4 DEF NextFlowop, Goto
<1>5. CASE NextIteration(s)
  <2>1. CASE Txn(s).duration \/ ~LastIteration(s)
    BY <1>1, <1>5, <2>1 DEF NextIteration, Goto
  <2>2. CASE ~Txn(s).duration /\ LastIteration(s)
    <3>1. /\ iter' = [iter EXCEPT ![s] = iter[s] + 1]
          /\ result' = [result EXCEPT ![s] = "success"]
          /\ pc' = [pc EXCEPT ![s] = "clear"]
      BY <1>5, <2>2 DEF NextIteration, EndTxn, Goto
    <3>2. iter'[s] = iter[s] + 1 /\ iter[s] + 1 = Txn(s).iter
      BY <2>2, <3>1 DEF LastIteration
    <3> QED BY <1>1, <2>2, <3>1, <3>2
  <2> QED BY <2>1, <2>2
<1> QED BY <1>2, <1>3, <1>4, <1>5 DEF After

LEMMA ClearDoes ==
  ASSUME TypeInv, NEW s \in Strand, Clear(s)
  PROVE  /\ pc[s] = "clear" /\ signalled'[s] = FALSE /\ pending'[s] = pending[s]
         /\ errno'[s] = errno[s] /\ result'[s] = result[s]
         /\ \/ result[s] # "failure" /\ txn[s] < NtxnOf(s) /\ txn'[s] = txn[s] + 1 /\ pc'[s] = "arrive"
            \/ txn'[s] = txn[s] /\ pc'[s] = "exit"
         /\ UNCHANGED <<arrived, callouts, globalError>>
BY DEF Clear, ClearSignal, MoreTxns, TypeInv, StrandTypes, SharedTypes, work, shmVars, Runs, Goto

LEMMA ExitDoes ==
  ASSUME TypeInv, NEW s \in Strand, Exit(s)
  PROVE  /\ pc[s] = "exit" /\ pc'[s] = "done" /\ Keeps(s) /\ errno'[s] = errno[s] /\ result'[s] = result[s]
         /\ globalError' = globalError + (IF result[s] = "failure" THEN 1 ELSE 0)
         /\ UNCHANGED <<arrived, callouts>>
BY DEF Exit, Keeps, TypeInv, StrandTypes, work, signalVars, Runs, Goto

LEMMA ReturnsDoes ==
  ASSUME TypeInv, NEW s \in Strand, NEW r, NEW e, Returns(s, r, e)
  PROVE  errno'[s] = e /\ pc'[s] \in {"after", "flowop"}
<1> DEFINE failing == r < 0 /\ ~FlowopOf(s).canfail
           last == call[s] + 1 = FlowopOf(s).count
<1>1. errno' = [errno EXCEPT ![s] = e] /\ Goto(s, IF failing \/ last THEN "after" ELSE "flowop")
  BY DEF Returns
<1> HIDE DEF failing, last
<1>2. s \in DOMAIN pc /\ s \in DOMAIN errno
  BY DEF TypeInv, StrandTypes
<1>3. CASE failing \/ last
  BY <1>1, <1>2, <1>3 DEF Goto
<1>4. CASE ~(failing \/ last)
  BY <1>1, <1>2, <1>4 DEF Goto
<1> QED BY <1>3, <1>4

LEMMA ReturnDoes ==
  ASSUME TypeInv, NEW s \in Strand, Return(s)
  PROVE  /\ pc[s] = "blocked" /\ pc'[s] \in {"after", "flowop"} /\ Keeps(s) /\ result'[s] = result[s]
         /\ errno'[s] = "EINTR" => errno[s] = "EINTR" \/ "hangup" \in Outcomes
         /\ UNCHANGED <<arrived, callouts, globalError>>
<1>1. pc[s] = "blocked" /\ Keeps(s) /\ result'[s] = result[s] /\ UNCHANGED <<arrived, callouts, globalError>>
  BY DEF Return, Keeps, signalVars, shmVars, Runs
<1>2. CASE Returns(s, 0, errno[s])
  BY <1>1, <1>2, ReturnsDoes
<1>3. CASE "hangup" \in Outcomes /\ Returns(s, -1, "EINTR")
  BY <1>1, <1>3, ReturnsDoes
<1>4. CASE "error" \in Outcomes /\ Returns(s, -1, "other")
  BY <1>1, <1>4, ReturnsDoes
<1> QED BY <1>2, <1>3, <1>4 DEF Return

LEMMA DeliverDoes ==
  ASSUME TypeInv, NEW s \in Strand, Deliver(s)
  PROVE  /\ pending[s] /\ pending'[s] = FALSE /\ txn'[s] = txn[s] /\ signalled'[s] = signalled[s]
         /\ result'[s] = result[s] /\ state'[s] = state[s]
         /\ \/ pc[s] = "blocked" /\ pc'[s] \in {"after", "flowop"}
            \/ pc[s] # "blocked" /\ pc'[s] = pc[s] /\ errno'[s] = errno[s]
         /\ UNCHANGED <<arrived, callouts, globalError>>
<1>1. /\ pending[s] /\ pending'[s] = FALSE /\ txn'[s] = txn[s] /\ signalled'[s] = signalled[s]
      /\ result'[s] = result[s] /\ state'[s] = state[s] /\ UNCHANGED <<arrived, callouts, globalError>>
  BY DEF Deliver, shmVars, TypeInv, SharedTypes
<1>2. CASE pc[s] = "blocked"
  BY <1>1, <1>2, ReturnsDoes DEF Deliver
<1>3. CASE pc[s] # "blocked"
  BY <1>1, <1>3 DEF Deliver
<1> QED BY <1>2, <1>3

\* What every step of a strand but that from one transaction to the next has in common.
LEMMA OtherwiseStays ==
  ASSUME TypeInv, NEW s \in Strand, StrandStep(s) \/ Return(s) \/ Deliver(s), ~Clear(s)
  PROVE  /\ txn'[s] = txn[s] /\ signalled'[s] = signalled[s]
         /\ pc'[s] \in {"arrive", "wait"} => pc[s] \in {"arrive", "wait"}
         /\ pc'[s] \in {"exit", "done"} => pc[s] \in {"wait", "exit", "done"} /\ result'[s] = result[s]
<1> DEFINE Stays == /\ txn'[s] = txn[s] /\ signalled'[s] = signalled[s]
                    /\ pc'[s] \in {"arrive", "wait"} => pc[s] \in {"arrive", "wait"}
                    /\ pc'[s] \in {"exit", "done"} => pc[s] \in {"wait", "exit", "done"} /\ result'[s] = result[s]
<1> SUFFICES Stays
  OBVIOUS
<1> USE DEF Keeps
<1>1. CASE Arrive(s)
  BY <1>1, ArriveDoes
<1>2. CASE Pass(s)
  BY <1>2, PassDoes
<1>3. CASE Begin(s)
  <2>1. pc'[s] = "flowop" /\ Keeps(s)
    BY <1>3 DEF Begin, signalVars, Runs, Goto, TypeInv, StrandTypes
  <2> QED BY <2>1
<1>4. CASE Flowop(s)
  BY <1>4, FlowopDoes
<1>5. CASE EnterCall(s)
  BY <1>5, EnterCallDoes
<1>6. CASE After(s)
  BY <1>6, AfterDoes
<1>7. CASE Exit(s)
  BY <1>7, ExitDoes
<1>8. CASE Return(s)
  BY <1>8, ReturnDoes
<1>9. CASE Deliver(s)
  <2>1. /\ txn'[s] = txn[s] /\ signalled'[s] = signalled[s] /\ result'[s] = result[s]
        /\ pc'[s] \in {"after", "flowop"} \/ pc'[s] = pc[s]
    BY <1>9, DeliverDoes
  <2> QED BY <2>1
<1> HIDE DEF Stays, Keeps
<1> QED BY <1>1, <1>2, <1>3, <1>4, <1>5, <1>6, <1>7, <1>8, <1>9 DEF StrandStep

-----------------------------------------------------------------------------
(* Barriers                                                                 *)

HasArrived(s, m) == txn[s] > m \/ (txn[s] = m /\ pc[s] # "arrive")

\* A strand at the barrier of transaction m, or beyond it, that needed it open.
HasPassed(s, m) == txn[s] > m \/ (txn[s] = m /\ pc[s] \notin {"arrive", "wait"})

\* A barrier counts the strands that have come to it, ...
CountIsExact == \A m \in Barrier : arrived[m] = Cardinality({s \in Strand : HasArrived(s, m)})

\* ... so it opens when all that ever come to it are there, ...
OpenedByAll == \A m \in Barrier, s \in Strand : Open(m) /\ m <= NtxnOf(s) => HasArrived(s, m)

\* ... and no strand passes one that is not open.
PassedOpen == \A m \in Barrier, s \in Strand : HasPassed(s, m) => Open(m)

\* What signal_all_strands reads of a strand that waits.
WaitIsVisible == \A s \in Strand : pc[s] = "wait" => AtBarrier(s)

Barriers == CountIsExact /\ OpenedByAll /\ PassedOpen /\ WaitIsVisible

\* A strand takes the barriers in order, and arrives at them in Arrive only.
LEMMA Passage ==
  ASSUME TypeInv, NEW s \in Strand, StrandStep(s) \/ Return(s) \/ Deliver(s)
  PROVE  \/ Arrive(s)
         \/ /\ arrived' = arrived
            /\ pc[s] # "arrive"
            /\ \/ txn'[s] = txn[s] /\ pc'[s] # "arrive"
               \/ pc[s] = "clear" /\ txn'[s] = txn[s] + 1 /\ pc'[s] = "arrive"
            /\ \/ pc[s] = "wait" /\ Open(txn[s]) /\ pc'[s] # "wait"
               \/ pc[s] = "wait" /\ pc'[s] = "wait" /\ state'[s] = state[s]
               \/ pc[s] # "wait" /\ pc'[s] # "wait"
         \/ /\ arrived' = arrived
            /\ Same(s) \/ (pc[s] = "arrive" /\ pc'[s] = "arrive" /\ txn'[s] = txn[s])
<1>1. CASE Pass(s)
  BY <1>1, PassDoes DEF Keeps
<1>2. CASE Begin(s)
  BY <1>2 DEF Begin, Runs, Goto, TypeInv, StrandTypes
<1>3. CASE Flowop(s)
  BY <1>3, FlowopDoes DEF Keeps
<1>4. CASE EnterCall(s)
  BY <1>4, EnterCallDoes DEF Keeps
<1>5. CASE After(s)
  BY <1>5, AfterDoes DEF Keeps
<1>6. CASE Clear(s)
  BY <1>6, ClearDoes
<1>7. CASE Exit(s)
  BY <1>7, ExitDoes DEF Keeps
<1>8. CASE Return(s)
  BY <1>8, ReturnDoes DEF Keeps
<1>9. CASE Deliver(s)
  BY <1>9, DeliverDoes
<1> QED BY <1>1, <1>2, <1>3, <1>4, <1>5, <1>6, <1>7, <1>8, <1>9 DEF StrandStep

\* A step in which no strand comes to a barrier, or leaves one.
LEMMA ArrivalsKept ==
  ASSUME TypeInv, Barriers, self' = self, UNCHANGED <<arrived, cur>>,
         \A r \in Strand, m \in Barrier : HasArrived(r, m)' <=> HasArrived(r, m),
         \A r \in Strand, m \in Barrier : HasPassed(r, m)' => HasPassed(r, m) \/ Open(m),
         \A r \in Strand : pc'[r] = "wait" => AtBarrier(r)'
  PROVE  Barriers'
<1>1. Barrier' = Barrier /\ \A r \in Strand : NtxnOf(r)' = NtxnOf(r)
  BY SameProcess
<1>2. CountIsExact'
  <2> SUFFICES ASSUME NEW m \in Barrier PROVE arrived'[m] = Cardinality({r \in Strand : HasArrived(r, m)'})
    BY <1>1 DEF CountIsExact
  <2>1. {r \in Strand : HasArrived(r, m)'} = {r \in Strand : HasArrived(r, m)}
    OBVIOUS
  <2> QED BY <2>1 DEF Barriers, CountIsExact
<1>3. OpenedByAll' /\ PassedOpen' /\ WaitIsVisible'
  BY <1>1 DEF Barriers, OpenedByAll, PassedOpen, WaitIsVisible, Open
<1> QED BY <1>2, <1>3 DEF Barriers

LEMMA ArriveBarriers ==
  ASSUME TypeInv, Barriers, NEW s \in Strand, Arrive(s)
  PROVE  Barriers'
<1>1. /\ pc[s] = "arrive" /\ pc'[s] = "wait" /\ AtBarrier(s)' /\ txn'[s] = txn[s]
      /\ arrived' = [arrived EXCEPT ![txn[s]] = @ + 1]
  BY ArriveDoes DEF Keeps, AtBarrier
<1>2. self' = self /\ cur' = cur /\ \A r \in Strand \ {s} : pc'[r] = pc[r] /\ txn'[r] = txn[r] /\ state'[r] = state[r]
  BY OthersSame DEF Same, mainVars, StrandStep
<1>3. Barrier' = Barrier /\ \A r \in Strand : NtxnOf(r)' = NtxnOf(r)
  BY <1>2, SameProcess
<1>4. \A r \in Strand, m \in Barrier : HasArrived(r, m)' <=> HasArrived(r, m) \/ (r = s /\ m = txn[s])
  BY <1>1, <1>2 DEF HasArrived
<1>5. \A r \in Strand, m \in Barrier : HasPassed(r, m)' <=> HasPassed(r, m)
  BY <1>1, <1>2 DEF HasPassed
<1>6. txn[s] \in Barrier /\ arrived \in [Barrier -> Nat] /\ ~HasArrived(s, txn[s])
  <2>1. txn[s] \in Barrier /\ arrived \in [Barrier -> Nat]
    BY DEF TypeInv, StrandTypes, SharedTypes
  <2> QED BY <1>1, <2>1 DEF HasArrived, Barrier
<1>7. CountIsExact'
  <2> SUFFICES ASSUME NEW m \in Barrier PROVE arrived'[m] = Cardinality({r \in Strand : HasArrived(r, m)'})
    BY <1>3 DEF CountIsExact
  <2> DEFINE A == {r \in Strand : HasArrived(r, m)}
             B == {r \in Strand : HasArrived(r, m)'}
  <2>1. arrived[m] = Cardinality(A)
    BY DEF Barriers, CountIsExact
  <2>2. CASE m = txn[s]
    <3>1. B = A \cup {s} /\ s \notin A
      BY <1>4, <1>6, <2>2
    <3>2. IsFiniteSet(A)
      BY StrandsFinite, FS_Subset
    <3> HIDE DEF A, B
    <3>3. Cardinality(B) = Cardinality(A) + 1
      BY <3>1, <3>2, FS_AddElement
    <3>4. arrived'[m] = arrived[m] + 1
      BY <1>1, <1>6, <2>2
    <3>5. arrived'[m] = Cardinality(B)
      BY <2>1, <3>3, <3>4
    <3> QED BY <3>5 DEF B
  <2>3. CASE m # txn[s]
    <3>1. B = A
      BY <1>4, <2>3
    <3>2. arrived'[m] = arrived[m]
      BY <1>1, <1>6, <2>3
    <3> QED BY <2>1, <3>1, <3>2
  <2> QED BY <2>2, <2>3
<1>8. OpenedByAll' /\ PassedOpen'
  BY <1>2, <1>3, <1>4, <1>5 DEF Barriers, OpenedByAll, PassedOpen, Open
<1>9. WaitIsVisible'
  <2>1. \A r \in Strand \ {s} : pc'[r] = "wait" => AtBarrier(r)'
    BY <1>2 DEF Barriers, WaitIsVisible, AtBarrier
  <2> QED BY <1>1, <2>1 DEF WaitIsVisible
<1> QED BY <1>7, <1>8, <1>9 DEF Barriers

\* BARRIER_REACHED compares the count with the limit: equal, it means that every strand
\* that ever comes to the barrier is there.
LEMMA ReachedByAll ==
  ASSUME TypeInv, Barriers, NEW m \in Barrier, arrived[m] = Limit(m)
  PROVE  \A s \in Strand : m <= NtxnOf(s) => HasArrived(s, m)
<1> DEFINE A == {s \in Strand : HasArrived(s, m)}
           L == {s \in Strand : m <= NtxnOf(s)}
<1>1. A \subseteq L
  <2> SUFFICES ASSUME NEW s \in Strand, HasArrived(s, m) PROVE m <= NtxnOf(s)
    OBVIOUS
  <2>1. txn[s] \in 1 .. NtxnOf(s) /\ NtxnOf(s) \in Nat /\ m \in Nat /\ m <= txn[s]
    BY StrandsGroups DEF TypeInv, StrandsCounted, HasArrived, Barrier
  <2> QED BY <2>1
<1>2. IsFiniteSet(L)
  BY StrandsFinite, FS_Subset
<1>3. Cardinality(A) = Cardinality(L)
  BY DEF Barriers, CountIsExact, Limit
<1>4. A = L
  <2> HIDE DEF A, L
  <2> QED BY <1>1, <1>2, <1>3, FS_Subset
<1> QED BY <1>4

\* The main thread opens the barrier that is reached.
LEMMA OpenBarriers ==
  ASSUME TypeInv, Barriers, UNCHANGED <<self, strandVars, arrived>>,
         \/ cur' = cur
         \/ cur' = cur + 1 /\ cur \in Barrier /\ arrived[cur] = Limit(cur)
  PROVE  Barriers'
<1>1. Barrier' = Barrier /\ \A r \in Strand : NtxnOf(r)' = NtxnOf(r)
  BY SameProcess
<1>2. \A r \in Strand, m \in Barrier : (HasArrived(r, m)' <=> HasArrived(r, m)) /\ (HasPassed(r, m)' <=> HasPassed(r, m))
  BY DEF HasArrived, HasPassed, strandVars
<1>3. CountIsExact'
  <2> SUFFICES ASSUME NEW m \in Barrier PROVE arrived'[m] = Cardinality({r \in Strand : HasArrived(r, m)'})
    BY <1>1 DEF CountIsExact
  <2>1. {r \in Strand : HasArrived(r, m)'} = {r \in Strand : HasArrived(r, m)}
    BY <1>2
  <2> QED BY <2>1 DEF Barriers, CountIsExact
<1>4. \A m \in Barrier : /\ Open(m)' => Open(m) \/ (m = cur /\ cur \in Barrier /\ arrived[cur] = Limit(cur))
                         /\ Open(m) => Open(m)'
  <2>1. cur \in Nat
    BY LongestList DEF TypeInv, MainTypes
  <2> QED BY <2>1 DEF Open, Barrier
<1>5. OpenedByAll'
  BY <1>1, <1>2, <1>4, ReachedByAll DEF Barriers, OpenedByAll
<1>6. PassedOpen' /\ WaitIsVisible'
  BY <1>1, <1>2, <1>4 DEF Barriers, PassedOpen, WaitIsVisible, AtBarrier, strandVars
<1> QED BY <1>3, <1>5, <1>6 DEF Barriers

LEMMA InitBarriers == Init /\ TypeInv => Barriers
<1> SUFFICES ASSUME Init, TypeInv PROVE Barriers
  OBVIOUS
<1>1. \A s \in Strand, m \in Barrier : ~HasArrived(s, m) /\ ~HasPassed(s, m)
  BY DEF Init, HasArrived, HasPassed, Barrier
<1>2. CountIsExact
  <2> SUFFICES ASSUME NEW m \in Barrier PROVE arrived[m] = Cardinality({s \in Strand : HasArrived(s, m)})
    BY DEF CountIsExact
  <2>1. {s \in Strand : HasArrived(s, m)} = {}
    BY <1>1
  <2> QED BY <2>1, FS_EmptySet DEF Init
<1>3. \A m \in Barrier : ~Open(m)
  BY DEF Init, Open, Barrier
<1> QED BY <1>1, <1>2, <1>3 DEF Init, Barriers, OpenedByAll, PassedOpen, WaitIsVisible

LEMMA StepBarriers == TypeInv /\ Barriers /\ [Next]_vars => Barriers'
<1> SUFFICES ASSUME TypeInv, Barriers, [Next]_vars PROVE Barriers'
  OBVIOUS
<1>1. ASSUME NEW s \in Strand, StrandStep(s) \/ Return(s) \/ Deliver(s) PROVE Barriers'
  <2>1. CASE Arrive(s)
    BY <2>1, ArriveBarriers
  <2>2. CASE ~Arrive(s)
    <3>1. UNCHANGED <<self, cur>> /\ \A r \in Strand \ {s} : Same(r)
      BY <1>1, OthersSame DEF mainVars
    <3>2. txn[s] \in Nat /\ \A r \in Strand : pc[r] = "wait" => AtBarrier(r)
      BY DEF TypeInv, StrandTypes, Barrier, Barriers, WaitIsVisible
    <3>3. /\ arrived' = arrived
          /\ \A m \in Barrier : HasArrived(s, m)' <=> HasArrived(s, m)
          /\ \A m \in Barrier : HasPassed(s, m)' => HasPassed(s, m) \/ Open(m)
          /\ pc'[s] = "wait" => AtBarrier(s)'
      BY <1>1, <2>2, <3>2, Passage DEF HasArrived, HasPassed, Same, Barrier, AtBarrier
    <3>4. /\ \A r \in Strand, m \in Barrier : HasArrived(r, m)' <=> HasArrived(r, m)
          /\ \A r \in Strand, m \in Barrier : HasPassed(r, m)' => HasPassed(r, m) \/ Open(m)
          /\ \A r \in Strand : pc'[r] = "wait" => AtBarrier(r)'
      BY <3>1, <3>2, <3>3 DEF HasArrived, HasPassed, Same, AtBarrier
    <3> QED BY <3>1, <3>3, <3>4, ArrivalsKept
  <2> QED BY <2>1, <2>2
<1>2. ASSUME UNCHANGED <<self, strandVars, arrived, cur>> PROVE Barriers'
  BY <1>2, OpenBarriers
<1>3. CASE MainStep
  <2>1. CASE MasterBarrier
    <3>1. cur \in Barrier
      BY <2>1, LongestList DEF MasterBarrier, TypeInv, MainTypes, LoopsInRange, AtNextBarrier, Barrier
    <3> QED BY <2>1, <3>1, OpenBarriers DEF MasterBarrier, shmVars
  <2>2. CASE SlaveUnlock
    <3>1. cur \in Barrier
      BY <2>2, LongestList DEF SlaveUnlock, TypeInv, MainTypes, LoopsInRange, AtNextBarrier, Barrier
    <3> QED BY <2>2, <3>1, OpenBarriers DEF SlaveUnlock, shmVars
  <2>3. CASE CalloutStep
    BY <1>2, <2>3 DEF CalloutStep, Callout, Mark, Set, Signal, Again, CheckCallout, shmVars
  <2>4. CASE MasterPoll \/ MasterDrain \/ SlaveAborts \/ SlaveCommand \/ SlaveIdle \/ SlaveSignalled \/ SlaveWaited \/ Join
    BY <1>2, <2>4
       DEF MasterPoll, MasterDrain, SlaveAborts, SlaveCommand, SlaveIdle, SlaveSignalled, SlaveWaited, Join, shmVars
  <2> QED BY <1>3, <2>1, <2>2, <2>3, <2>4 DEF MainStep
<1>4. CASE \E g \in Group : Due(g)
  BY <1>2, <1>4 DEF Due, mainVars
<1>5. CASE UNCHANGED vars
  BY <1>2, <1>5 DEF vars, shmVars, mainVars
<1> QED BY <1>1, <1>3, <1>4, <1>5 DEF Next, Terminated

\* No strand starts a transaction before every strand that has the transaction has ended
\* the one before it: nothing but the count of those that arrived opens a barrier
\* (BARRIER_REACHED in master_poll and wait_unlock_barrier).
TogetherAtTheBarrier ==
  \A m \in Barrier, s, r \in Strand : HasPassed(s, m) /\ m <= NtxnOf(r) => HasArrived(r, m)

THEOREM DurationBarriers == Spec => []TogetherAtTheBarrier
<1>1. Init => TypeInv /\ Barriers
  BY InitOK, InitBarriers
<1>2. TypeInv /\ Barriers /\ [Next]_vars => TypeInv' /\ Barriers'
  BY StepOK, StepBarriers
<1>3. TypeInv /\ Barriers => TogetherAtTheBarrier
  BY DEF Barriers, PassedOpen, OpenedByAll, TogetherAtTheBarrier
<1> QED BY <1>1, <1>2, <1>3, PTL DEF Spec

-----------------------------------------------------------------------------
(* The one duration of a group                                              *)

\* The process of a master, no flowop of which finds that the other side hung up, with at
\* most one transaction with a duration in each group.
Undisturbed(p) ==
  /\ p.role = "master"
  /\ "hangup" \notin p.outcomes
  /\ \A g \in Group : \A m, n \in 1 .. Len(p.txns[g]) :
       p.txns[g][m].duration /\ p.txns[g][n].duration => m = n

\* Transaction n of group g has a duration.
Timed(g, n) == n <= Len(Txns[g]) /\ Txns[g][n].duration
InTimed(s) == Timed(GroupOf[s], txn[s])

\* The group's leader has begun its duration.
HasBegun(l, n) == txn[l] > n \/ (txn[l] = n /\ pc[l] \notin {"arrive", "wait", "begin"})
Began(g) == \E n \in Barrier, l \in Members(g) : Timed(g, n) /\ Leader(l) /\ HasBegun(l, n)

\* Strand s was signalled, and is not yet past what the signal leaves behind, ...
Touched(s) == signalled[s] \/ pending[s] \/ errno[s] = "EINTR"

\* ... or it is in a transaction after the duration, ...
Past(s) == \E n \in Barrier : Timed(GroupOf[s], n) /\ txn[s] > n

\* ... or it ends or has ended with the duration, and no error made it do so.
Left(s) ==
  /\ InTimed(s)
  /\ result[s] # "failure"
  /\ pc[s] = "clear" \/ (pc[s] \in {"exit", "done"} /\ globalError <= 1)

Out(s) == Touched(s) \/ Past(s) \/ Left(s)

LEMMA Rigid ==
  ASSUME self' = self
  PROVE  /\ Undisturbed(self)' <=> Undisturbed(self)
         /\ Barrier' = Barrier
         /\ \A g, n : Timed(g, n)' <=> Timed(g, n)
BY SameProcess DEF Undisturbed, Timed

LEMMA OneTimed ==
  ASSUME TypeInv, Undisturbed(self)
  PROVE  \A g \in Group : \A m, n \in Barrier : Timed(g, m) /\ Timed(g, n) => m = n
BY DEF Undisturbed, Timed, Txns, Barrier

LEMMA TimedIsDuration ==
  ASSUME TypeInv, NEW s \in Strand
  PROVE  GroupOf[s] \in Group /\ txn[s] \in Barrier /\ (InTimed(s) <=> Txn(s).duration)
<1>1. GroupOf[s] \in Group /\ txn[s] \in Barrier /\ txn[s] <= NtxnOf(s)
  BY StrandsGroups DEF TypeInv, StrandTypes, StrandsCounted
<1> QED BY <1>1 DEF InTimed, Timed, Txn, NtxnOf

LEMMA BeginDoes ==
  ASSUME TypeInv, NEW s \in Strand, Begin(s)
  PROVE  /\ pc[s] = "begin" /\ pc'[s] = "flowop" /\ Keeps(s) /\ errno'[s] = errno[s] /\ result'[s] = result[s]
         /\ UNCHANGED <<arrived, globalError>>
         /\ \/ callouts' = callouts
            \/ /\ InTimed(s) /\ Leader(s) /\ callouts[GroupOf[s]] = "none"
               /\ callouts' = [callouts EXCEPT ![GroupOf[s]] = "set"]
<1>1. /\ pc[s] = "begin" /\ pc'[s] = "flowop" /\ Keeps(s) /\ errno'[s] = errno[s] /\ result'[s] = result[s]
      /\ UNCHANGED <<arrived, globalError>>
  BY DEF Begin, Keeps, signalVars, Runs, Goto, TypeInv, StrandTypes
<1>2. GroupOf[s] \in Group /\ callouts \in [Group -> {"none", "set", "due"}] /\ (InTimed(s) <=> Txn(s).duration)
  BY TimedIsDuration DEF TypeInv, SharedTypes
<1>3. CASE Txn(s).duration /\ Leader(s)
  <2>1. callouts' = [callouts EXCEPT ![GroupOf[s]] = IF @ = "none" THEN "set" ELSE @]
    BY <1>3 DEF Begin, Register
  <2>2. CASE callouts[GroupOf[s]] = "none"
    BY <1>1, <1>2, <1>3, <2>1, <2>2
  <2>3. CASE callouts[GroupOf[s]] # "none"
    <3>1. callouts' = callouts
      BY <1>2, <2>1, <2>3
    <3> QED BY <1>1, <3>1
  <2> QED BY <2>2, <2>3
<1>4. CASE ~(Txn(s).duration /\ Leader(s))
  BY <1>1, <1>4 DEF Begin
<1> QED BY <1>3, <1>4

\* Nothing that a strand does takes back the beginning of a duration.
LEMMA BeganStays ==
  ASSUME TypeInv, NEW s \in Strand, StrandStep(s) \/ Return(s) \/ Deliver(s)
  PROVE  \A g : Began(g) => Began(g)'
<1>1. self' = self /\ \A r \in Strand \ {s} : pc'[r] = pc[r] /\ txn'[r] = txn[r]
  BY OthersSame DEF mainVars, Same
<1>2. txn[s] \in Nat /\ \A n \in Barrier : n \in Nat
  BY LongestList DEF TypeInv, StrandTypes, Barrier
<1>3. \A n \in Barrier : HasBegun(s, n) => HasBegun(s, n)'
  <2> USE <1>2 DEF HasBegun
  <2>1. CASE Arrive(s)
    BY <2>1, ArriveDoes DEF Keeps
  <2>2. CASE Pass(s)
    BY <2>2, PassDoes DEF Keeps
  <2>3. CASE Begin(s)
    BY <2>3, BeginDoes DEF Keeps
  <2>4. CASE Flowop(s)
    BY <2>4, FlowopDoes DEF Keeps
  <2>5. CASE EnterCall(s)
    BY <2>5, EnterCallDoes DEF Keeps
  <2>6. CASE After(s)
    BY <2>6, AfterDoes DEF Keeps
  <2>7. CASE Clear(s)
    <3>1. /\ pc[s] = "clear"
          /\ \/ txn'[s] = txn[s] + 1 /\ pc'[s] = "arrive"
             \/ txn'[s] = txn[s] /\ pc'[s] = "exit"
      BY <2>7, ClearDoes
    <3> QED BY <3>1
  <2>8. CASE Exit(s)
    BY <2>8, ExitDoes DEF Keeps
  <2>9. CASE Return(s)
    BY <2>9, ReturnDoes DEF Keeps
  <2>10. CASE Deliver(s)
    BY <2>10, DeliverDoes
  <2> QED BY <2>1, <2>2, <2>3, <2>4, <2>5, <2>6, <2>7, <2>8, <2>9, <2>10 DEF StrandStep
<1>4. \A l \in Strand, n \in Barrier : HasBegun(l, n) => HasBegun(l, n)'
  BY <1>1, <1>3 DEF HasBegun
<1>5. Barrier' = Barrier /\ \A g, n : Timed(g, n)' <=> Timed(g, n)
  BY <1>1, Rigid
<1> QED BY <1>4, <1>5 DEF Began, Members

\* A strand is not signalled, and leaves no duration, by itself.
LEMMA OutsideStays ==
  ASSUME TypeInv, Undisturbed(self), NEW s \in Strand, StrandStep(s) \/ Return(s) \/ Deliver(s)
  PROVE  globalError' >= globalError /\ \A r \in Strand : Out(r)' => Out(r)
<1>1. self' = self /\ \A r \in Strand \ {s} : Same(r)
  BY OthersSame DEF mainVars
<1>2. Barrier' = Barrier /\ \A g, n : Timed(g, n)' <=> Timed(g, n)
  BY <1>1, Rigid
<1>3. /\ txn[s] \in Barrier /\ txn[s] \in Nat /\ globalError \in Nat /\ GroupOf[s] \in Group
      /\ (InTimed(s) <=> Txn(s).duration) /\ "hangup" \notin Outcomes
  BY TimedIsDuration DEF TypeInv, StrandTypes, SharedTypes, Barrier, Undisturbed, Outcomes
<1>4. ASSUME txn'[s] = txn[s], signalled'[s] => signalled[s], pending'[s] => pending[s],
             errno'[s] = "EINTR" => Touched(s), globalError' >= globalError,
             globalError' \in Nat,
             pc'[s] \in {"clear", "exit", "done"} /\ InTimed(s) /\ result'[s] # "failure" =>
               \/ Touched(s)
               \/ pc'[s] = "exit" /\ globalError > 1
               \/ pc[s] \in {"clear", "exit", "done"} /\ result[s] = result'[s]
                    /\ (pc'[s] = "clear" <=> pc[s] = "clear")
      PROVE  Out(s)' => Out(s)
  <2>1. InTimed(s)' <=> InTimed(s)
    BY <1>2, <1>4 DEF InTimed
  <2>2. Past(s)' <=> Past(s)
    BY <1>2, <1>4 DEF Past
  <2>3. Touched(s)' => Touched(s)
    BY <1>4 DEF Touched
  <2>4. Left(s)' => Touched(s) \/ Left(s)
    BY <1>3, <1>4, <2>1 DEF Left
  <2> QED BY <2>2, <2>3, <2>4 DEF Out
<1>5. globalError' \in Nat /\ globalError' >= globalError /\ (Out(s)' => Out(s))
  <2>1. CASE Arrive(s)
    BY <1>3, <1>4, <2>1, ArriveDoes DEF Keeps, Touched
  <2>2. CASE Pass(s)
    BY <1>3, <1>4, <2>2, PassDoes DEF Keeps, Touched
  <2>3. CASE Begin(s)
    BY <1>3, <1>4, <2>3, BeginDoes DEF Keeps, Touched
  <2>4. CASE Flowop(s)
    BY <1>3, <1>4, <2>4, FlowopDoes DEF Keeps, Touched
  <2>5. CASE EnterCall(s)
    BY <1>3, <1>4, <2>5, EnterCallDoes DEF Keeps, Touched
  <2>6. CASE After(s)
    BY <1>3, <1>4, <2>6, AfterDoes DEF Keeps, Touched, Expired
  <2>7. CASE Clear(s)
    <3>1. CASE result[s] # "failure" /\ txn'[s] = txn[s] + 1 /\ pc'[s] = "arrive"
      <4>1. pc[s] = "clear" /\ (Touched(s)' => Touched(s)) /\ globalError' = globalError
        BY <2>7, ClearDoes DEF Touched
      <4>2. \A n \in Barrier : n \in Nat
        BY LongestList DEF TypeInv, Barrier
      <4>3. Past(s)' => Past(s) \/ InTimed(s)
        <5> SUFFICES ASSUME Past(s)' PROVE Past(s) \/ InTimed(s)
          OBVIOUS
        <5>1. PICK n \in Barrier : Timed(GroupOf[s], n) /\ txn'[s] > n
          BY <1>2 DEF Past
        <5>2. txn[s] > n \/ txn[s] = n
          BY <1>3, <3>1, <4>2, <5>1
        <5> QED BY <5>1, <5>2 DEF Past, InTimed
      <4>4. InTimed(s) => Left(s)
        BY <3>1, <4>1 DEF Left
      <4>5. ~Left(s)'
        BY <3>1 DEF Left
      <4> QED BY <1>3, <4>1, <4>3, <4>4, <4>5 DEF Out
    <3>2. CASE txn'[s] = txn[s] /\ pc'[s] = "exit"
      <4>1. /\ pc[s] = "clear" /\ pc'[s] # "clear" /\ result'[s] = result[s] /\ globalError' = globalError
            /\ Touched(s)' => Touched(s)
        BY <1>3, <2>7, <3>2, ClearDoes DEF Touched
      <4>2. Left(s)' => Left(s)
        BY <1>2, <3>2, <4>1 DEF Left, InTimed
      <4>3. Past(s)' <=> Past(s)
        BY <1>2, <3>2 DEF Past
      <4> QED BY <1>3, <4>1, <4>2, <4>3 DEF Out
    <3> QED BY <2>7, <3>1, <3>2, ClearDoes
  <2>8. CASE Exit(s)
    BY <1>3, <1>4, <2>8, ExitDoes DEF Keeps, Touched
  <2>9. CASE Return(s)
    BY <1>3, <1>4, <2>9, ReturnDoes DEF Keeps, Touched
  <2>10. CASE Deliver(s)
    <3>1. /\ pending[s] /\ ~pending'[s] /\ txn'[s] = txn[s] /\ signalled'[s] = signalled[s]
          /\ globalError' = globalError
      BY <2>10, DeliverDoes
    <3>2. Touched(s)
      BY <3>1 DEF Touched
    <3> QED BY <1>3, <3>1, <3>2 DEF Out
  <2> QED BY <2>1, <2>2, <2>3, <2>4, <2>5, <2>6, <2>7, <2>8, <2>9, <2>10 DEF StrandStep
<1>6. \A r \in Strand \ {s} : Out(r)' => Out(r)
  <2> SUFFICES ASSUME NEW r \in Strand \ {s} PROVE Out(r)' => Out(r)
    OBVIOUS
  <2>1. Same(r)
    BY <1>1
  <2>2. (InTimed(r)' <=> InTimed(r)) /\ (Past(r)' <=> Past(r)) /\ (Touched(r)' <=> Touched(r))
    BY <1>2, <2>1 DEF Same, InTimed, Past, Touched
  <2>3. Left(r)' => Left(r)
    BY <1>3, <1>5, <2>1, <2>2 DEF Left, Same
  <2> QED BY <2>2, <2>3 DEF Out
<1> QED BY <1>5, <1>6

\* A master signals its strands in shm_process_callouts only, and for a callout that is due.
SignalledWhenDue ==
  /\ mpc \notin {"unlock", "waited"} /\ back # "waited"
  /\ mpc \in Signalling => scope \in Group /\ scope = grp /\ callouts[scope] = "due"
  /\ mpc = "set" => GroupOf[idx] = scope

\* A callout is that of the group's one duration.
CalloutHasBegun == \A g \in Group : callouts[g] # "none" => Began(g)

\* No strand is signalled, or leaves the duration, while the callout waits for its time.
OutWhenDue == \A s \in Strand : Out(s) => Began(GroupOf[s]) /\ callouts[GroupOf[s]] # "set"

Schedule == Undisturbed(self) => SignalledWhenDue /\ CalloutHasBegun /\ OutWhenDue

LEMMA InitSchedule == Init /\ TypeInv => Schedule
<1> SUFFICES ASSUME Init, TypeInv PROVE Schedule
  OBVIOUS
<1>1. \A s \in Strand : ~Out(s)
  <2> SUFFICES ASSUME NEW s \in Strand PROVE ~Out(s)
    OBVIOUS
  <2>1. ~Touched(s) /\ ~Left(s)
    BY DEF Init, Touched, Left
  <2>2. ~Past(s)
    BY DEF Init, Past, Barrier
  <2> QED BY <2>1, <2>2 DEF Out
<1> QED BY <1>1 DEF Init, Schedule, SignalledWhenDue, CalloutHasBegun, OutWhenDue, Signalling

\* What the steps of the main thread change of what concerns the strands.
LEMMA MainDoes ==
  ASSUME TypeInv, MainStep
  PROVE  /\ UNCHANGED <<self, strandVars>> /\ globalError' >= globalError
         /\ \A r \in Strand : signalled'[r] = signalled[r] \/ (mpc = "set" /\ r = idx)
         /\ \A r \in Strand : pending'[r] => pending[r] \/ signalled[r]
         /\ \/ callouts' = callouts
            \/ mpc = "check" /\ mpc' = "callout" /\ callouts' = [callouts EXCEPT ![grp] = "none"]
<1>1. /\ globalError \in Nat /\ signalled \in [Strand -> BOOLEAN] /\ pending \in [Strand -> BOOLEAN]
  BY DEF TypeInv, SharedTypes
<1>2. CASE Set
  <2>1. /\ mpc = "set" /\ signalled' = [signalled EXCEPT ![idx] = TRUE] /\ pending' = pending
        /\ UNCHANGED <<self, strandVars, callouts, globalError>>
    BY <1>2 DEF Set, shmVars
  <2>2. \A r \in Strand : signalled'[r] = signalled[r] \/ (mpc = "set" /\ r = idx)
    BY <1>1, <2>1
  <2>3. \A r \in Strand : pending'[r] => pending[r] \/ signalled[r]
    BY <2>1
  <2>4. globalError' >= globalError
    BY <1>1, <2>1
  <2> QED BY <2>1, <2>2, <2>3, <2>4
<1>3. CASE Signal
  BY <1>1, <1>3 DEF Signal, shmVars
<1>4. CASE CheckCallout
  <2>1. UNCHANGED <<self, strandVars, signalVars>>
    BY <1>4 DEF CheckCallout
  <2>2. CASE NotResponding
    BY <1>1, <1>4, <2>1, <2>2 DEF CheckCallout, signalVars
  <2>3. CASE ~NotResponding
    BY <1>1, <1>4, <2>1, <2>3 DEF CheckCallout, CalledOut, signalVars
  <2> QED BY <2>2, <2>3
<1>5. CASE Callout \/ Mark \/ Again
  BY <1>1, <1>5 DEF Callout, Mark, Again, shmVars, signalVars
<1>6. CASE MasterPoll \/ MasterBarrier \/ MasterDrain \/ SlaveAborts \/ SlaveCommand \/ SlaveIdle
  BY <1>1, <1>6 DEF MasterPoll, MasterBarrier, MasterDrain, SlaveAborts, SlaveCommand, SlaveIdle, shmVars, signalVars
<1>7. CASE SlaveUnlock \/ SlaveSignalled \/ SlaveWaited \/ Join
  BY <1>1, <1>7 DEF SlaveUnlock, SlaveSignalled, SlaveWaited, Join, shmVars, signalVars
<1> QED BY <1>2, <1>3, <1>4, <1>5, <1>6, <1>7 DEF MainStep, CalloutStep

\* The main thread can only put a strand out in Set.
LEMMA MainOutside ==
  ASSUME TypeInv, MainStep
  PROVE  /\ \A g : Began(g)' <=> Began(g)
         /\ \A r \in Strand : Out(r)' => Out(r) \/ (mpc = "set" /\ r = idx)
<1>1. self' = self /\ txn' = txn /\ pc' = pc /\ errno' = errno /\ result' = result
  BY MainDoes DEF strandVars, work
<1>2. Barrier' = Barrier /\ \A g, n : Timed(g, n)' <=> Timed(g, n)
  BY <1>1, Rigid
<1>3. \A g : Began(g)' <=> Began(g)
  BY <1>1, <1>2 DEF Began, HasBegun
<1>4. globalError \in Nat /\ globalError' \in Nat /\ globalError' >= globalError
  BY MainDoes, MainStepOK DEF TypeInv, SharedTypes
<1>5. ASSUME NEW r \in Strand, Out(r)' PROVE Out(r) \/ (mpc = "set" /\ r = idx)
  <2>1. (Past(r)' <=> Past(r)) /\ (Left(r)' => Left(r))
    BY <1>1, <1>2, <1>4 DEF Past, Left, InTimed
  <2>2. Touched(r)' => Touched(r) \/ (mpc = "set" /\ r = idx)
    BY <1>1, MainDoes DEF Touched
  <2> QED BY <1>5, <2>1, <2>2 DEF Out
<1> QED BY <1>3, <1>5

\* Where the main thread of a master is, and whom it signals.
LEMMA MainSignals ==
  ASSUME TypeInv, Undisturbed(self), SignalledWhenDue, MainStep
  PROVE  SignalledWhenDue'
<1>1. /\ Role = "master" /\ grp \in Nat /\ NGroup \in Nat /\ back \in {"poll", "drain", "barrier", "waited"}
      /\ mpc \in Signalling => scope \in Group /\ scope = grp /\ callouts[scope] = "due"
      /\ mpc = "set" => GroupOf[idx] = scope
      /\ mpc \notin {"unlock", "waited"} /\ back # "waited" /\ grp >= 1
  BY StrandsGroups DEF TypeInv, MainTypes, Undisturbed, Role, SignalledWhenDue
<1> USE <1>1 DEF SignalledWhenDue, Signalling, All
<1>2. CASE Callout
  BY <1>2 DEF Callout, StartSignalling, Group, shmVars
<1>3. CASE Mark
  BY <1>3 DEF Mark, InScope, Group, shmVars
<1>4. CASE Set
  BY <1>4 DEF Set, shmVars
<1>5. CASE Signal
  BY <1>5 DEF Signal, shmVars
<1>6. CASE Again
  BY <1>6 DEF Again, shmVars
<1>7. CASE CheckCallout
  <2>1. mpc' \in {back, "callout"} /\ back' = back
    BY <1>7 DEF CheckCallout
  <2> QED BY <2>1
<1>8. CASE MasterPoll \/ MasterDrain
  BY <1>8 DEF MasterPoll, MasterDrain, StartCallouts
<1>9. CASE MasterBarrier
  BY <1>9 DEF MasterBarrier, callVars
<1>10. CASE Join
  BY <1>10 DEF Join, callVars
<1>11. ~SlaveAborts /\ ~SlaveCommand /\ ~SlaveIdle /\ ~SlaveUnlock /\ ~SlaveWaited
  BY DEF SlaveAborts, SlaveCommand, SlaveIdle, SlaveUnlock, SlaveWaited
<1>12. ~SlaveSignalled
  BY DEF SlaveSignalled, Group
<1> QED BY <1>2, <1>3, <1>4, <1>5, <1>6, <1>7, <1>8, <1>9, <1>10, <1>11, <1>12 DEF MainStep, CalloutStep

\* A leader that begins a duration is the first to: its group is not out of it.
LEMMA BeginsOnce ==
  ASSUME TypeInv, Undisturbed(self), NEW s \in Strand, Begin(s), InTimed(s), Leader(s)
  PROVE  ~Began(GroupOf[s]) /\ Began(GroupOf[s])'
<1>1. GroupOf[s] \in Group /\ txn[s] \in Barrier /\ pc[s] = "begin" /\ pc'[s] = "flowop" /\ txn'[s] = txn[s]
  BY TimedIsDuration, BeginDoes DEF Keeps
<1>2. self' = self /\ Barrier' = Barrier /\ \A g, n : Timed(g, n)' <=> Timed(g, n)
  <2>1. self' = self
    BY OthersSame DEF mainVars, StrandStep
  <2> QED BY <2>1, Rigid
<1>3. s \in Members(GroupOf[s]) /\ \A l \in Members(GroupOf[s]) : Leader(l) => l = s
  <2>1. \A l \in Members(GroupOf[s]) : l \in Strand /\ GroupOf[l] = GroupOf[s] /\ l \in Int
    BY StrandsGroups DEF Members, TypeInv
  <2>2. s \in Members(GroupOf[s]) /\ s \in Int
    BY StrandsGroups DEF Members, TypeInv
  <2>3. ASSUME NEW l \in Members(GroupOf[s]), Leader(l) PROVE l = s
    <3>1. l <= s /\ s <= l
      BY <2>1, <2>2, <2>3 DEF Leader
    <3> QED BY <2>1, <2>2, <3>1
  <2> QED BY <2>2, <2>3
<1>4. ~Began(GroupOf[s])
  <2> SUFFICES ASSUME NEW n \in Barrier, NEW l \in Members(GroupOf[s]), Timed(GroupOf[s], n), Leader(l), HasBegun(l, n)
               PROVE  FALSE
    BY DEF Began
  <2>1. l = s /\ n = txn[s]
    BY <1>1, <1>3, OneTimed DEF InTimed
  <2> QED BY <1>1, <2>1 DEF HasBegun, Barrier
<1>5. PICK n \in Barrier : n = txn[s] /\ Timed(GroupOf[s], n)
  BY <1>1 DEF InTimed
<1>6. Began(GroupOf[s])'
  <2>1. HasBegun(s, n)'
    BY <1>1, <1>5 DEF HasBegun
  <2> QED BY <1>1, <1>2, <1>3, <1>5, <2>1 DEF Began, Members
<1> QED BY <1>4, <1>6

\* A strand registers the callout of its group, once, and does nothing else to a callout.
LEMMA StrandCallouts ==
  ASSUME TypeInv, Undisturbed(self), NEW s \in Strand, StrandStep(s) \/ Return(s) \/ Deliver(s)
  PROVE  \/ callouts' = callouts
         \/ /\ callouts' = [callouts EXCEPT ![GroupOf[s]] = "set"] /\ callouts[GroupOf[s]] = "none"
            /\ ~Began(GroupOf[s]) /\ Began(GroupOf[s])'
<1>1. CASE Begin(s)
  BY <1>1, BeginDoes, BeginsOnce
<1>2. CASE ~Begin(s)
  BY <1>2, ArriveDoes, PassDoes, FlowopDoes, EnterCallDoes, AfterDoes, ClearDoes, ExitDoes, ReturnDoes, DeliverDoes
     DEF StrandStep
<1> QED BY <1>1, <1>2

LEMMA StrandSchedule ==
  ASSUME TypeInv, Schedule, Undisturbed(self), NEW s \in Strand, StrandStep(s) \/ Return(s) \/ Deliver(s)
  PROVE  SignalledWhenDue' /\ CalloutHasBegun' /\ OutWhenDue'
<1>1. SignalledWhenDue /\ CalloutHasBegun /\ OutWhenDue
  BY DEF Schedule
<1>2. UNCHANGED mainVars /\ callouts \in [Group -> {"none", "set", "due"}] /\ GroupOf[s] \in Group
  BY OthersSame, TimedIsDuration DEF TypeInv, SharedTypes
<1>3. (\A g : Began(g) => Began(g)') /\ (\A r \in Strand : Out(r)' => Out(r))
  BY BeganStays, OutsideStays
<1>4. \/ callouts' = callouts
      \/ /\ callouts' = [callouts EXCEPT ![GroupOf[s]] = "set"] /\ callouts[GroupOf[s]] = "none"
         /\ ~Began(GroupOf[s]) /\ Began(GroupOf[s])'
  BY StrandCallouts
<1>5. SignalledWhenDue'
  BY <1>1, <1>2, <1>4 DEF SignalledWhenDue, mainVars, callVars
<1>6. CalloutHasBegun'
  BY <1>1, <1>2, <1>3, <1>4 DEF CalloutHasBegun
<1>7. OutWhenDue'
  <2> SUFFICES ASSUME NEW r \in Strand, Out(r)' PROVE Began(GroupOf[r])' /\ callouts'[GroupOf[r]] # "set"
    BY DEF OutWhenDue
  <2>1. Began(GroupOf[r]) /\ callouts[GroupOf[r]] # "set" /\ Began(GroupOf[r])' /\ GroupOf[r] \in Group
    BY <1>1, <1>3, StrandsGroups DEF OutWhenDue, TypeInv
  <2>2. callouts'[GroupOf[r]] = callouts[GroupOf[r]]
    BY <1>2, <1>4, <2>1
  <2> QED BY <2>1, <2>2
<1> QED BY <1>5, <1>6, <1>7

LEMMA MainSchedule ==
  ASSUME TypeInv, Schedule, Undisturbed(self), MainStep
  PROVE  SignalledWhenDue' /\ CalloutHasBegun' /\ OutWhenDue'
<1>1. SignalledWhenDue /\ CalloutHasBegun /\ OutWhenDue
  BY DEF Schedule
<1>2. SignalledWhenDue'
  BY <1>1, MainSignals
<1>3. /\ callouts \in [Group -> {"none", "set", "due"}] /\ \A r \in Strand : GroupOf[r] \in Group
      /\ \A g \in Group : callouts'[g] = callouts[g] \/ callouts'[g] = "none"
  BY MainDoes, StrandsGroups DEF TypeInv, SharedTypes
<1>4. (\A g : Began(g)' <=> Began(g)) /\ \A r \in Strand : Out(r)' => Out(r) \/ (mpc = "set" /\ r = idx)
  BY MainOutside
<1>5. CalloutHasBegun'
  BY <1>1, <1>3, <1>4 DEF CalloutHasBegun
<1>6. OutWhenDue'
  <2> SUFFICES ASSUME NEW r \in Strand, Out(r)' PROVE Began(GroupOf[r])' /\ callouts'[GroupOf[r]] # "set"
    BY DEF OutWhenDue
  <2>1. CASE Out(r)
    BY <1>1, <1>3, <1>4, <2>1 DEF OutWhenDue
  <2>2. CASE mpc = "set" /\ r = idx
    <3>1. scope = GroupOf[r] /\ callouts[GroupOf[r]] = "due" /\ GroupOf[r] \in Group
      BY <1>1, <1>3, <2>2 DEF SignalledWhenDue, Signalling
    <3> QED BY <1>1, <1>3, <1>4, <3>1 DEF CalloutHasBegun
  <2> QED BY <1>4, <2>1, <2>2
<1> QED BY <1>2, <1>5, <1>6

LEMMA StepSchedule == TypeInv /\ Schedule /\ [Next]_vars => Schedule'
<1> SUFFICES ASSUME TypeInv, Schedule, [Next]_vars, Undisturbed(self)' PROVE SignalledWhenDue' /\ CalloutHasBegun' /\ OutWhenDue'
  BY DEF Schedule
<1>1. self' = self
  BY OthersSame, MainDoes DEF Next, Terminated, Due, vars, mainVars
<1>2. Undisturbed(self) /\ SignalledWhenDue /\ CalloutHasBegun /\ OutWhenDue
  BY <1>1, Rigid DEF Schedule
<1>3. CASE \E s \in Strand : StrandStep(s) \/ Return(s) \/ Deliver(s)
  BY <1>2, <1>3, StrandSchedule
<1>4. CASE MainStep
  BY <1>2, <1>4, MainSchedule
<1>5. ASSUME UNCHANGED <<strandVars, signalVars, globalError, mainVars>>,
             callouts' = callouts \/ \E g \in Group : callouts[g] = "set" /\ callouts' = [callouts EXCEPT ![g] = "due"]
      PROVE  SignalledWhenDue' /\ CalloutHasBegun' /\ OutWhenDue'
  <2>1. Barrier' = Barrier /\ \A g, n : Timed(g, n)' <=> Timed(g, n)
    BY <1>1, Rigid
  <2>2. (\A g : Began(g)' <=> Began(g)) /\ (\A r \in Strand : Out(r)' <=> Out(r))
    BY <1>5, <2>1 DEF Began, HasBegun, Out, Touched, Past, Left, InTimed, strandVars, work, signalVars
  <2>3. callouts \in [Group -> {"none", "set", "due"}] /\ \A r \in Strand : GroupOf[r] \in Group
    BY StrandsGroups DEF TypeInv, SharedTypes
  <2>4. SignalledWhenDue'
    BY <1>2, <1>5, <2>3 DEF SignalledWhenDue, mainVars, callVars
  <2>5. CalloutHasBegun'
    BY <1>2, <1>5, <2>2, <2>3 DEF CalloutHasBegun
  <2>6. OutWhenDue'
    BY <1>2, <1>5, <2>2, <2>3 DEF OutWhenDue
  <2> QED BY <2>4, <2>5, <2>6
<1>6. CASE \E g \in Group : Due(g)
  BY <1>5, <1>6 DEF Due
<1>7. CASE UNCHANGED vars
  BY <1>5, <1>7 DEF vars, shmVars
<1> QED BY <1>3, <1>4, <1>6, <1>7 DEF Next, Terminated

-----------------------------------------------------------------------------
(* How the transactions of a master end                                     *)

\* The only ways for a strand to end a transaction without a failure.
LEMMA HowItEnds ==
  ASSUME TypeInv, [Next]_vars, NEW s \in Strand, EndsTxn(s)
  PROVE  Touched(s) \/ (~InTimed(s) /\ iter'[s] = Txn(s).iter)
<1>1. pc'[s] # pc[s]
  BY DEF EndsTxn
<1>2. CASE MainStep
  BY <1>1, <1>2, MainDoes DEF strandVars
<1>3. CASE (\E g \in Group : Due(g)) \/ UNCHANGED vars
  BY <1>1, <1>3 DEF Due, vars, strandVars
<1>4. CASE \E r \in Strand : StrandStep(r) \/ Return(r) \/ Deliver(r)
  <2>1. PICK r \in Strand : StrandStep(r) \/ Return(r) \/ Deliver(r)
    BY <1>4
  <2>2. r = s
    BY <1>1, <2>1, OthersSame DEF Same
  <2>3. CASE Arrive(s)
    BY <2>3, ArriveDoes DEF EndsTxn
  <2>4. CASE Pass(s)
    BY <2>4, PassDoes DEF EndsTxn
  <2>5. CASE Begin(s)
    BY <2>5, BeginDoes DEF EndsTxn
  <2>6. CASE Flowop(s)
    BY <2>6, FlowopDoes DEF EndsTxn, Touched
  <2>7. CASE EnterCall(s)
    BY <2>7, EnterCallDoes DEF EndsTxn
  <2>8. CASE After(s)
    BY <2>8, AfterDoes, TimedIsDuration DEF EndsTxn, Touched, Expired
  <2>9. CASE Clear(s)
    BY <2>9, ClearDoes DEF EndsTxn
  <2>10. CASE Exit(s)
    BY <2>10, ExitDoes DEF EndsTxn
  <2>11. CASE Return(s)
    BY <2>11, ReturnDoes DEF EndsTxn
  <2>12. CASE Deliver(s)
    BY <2>12, DeliverDoes DEF EndsTxn
  <2> QED BY <2>1, <2>2, <2>3, <2>4, <2>5, <2>6, <2>7, <2>8, <2>9, <2>10, <2>11, <2>12 DEF StrandStep
<1> QED BY <1>2, <1>3, <1>4 DEF Next, Terminated

\* Every transaction with a duration is its group's last.
EndsWithDuration(p) ==
  \A g \in Group : \A n \in 1 .. Len(p.txns[g]) : p.txns[g][n].duration => n = Len(p.txns[g])

\* When a callout fires, every strand of the group is in the transaction it belongs to, or
\* beyond it.
LEMMA BegunByAll ==
  ASSUME TypeInv, Barriers, NEW g \in Group, Began(g)
  PROVE  \E n \in Barrier : Timed(g, n) /\ \A s \in Members(g) : HasArrived(s, n)
<1>1. PICK n \in Barrier, l \in Members(g) : Timed(g, n) /\ HasBegun(l, n)
  BY DEF Began
<1>2. l \in Strand /\ HasPassed(l, n)
  BY <1>1 DEF Members, HasBegun, HasPassed
<1>3. \A s \in Members(g) : s \in Strand /\ n <= NtxnOf(s)
  BY <1>1 DEF Members, Timed, NtxnOf
<1>4. \A s \in Members(g) : HasArrived(s, n)
  BY <1>2, <1>3 DEF Barriers, PassedOpen, OpenedByAll
<1> QED BY <1>1, <1>4

\* All of the above.
Timing == TypeInv /\ Barriers /\ Schedule

LEMMA InitTiming == Init => Timing
BY InitOK, InitBarriers, InitSchedule DEF Timing

LEMMA StepTiming == Timing /\ [Next]_vars => Timing'
BY StepOK, StepBarriers, StepSchedule DEF Timing

LEMMA EndsWhenDue ==
  ASSUME \A p \in Processes : Undisturbed(p), Timing, [Next]_vars, NEW s \in Strand, EndsTxn(s), Txn(s).duration
  PROVE  callouts[GroupOf[s]] # "set"
<1>1. Touched(s)
  BY HowItEnds, TimedIsDuration DEF Timing
<1>2. Undisturbed(self)
  BY DEF Timing, TypeInv
<1> QED BY <1>1, <1>2 DEF Timing, Schedule, OutWhenDue, Out

\* A strand of a master does not end its transaction with a duration before the duration
\* has passed, without an error: only a signal ends it, and signal_all_strands is called
\* for a group only when its callout is due (shm_process_callouts), which is after the
\* group's leader has begun the transaction and every strand has come to its barrier.  The
\* calls of a slave's strands may also end because the master hung up, and
\* wait_unlock_barrier signals them when the master is faster than they are.
THEOREM DurationLasts == (\A p \in Processes : Undisturbed(p)) /\ Spec => LastsForDuration
<1> DEFINE Masters == \A p \in Processes : Undisturbed(p)
           Lasts == \A s \in Strand : EndsTxn(s) /\ Txn(s).duration => callouts[GroupOf[s]] # "set"
<1>1. Masters /\ Timing /\ [Next]_vars => [Lasts]_vars
  BY EndsWhenDue
<1> HIDE DEF Masters
<1>2. Masters /\ Timing /\ [Next]_vars => Masters' /\ Timing'
  BY StepTiming DEF Masters
<1>3. Masters /\ Spec => [][Lasts]_vars
  <2> HIDE DEF Lasts
  <2> QED BY <1>1, <1>2, InitTiming, PTL DEF Spec
<1> QED BY <1>3 DEF LastsForDuration, Masters

LEMMA EndsWhenComplete ==
  ASSUME \A p \in Processes : p.role = "master" => Undisturbed(p) /\ EndsWithDuration(p), Timing, [Next]_vars,
         NEW s \in Strand, Role = "master", EndsTxn(s), ~Txn(s).duration
  PROVE  iter'[s] = Txn(s).iter
<1>1. TypeInv /\ Undisturbed(self) /\ EndsWithDuration(self)
  BY DEF Timing, TypeInv, Role
<1>2. GroupOf[s] \in Group /\ ~InTimed(s) /\ txn[s] \in Nat /\ txn[s] <= Len(Txns[GroupOf[s]])
  BY <1>1, TimedIsDuration, StrandsGroups DEF TypeInv, StrandsCounted, NtxnOf
<1>3. ~Touched(s)
  <2> SUFFICES ASSUME Touched(s) PROVE FALSE
    OBVIOUS
  <2>1. Began(GroupOf[s])
    BY <1>1 DEF Timing, Schedule, OutWhenDue, Out
  <2>2. PICK n \in Barrier : Timed(GroupOf[s], n) /\ HasArrived(s, n)
    <3>1. s \in Members(GroupOf[s])
      BY DEF Members
    <3> QED BY <1>1, <1>2, <2>1, <3>1, BegunByAll DEF Timing
  <2>3. n = Len(Txns[GroupOf[s]]) /\ n \in Nat
    <3>1. n \in Nat /\ n >= 1 /\ Len(Txns[GroupOf[s]]) \in Nat
      BY <1>1, <1>2, LongestList DEF TypeInv, Barrier
    <3>2. n \in 1 .. Len(self.txns[GroupOf[s]]) /\ self.txns[GroupOf[s]][n].duration
      BY <2>2, <3>1 DEF Timed, Txns
    <3> QED BY <1>1, <1>2, <3>1, <3>2 DEF EndsWithDuration, Txns
  <2>4. txn[s] = n
    BY <1>2, <2>2, <2>3 DEF HasArrived
  <2> QED BY <1>2, <2>2, <2>4 DEF InTimed
<1> QED BY <1>1, <1>3, HowItEnds

\* A strand of a master executes all the iterations of its transactions, unless it fails,
\* when a duration can only come last: the signal that ends a duration reaches no strand
\* before the barrier of the duration's transaction, whoever is late.  After a duration it
\* is not so: errno still says EINTR there (flowop_execute, run stale_errno).
THEOREM IterationsAreComplete ==
  (\A p \in Processes : p.role = "master" => Undisturbed(p) /\ EndsWithDuration(p)) /\ Spec => IterationsComplete
<1> DEFINE Masters == \A p \in Processes : p.role = "master" => Undisturbed(p) /\ EndsWithDuration(p)
           Complete == \A s \in Strand : Role = "master" /\ EndsTxn(s) /\ ~Txn(s).duration => iter'[s] = Txn(s).iter
<1>1. Masters /\ Timing /\ [Next]_vars => [Complete]_vars
  BY EndsWhenComplete
<1> HIDE DEF Masters
<1>2. Masters /\ Timing /\ [Next]_vars => Masters' /\ Timing'
  BY StepTiming DEF Masters
<1>3. Masters /\ Spec => [][Complete]_vars
  <2> HIDE DEF Complete
  <2> QED BY <1>1, <1>2, InitTiming, PTL DEF Spec
<1> QED BY <1>3 DEF IterationsComplete, Masters

-----------------------------------------------------------------------------
(* Signals and the next transaction                                         *)

\* signal_all_strands has come past strand s in this call.
Swept(s) == mpc \in Signalling /\ scope = GroupOf[s] /\ (mpc \in {"signal", "check"} \/ idx > s)

\* There was an error, and shm_process_callouts is not called again.
NoMoreCallouts == globalError > 0 /\ mpc \in {"poll", "barrier", "drain", "join", "kill", "done"}

\* A strand that is out was reached, so that it is not signalled a second time, ...
SweptOnce == \A s \in Strand : Out(s) /\ callouts[GroupOf[s]] = "due" => Swept(s) \/ NoMoreCallouts

\* ... and one that is signalled is in the duration: so is the one that is about to be,
\* although the main thread looked at its state a step ago.
FlagInDuration == \A s \in Strand : signalled[s] => InTimed(s) /\ pc[s] \notin {"arrive", "wait"}
SetInDuration == mpc = "set" => InTimed(idx) /\ pc[idx] \notin {"arrive", "wait"}

Sweep == Undisturbed(self) => SweptOnce /\ FlagInDuration /\ SetInDuration

LEMMA InitSweep == Init /\ TypeInv => Sweep
BY StrandsGroups DEF Init, TypeInv, Sweep, SweptOnce, FlagInDuration, SetInDuration

\* A strand leaves its duration only when it is out.
LEMMA StaysInDuration ==
  ASSUME TypeInv, NEW s \in Strand, StrandStep(s) \/ Return(s) \/ Deliver(s),
         InTimed(s), pc[s] \notin {"arrive", "wait"}
  PROVE  \/ InTimed(s)' /\ pc'[s] \notin {"arrive", "wait"}
         \/ Out(s) /\ ~signalled'[s]
<1>1. self' = self
  BY OthersSame DEF mainVars
<1>2. \A g, n : Timed(g, n)' <=> Timed(g, n)
  BY <1>1, Rigid
<1>3. CASE Clear(s)
  <2>1. pc[s] = "clear" /\ ~signalled'[s]
    BY <1>3, ClearDoes
  <2>2. CASE result[s] # "failure"
    BY <2>1, <2>2 DEF Out, Left
  <2>3. CASE result[s] = "failure"
    BY <1>2, <1>3, <2>3, ClearDoes DEF InTimed
  <2> QED BY <2>2, <2>3
<1>4. CASE ~Clear(s)
  <2>1. txn'[s] = txn[s] /\ pc'[s] \notin {"arrive", "wait"}
    BY <1>4, OtherwiseStays
  <2> QED BY <1>2, <2>1 DEF InTimed
<1> QED BY <1>3, <1>4

\* A strand does not signal.
LEMMA StrandsDoNotSignal ==
  ASSUME TypeInv, NEW s \in Strand, StrandStep(s) \/ Return(s) \/ Deliver(s)
  PROVE  \A r \in Strand : signalled'[r] => signalled[r]
<1>1. signalled'[s] => signalled[s]
  BY ClearDoes, OtherwiseStays
<1> QED BY <1>1, OthersSame DEF Same

LEMMA StrandSweep ==
  ASSUME TypeInv, Schedule, Sweep, Undisturbed(self), NEW s \in Strand, StrandStep(s) \/ Return(s) \/ Deliver(s)
  PROVE  SweptOnce' /\ FlagInDuration' /\ SetInDuration'
<1>1. /\ SweptOnce /\ FlagInDuration /\ SetInDuration /\ SignalledWhenDue
      /\ UNCHANGED mainVars /\ \A r \in Strand \ {s} : Same(r)
      /\ globalError \in Nat /\ globalError' >= globalError /\ \A r \in Strand : Out(r)' => Out(r)
  BY OthersSame, OutsideStays DEF Sweep, Schedule, TypeInv, SharedTypes
<1>2. \A g, n : Timed(g, n)' <=> Timed(g, n)
  BY <1>1, Rigid DEF mainVars
<1>3. globalError' \in Nat
  BY StrandStepOK DEF TypeInv, SharedTypes
<1>4. SweptOnce'
  <2> SUFFICES ASSUME NEW r \in Strand, Out(r)', callouts'[GroupOf[r]] = "due" PROVE Swept(r)' \/ NoMoreCallouts'
    BY DEF SweptOnce
  <2>1. callouts[GroupOf[r]] = "due"
    <3>1. callouts \in [Group -> {"none", "set", "due"}] /\ GroupOf[r] \in Group /\ GroupOf[s] \in Group
      BY StrandsGroups DEF TypeInv, SharedTypes
    <3> QED BY <3>1, StrandCallouts
  <2>2. Swept(r) \/ NoMoreCallouts
    BY <1>1, <2>1 DEF SweptOnce
  <2> QED BY <1>1, <1>3, <2>2 DEF Swept, NoMoreCallouts, mainVars, callVars
<1>5. FlagInDuration'
  <2> SUFFICES ASSUME NEW r \in Strand, signalled'[r] PROVE InTimed(r)' /\ pc'[r] \notin {"arrive", "wait"}
    BY DEF FlagInDuration
  <2>1. InTimed(r) /\ pc[r] \notin {"arrive", "wait"}
    BY <1>1, StrandsDoNotSignal DEF FlagInDuration
  <2>2. CASE r = s
    BY <2>1, <2>2, StaysInDuration
  <2>3. CASE r # s
    BY <1>1, <1>2, <2>1, <2>3 DEF Same, InTimed
  <2> QED BY <2>2, <2>3
<1>6. SetInDuration'
  <2> SUFFICES ASSUME mpc = "set" PROVE InTimed(idx)' /\ pc'[idx] \notin {"arrive", "wait"}
    BY <1>1 DEF SetInDuration, mainVars, callVars
  <2>1. idx \in Strand /\ idx' = idx /\ InTimed(idx) /\ pc[idx] \notin {"arrive", "wait"}
    BY <1>1, StrandsGroups DEF SetInDuration, mainVars, callVars, TypeInv, MainTypes, LoopsInRange, Strand
  <2>2. ~Out(idx)
    <3>1. callouts[GroupOf[idx]] = "due"
      BY <1>1 DEF SignalledWhenDue, Signalling
    <3>2. ~Swept(idx) /\ ~NoMoreCallouts
      BY <2>1 DEF Swept, NoMoreCallouts, Strand
    <3> QED BY <1>1, <2>1, <3>1, <3>2 DEF SweptOnce
  <2>3. PICK r \in Strand : r = idx
    BY <2>1
  <2>4. CASE r = s
    <3>1. InTimed(r)' /\ pc'[r] \notin {"arrive", "wait"}
      BY <2>1, <2>2, <2>3, <2>4, StaysInDuration
    <3> QED BY <1>2, <2>1, <2>3, <3>1 DEF InTimed
  <2>5. CASE r # s
    BY <1>1, <1>2, <2>1, <2>3, <2>5 DEF Same, InTimed
  <2> QED BY <2>4, <2>5
<1> QED BY <1>4, <1>5, <1>6

\* Who was passed stays passed until the callout is taken back, or nothing more is called out.
LEMMA MainSwept ==
  ASSUME TypeInv, Undisturbed(self), SignalledWhenDue, MainStep, NEW r \in Strand,
         callouts[GroupOf[r]] = "due", callouts'[GroupOf[r]] = "due",
         Swept(r) \/ NoMoreCallouts \/ (mpc = "set" /\ r = idx)
  PROVE  Swept(r)' \/ NoMoreCallouts'
<1>1. /\ Role = "master" /\ back \in {"poll", "drain", "barrier", "waited"} /\ back # "waited"
      /\ idx \in Nat /\ r \in Nat /\ globalError \in Nat /\ GroupOf[r] \in Group
      /\ mpc \in Signalling => scope \in Group /\ scope = grp
      /\ mpc = "set" => GroupOf[idx] = scope
      /\ callouts \in [Group -> {"none", "set", "due"}] /\ mpc \notin {"unlock", "waited"}
  BY StrandsGroups DEF TypeInv, MainTypes, SharedTypes, Undisturbed, Role, SignalledWhenDue
<1> USE <1>1 DEF Swept, NoMoreCallouts, Signalling
<1>2. CASE Callout
  BY <1>2 DEF Callout
<1>3. CASE Mark
  BY <1>3 DEF Mark, shmVars
<1>4. CASE Set
  BY <1>4 DEF Set, shmVars
<1>5. CASE Signal
  <2>1. mpc = "signal" /\ UNCHANGED <<mpc, scope, globalError>>
    BY <1>5 DEF Signal, shmVars
  <2> QED BY <2>1
<1>6. CASE Again
  <2>1. mpc = "signal" /\ mpc' \in {"signal", "check"} /\ UNCHANGED <<scope, globalError>>
    BY <1>6 DEF Again, shmVars
  <2> QED BY <2>1
<1>7. CASE CheckCallout
  <2>1. CASE NotResponding
    <3>1. globalError' = globalError + 1 /\ mpc' = back
      BY <1>7, <2>1 DEF CheckCallout
    <3> QED BY <3>1
  <2>2. CASE ~NotResponding
    <3>1. mpc = "check" /\ callouts' = [callouts EXCEPT ![grp] = "none"]
      BY <1>7, <2>2 DEF CheckCallout, CalledOut
    <3>2. grp = GroupOf[r]
      BY <3>1
    <3> QED BY <3>1, <3>2
  <2> QED BY <2>1, <2>2
<1>8. CASE MasterPoll \/ MasterDrain
  BY <1>8 DEF MasterPoll, MasterDrain, shmVars
<1>9. CASE MasterBarrier \/ Join
  BY <1>9 DEF MasterBarrier, Join, shmVars
<1>10. ~SlaveAborts /\ ~SlaveCommand /\ ~SlaveIdle /\ ~SlaveUnlock /\ ~SlaveWaited
  BY DEF SlaveAborts, SlaveCommand, SlaveIdle, SlaveUnlock, SlaveWaited
<1>11. ~SlaveSignalled
  BY DEF SlaveSignalled, Group, All
<1> QED BY <1>2, <1>3, <1>4, <1>5, <1>6, <1>7, <1>8, <1>9, <1>10, <1>11 DEF MainStep, CalloutStep

\* A strand that is to be signalled has come to the barrier of the duration, is not at that
\* barrier any more and has not come past: it is in the duration.
LEMMA MarksInDuration ==
  ASSUME TypeInv, Barriers, Schedule, Sweep, Undisturbed(self), Mark, mpc' = "set"
  PROVE  InTimed(idx) /\ pc[idx] \notin {"arrive", "wait"}
<1>1. SweptOnce /\ SignalledWhenDue /\ CalloutHasBegun
  BY DEF Schedule, Sweep
<1>2. mpc = "mark" /\ idx \in Strand /\ ~AtBarrier(idx) /\ InScope(idx) /\ idx' = idx
  <2>1. NStrand \in Nat /\ idx \in 1 .. NStrand + 1
    BY StrandsGroups DEF TypeInv, MainTypes
  <2> QED BY <2>1 DEF Mark, Strand
<1>3. PICK s \in Strand : s = idx
  BY <1>2
<1>4. GroupOf[s] = scope /\ GroupOf[s] \in Group /\ callouts[GroupOf[s]] = "due"
  BY <1>1, <1>2, <1>3 DEF InScope, SignalledWhenDue, Signalling, Group, All
<1>5. ~Out(s)
  <2>1. ~Swept(s) /\ ~NoMoreCallouts
    BY <1>2, <1>3 DEF Swept, NoMoreCallouts, Strand
  <2> QED BY <1>1, <1>4, <2>1 DEF SweptOnce
<1>6. PICK n \in Barrier : Timed(GroupOf[s], n) /\ HasArrived(s, n)
  <2>1. Began(GroupOf[s]) /\ s \in Members(GroupOf[s])
    BY <1>1, <1>4 DEF CalloutHasBegun, Members
  <2> QED BY <1>4, <2>1, BegunByAll
<1>7. txn[s] = n /\ pc[s] # "arrive"
  BY <1>5, <1>6 DEF HasArrived, Out, Past
<1>8. pc[s] # "wait"
  BY <1>2, <1>3 DEF Barriers, WaitIsVisible
<1> QED BY <1>3, <1>6, <1>7, <1>8 DEF InTimed

LEMMA MainSweep ==
  ASSUME TypeInv, Barriers, Schedule, Sweep, Undisturbed(self), MainStep
  PROVE  SweptOnce' /\ FlagInDuration' /\ SetInDuration'
<1>1. SweptOnce /\ FlagInDuration /\ SetInDuration /\ SignalledWhenDue /\ OutWhenDue
  BY DEF Schedule, Sweep
<1>2. self' = self /\ txn' = txn /\ pc' = pc
  BY MainDoes DEF strandVars
<1>3. \A s \in Strand : InTimed(s)' <=> InTimed(s)
  BY <1>2, Rigid DEF InTimed
<1>4. SweptOnce'
  <2> SUFFICES ASSUME NEW r \in Strand, Out(r)', callouts'[GroupOf[r]] = "due" PROVE Swept(r)' \/ NoMoreCallouts'
    BY DEF SweptOnce
  <2>1. callouts[GroupOf[r]] = "due"
    <3>1. callouts \in [Group -> {"none", "set", "due"}] /\ GroupOf[r] \in Group
      BY StrandsGroups DEF TypeInv, SharedTypes
    <3> QED BY <3>1, MainDoes
  <2>2. Swept(r) \/ NoMoreCallouts \/ (mpc = "set" /\ r = idx)
    BY <1>1, <2>1, MainOutside DEF SweptOnce
  <2> QED BY <1>1, <2>1, <2>2, MainSwept
<1>5. FlagInDuration'
  <2> SUFFICES ASSUME NEW r \in Strand, signalled'[r] PROVE InTimed(r)' /\ pc'[r] \notin {"arrive", "wait"}
    BY DEF FlagInDuration
  <2>1. signalled[r] \/ (mpc = "set" /\ r = idx)
    BY MainDoes
  <2>2. InTimed(r) /\ pc[r] \notin {"arrive", "wait"}
    BY <1>1, <2>1 DEF FlagInDuration, SetInDuration
  <2> QED BY <1>2, <1>3, <2>2
<1>6. SetInDuration'
  <2> SUFFICES ASSUME mpc' = "set" PROVE InTimed(idx)' /\ pc'[idx'] \notin {"arrive", "wait"}
    BY DEF SetInDuration
  <2>1. Mark /\ idx' = idx
    <3>1. CASE Mark
      BY <3>1 DEF Mark
    <3>2. CASE Callout
      BY <3>2 DEF Callout, StartSignalling, TypeInv, MainTypes
    <3>3. CASE Set \/ Signal \/ Again
      BY <3>3 DEF Set, Signal, Again
    <3>4. CASE CheckCallout
      BY <3>4 DEF CheckCallout, TypeInv, MainTypes
    <3>5. CASE MasterPoll \/ MasterBarrier \/ MasterDrain \/ SlaveAborts \/ SlaveCommand \/ SlaveIdle
      BY <3>5 DEF MasterPoll, MasterBarrier, MasterDrain, SlaveAborts, SlaveCommand, SlaveIdle, StartCallouts
    <3>6. CASE SlaveUnlock \/ SlaveSignalled \/ SlaveWaited \/ Join
      BY <3>6 DEF SlaveUnlock, SlaveSignalled, SlaveWaited, Join, StartCallouts, StartSignalling
    <3> QED BY <3>1, <3>2, <3>3, <3>4, <3>5, <3>6 DEF MainStep, CalloutStep
  <2>2. InTimed(idx) /\ pc[idx] \notin {"arrive", "wait"}
    BY <2>1, MarksInDuration
  <2> QED BY <1>2, <2>1, <2>2, Rigid DEF InTimed
<1> QED BY <1>4, <1>5, <1>6

LEMMA StepSweep == TypeInv /\ Barriers /\ Schedule /\ Sweep /\ [Next]_vars => Sweep'
<1> SUFFICES ASSUME TypeInv, Barriers, Schedule, Sweep, [Next]_vars, Undisturbed(self)'
             PROVE  SweptOnce' /\ FlagInDuration' /\ SetInDuration'
  BY DEF Sweep
<1>1. self' = self
  BY OthersSame, MainDoes DEF Next, Terminated, Due, vars, mainVars
<1>2. Undisturbed(self) /\ SweptOnce /\ FlagInDuration /\ SetInDuration /\ OutWhenDue
  BY <1>1, Rigid DEF Sweep, Schedule
<1>3. CASE \E s \in Strand : StrandStep(s) \/ Return(s) \/ Deliver(s)
  BY <1>2, <1>3, StrandSweep
<1>4. CASE MainStep
  BY <1>2, <1>4, MainSweep
<1>5. ASSUME UNCHANGED <<strandVars, signalVars, globalError, mainVars>>,
             callouts' = callouts \/ \E g \in Group : callouts[g] = "set" /\ callouts' = [callouts EXCEPT ![g] = "due"]
      PROVE  SweptOnce' /\ FlagInDuration' /\ SetInDuration'
  <2>1. Barrier' = Barrier /\ \A g, n : Timed(g, n)' <=> Timed(g, n)
    BY <1>1, Rigid
  <2>2. /\ \A r \in Strand : (Out(r)' <=> Out(r)) /\ (InTimed(r)' <=> InTimed(r)) /\ (Swept(r)' <=> Swept(r))
        /\ NoMoreCallouts' <=> NoMoreCallouts
    BY <1>5, <2>1
       DEF Out, Touched, Past, Left, InTimed, Swept, NoMoreCallouts, strandVars, work, signalVars, mainVars, callVars
  <2>3. callouts \in [Group -> {"none", "set", "due"}] /\ \A r \in Strand : GroupOf[r] \in Group
    BY StrandsGroups DEF TypeInv, SharedTypes
  <2>4. SweptOnce'
    <3> SUFFICES ASSUME NEW r \in Strand, Out(r)', callouts'[GroupOf[r]] = "due" PROVE Swept(r)' \/ NoMoreCallouts'
      BY DEF SweptOnce
    <3>1. Out(r) /\ callouts[GroupOf[r]] # "set"
      BY <1>2, <2>2 DEF OutWhenDue
    <3>2. callouts[GroupOf[r]] = "due"
      BY <1>5, <2>3, <3>1
    <3> QED BY <1>2, <2>2, <3>1, <3>2 DEF SweptOnce
  <2>5. FlagInDuration'
    BY <1>2, <1>5, <2>2 DEF FlagInDuration, strandVars, signalVars
  <2>6. SetInDuration'
    BY <1>2, <1>5, <2>1 DEF SetInDuration, InTimed, strandVars, mainVars, callVars
  <2> QED BY <2>4, <2>5, <2>6
<1>6. CASE \E g \in Group : Due(g)
  BY <1>5, <1>6 DEF Due
<1>7. CASE UNCHANGED vars
  BY <1>5, <1>7 DEF vars, shmVars
<1> QED BY <1>3, <1>4, <1>6, <1>7 DEF Next, Terminated

Signals == Timing /\ Sweep

LEMMA InitSignals == Init => Signals
BY InitTiming, InitSweep DEF Signals, Timing

LEMMA StepSignals == Signals /\ [Next]_vars => Signals'
BY StepTiming, StepSweep DEF Signals, Timing

\* A strand of a master comes to the next transaction with a clean flag, although
\* signal_all_strands writes it a step after it read the strand's state, and the strand
\* clears it without a lock: a strand that is signalled was not signalled before, and
\* leaves the duration in no other way, unless it fails and leaves the run.
THEOREM SignalsStay == (\A p \in Processes : Undisturbed(p)) /\ Spec => []NoStaleSignal
<1> DEFINE Masters == \A p \in Processes : Undisturbed(p)
<1>1. Masters /\ Signals => NoStaleSignal
  BY DEF Signals, Timing, TypeInv, Sweep, FlagInDuration, NoStaleSignal
<1>2. Masters /\ Signals /\ [Next]_vars => Masters' /\ Signals'
  BY StepSignals
<1> HIDE DEF Masters
<1>3. Masters /\ Spec => []NoStaleSignal
  BY <1>1, <1>2, InitSignals, PTL DEF Spec
<1> QED BY <1>3 DEF Masters

-----------------------------------------------------------------------------
(* What the main thread can rely on                                         *)

\* A strand in a transaction is not taken for one at a barrier, ...
RunningIsVisible ==
  \A s \in Strand : pc[s] \in {"begin", "flowop", "call", "blocked", "after", "clear"} => ~AtBarrier(s)

\* ... and one that has ended with a failure was counted.
FailedIsCounted == \A s \in Strand : pc[s] = "done" /\ result[s] = "failure" => globalError > 0

Visible == RunningIsVisible /\ FailedIsCounted

LEMMA InitVisible == Init => Visible
BY DEF Init, Visible, RunningIsVisible, FailedIsCounted

LEMMA StrandVisible ==
  ASSUME TypeInv, Visible, NEW s \in Strand, StrandStep(s) \/ Return(s) \/ Deliver(s)
  PROVE  Visible'
<1>1. /\ state \in [Strand -> {"AT_BARRIER", "EXECUTING", "EXIT"}] /\ globalError \in Nat
      /\ \A r \in Strand \ {s} : Same(r)
  BY OthersSame DEF TypeInv, StrandTypes, SharedTypes
<1>2. pc[s] \in {"begin", "flowop", "call", "blocked", "after", "clear"} => ~AtBarrier(s)
  BY DEF Visible, RunningIsVisible
<1>3. pc[s] = "done" /\ result[s] = "failure" => globalError > 0
  BY DEF Visible, FailedIsCounted
<1>4. pc'[s] \in {"begin", "flowop", "call", "blocked", "after", "clear"} => ~AtBarrier(s)'
  <2>1. CASE Arrive(s)
    BY <2>1, ArriveDoes
  <2>2. CASE Pass(s)
    <3>1. CASE globalError > 1
      BY <2>2, <3>1, <1>1, PassDoes
    <3>2. CASE ~(globalError > 1)
      <4>1. state' = [state EXCEPT ![s] = "EXECUTING"]
        BY <2>2, <3>2 DEF Pass
      <4> QED BY <1>1, <4>1 DEF AtBarrier
    <3> QED BY <3>1, <3>2
  <2>3. CASE Exit(s)
    BY <2>3, ExitDoes
  <2>4. CASE ~Arrive(s) /\ ~Pass(s) /\ ~Exit(s)
    <3>1. state' = state
      BY <2>4 DEF StrandStep, Begin, Flowop, EnterCall, After, Clear, Return, Deliver
    <3>2. pc'[s] \in {"begin", "flowop", "call", "blocked", "after", "clear"} =>
            pc[s] \in {"begin", "flowop", "call", "blocked", "after", "clear"}
      BY <2>4, BeginDoes, FlowopDoes, EnterCallDoes, AfterDoes, ClearDoes, ReturnDoes, DeliverDoes DEF StrandStep
    <3> QED BY <1>2, <3>1, <3>2 DEF AtBarrier
  <2> QED BY <2>1, <2>2, <2>3, <2>4
<1>5. globalError' >= globalError /\ globalError' \in Nat
  <2>1. CASE Exit(s)
    <3>1. globalError' = globalError + (IF result[s] = "failure" THEN 1 ELSE 0)
      BY <2>1, ExitDoes
    <3>2. globalError' = globalError \/ globalError' = globalError + 1
      BY <1>1, <3>1
    <3> QED BY <1>1, <3>2
  <2>2. CASE ~Exit(s)
    <3>1. globalError' = globalError
      BY <2>2, ArriveDoes, PassDoes, BeginDoes, FlowopDoes, EnterCallDoes, AfterDoes, ClearDoes, ReturnDoes, DeliverDoes
         DEF StrandStep
    <3> QED BY <1>1, <3>1
  <2> QED BY <2>1, <2>2
<1>6. pc'[s] = "done" /\ result'[s] = "failure" => globalError' > 0
  <2>1. CASE Exit(s)
    BY <1>1, <2>1, ExitDoes
  <2>2. CASE Deliver(s)
    BY <1>1, <1>3, <1>5, <2>2, DeliverDoes
  <2>3. CASE Arrive(s) \/ Pass(s) \/ Begin(s) \/ Flowop(s)
    BY <2>3, ArriveDoes, PassDoes, BeginDoes, FlowopDoes
  <2>4. CASE EnterCall(s) \/ After(s) \/ Clear(s) \/ Return(s)
    BY <2>4, EnterCallDoes, AfterDoes, ClearDoes, ReturnDoes
  <2> QED BY <2>1, <2>2, <2>3, <2>4 DEF StrandStep
<1>7. RunningIsVisible'
  BY <1>1, <1>4 DEF Visible, RunningIsVisible, Same, AtBarrier
<1>8. FailedIsCounted'
  BY <1>1, <1>5, <1>6 DEF Visible, FailedIsCounted, Same
<1> QED BY <1>7, <1>8 DEF Visible

LEMMA StepVisible == TypeInv /\ Visible /\ [Next]_vars => Visible'
<1> SUFFICES ASSUME TypeInv, Visible, [Next]_vars PROVE Visible'
  OBVIOUS
<1>1. CASE \E s \in Strand : StrandStep(s) \/ Return(s) \/ Deliver(s)
  BY <1>1, StrandVisible
<1>2. ASSUME UNCHANGED strandVars, globalError' >= globalError PROVE Visible'
  <2>1. globalError \in Nat /\ globalError' \in Nat
    BY StepOK DEF TypeInv, SharedTypes
  <2> QED BY <1>2, <2>1 DEF Visible, RunningIsVisible, FailedIsCounted, AtBarrier, strandVars, work
<1>3. CASE MainStep
  BY <1>2, <1>3, MainDoes
<1>4. CASE (\E g \in Group : Due(g)) \/ UNCHANGED vars
  <2>1. globalError \in Nat
    BY DEF TypeInv, SharedTypes
  <2> QED BY <1>2, <1>4, <2>1 DEF Due, vars, shmVars
<1> QED BY <1>1, <1>3, <1>4 DEF Next, Terminated

\* A strand that ended while it was signalled, or before, did not end with the duration.
EndedFailing == \A s \in Strand : signalled[s] /\ pc[s] \in {"exit", "done"} => result[s] = "failure" \/ globalError > 1

Failing == Undisturbed(self) => EndedFailing

LEMMA StepFailing == Signals /\ Failing /\ [Next]_vars => Failing'
<1> SUFFICES ASSUME Signals, Failing, [Next]_vars, Undisturbed(self)' PROVE EndedFailing'
  BY DEF Failing
<1>1. TypeInv /\ Schedule /\ Sweep /\ globalError \in Nat /\ globalError' \in Nat
  BY StepOK DEF Signals, Timing, TypeInv, SharedTypes
<1>2. self' = self
  BY <1>1, OthersSame, MainDoes DEF Next, Terminated, Due, vars, mainVars
<1>3. Undisturbed(self) /\ EndedFailing /\ SweptOnce /\ FlagInDuration /\ SetInDuration /\ SignalledWhenDue
  BY <1>2, Rigid DEF Failing, Schedule, Signals, Timing, Sweep
<1>4. CASE \E s \in Strand : StrandStep(s) \/ Return(s) \/ Deliver(s)
  <2>1. PICK s \in Strand : StrandStep(s) \/ Return(s) \/ Deliver(s)
    BY <1>4
  <2>2. /\ globalError' >= globalError /\ \A r \in Strand \ {s} : Same(r)
        /\ signalled'[s] => signalled[s]
    BY <1>1, <1>3, <2>1, OutsideStays, OthersSame, StrandsDoNotSignal
  <2>3. signalled'[s] /\ pc'[s] \in {"exit", "done"} => result'[s] = "failure" \/ globalError' > 1
    <3> SUFFICES ASSUME signalled'[s], pc'[s] \in {"exit", "done"} PROVE result'[s] = "failure" \/ globalError' > 1
      OBVIOUS
    <3>1. signalled[s] /\ pc[s] # "wait"
      BY <1>3, <2>2 DEF FlagInDuration
    <3>2. pc[s] \in {"exit", "done"} /\ result'[s] = result[s]
      <4>1. ~Clear(s)
        BY <1>1, ClearDoes
      <4> QED BY <1>1, <2>1, <3>1, <4>1, OtherwiseStays
    <3> QED BY <1>1, <1>3, <2>2, <3>1, <3>2 DEF EndedFailing
  <2> QED BY <1>1, <1>3, <2>2, <2>3 DEF EndedFailing, Same
<1>5. CASE MainStep
  <2>1. /\ pc' = pc /\ result' = result /\ globalError' >= globalError
        /\ \A r \in Strand : signalled'[r] = signalled[r] \/ (mpc = "set" /\ r = idx)
    BY <1>1, <1>5, MainDoes DEF strandVars, work
  <2>2. ASSUME NEW r \in Strand, mpc = "set", r = idx, pc[r] \in {"exit", "done"}
        PROVE  result[r] = "failure" \/ globalError > 1
    <3>1. ~Out(r)
      <4>1. callouts[GroupOf[r]] = "due" /\ ~Swept(r) /\ ~NoMoreCallouts
        BY <1>3, <2>2 DEF SignalledWhenDue, Signalling, Swept, NoMoreCallouts, Strand
      <4> QED BY <1>3, <4>1 DEF SweptOnce
    <3>2. InTimed(r)
      BY <1>3, <2>2 DEF SetInDuration
    <3> QED BY <1>1, <2>2, <3>1, <3>2 DEF Out, Left
  <2> QED BY <1>1, <1>3, <2>1, <2>2 DEF EndedFailing
<1>6. CASE (\E g \in Group : Due(g)) \/ UNCHANGED vars
  <2>1. UNCHANGED <<strandVars, signalVars, globalError>>
    BY <1>6 DEF Due, vars, shmVars
  <2> QED BY <1>3, <2>1 DEF EndedFailing, strandVars, work, signalVars
<1> QED BY <1>4, <1>5, <1>6 DEF Next, Terminated

-----------------------------------------------------------------------------
(* The rounds of signal_all_strands                                         *)

\* A strand that is still signalled in the second round of signals is in no flowop that
\* it has not entered before the first, and is signalled again, so that after the second
\* round only a strand that has ended is left.
RoundsOf(s) ==
  /\ retries = Retries - 1 /\ idx > 1 => pc[s] # "call" /\ (pc[s] = "blocked" => idx <= s \/ pending[s])
  /\ retries < Retries - 1 /\ idx = 1 => pc[s] # "call" /\ (pc[s] = "blocked" => pending[s])
  /\ retries < Retries - 1 /\ idx > 1 => pc[s] = "done"

Rounds ==
  /\ mpc \in {"mark", "set"} => retries = Retries
  /\ mpc = "signal" => \A s \in Strand : signalled[s] => RoundsOf(s)
  /\ mpc = "signal" /\ retries < Retries - 1 /\ noSignalled > 0 => globalError > 0
  /\ mpc = "check" /\ retries < 0 /\ noSignalled > 0 => globalError > 0

\* There are three rounds at least, and 200ms between them are enough for a strand.
EnoughRounds(p) == Prompt /\ p.retries >= 2

Rounded == Undisturbed(self) /\ EnoughRounds(self) => Rounds

LEMMA InitRounds == Init => Rounded
BY DEF Init, Rounded, Rounds

LEMMA StrandRounds ==
  ASSUME Signals, Rounds, Undisturbed(self), NEW s \in Strand, StrandStep(s) \/ Return(s) \/ Deliver(s)
  PROVE  Rounds'
<1>1. /\ TypeInv /\ FlagInDuration
      /\ UNCHANGED mainVars /\ \A r \in Strand \ {s} : Same(r)
      /\ \A r \in Strand : signalled'[r] => signalled[r]
      /\ globalError \in Nat /\ globalError' \in Nat /\ globalError' >= globalError
  BY OthersSame, StrandsDoNotSignal, OutsideStays, StrandStepOK DEF Signals, Timing, TypeInv, SharedTypes, Sweep
<1>2. UNCHANGED <<mpc, idx, retries, noSignalled>> /\ Retries' = Retries
  BY <1>1, SameProcess DEF mainVars, callVars
<1>3. ASSUME signalled[s], mpc = "signal" PROVE RoundsOf(s)'
  <2>1. RoundsOf(s) /\ pc[s] \notin {"arrive", "wait"}
    BY <1>1, <1>3 DEF Rounds, FlagInDuration
  <2>2. /\ pc'[s] = "call" => pc[s] = "call"
        /\ pc'[s] = "blocked" => pc[s] = "call" \/ (pc[s] = "blocked" /\ (pending[s] => pending'[s]))
        /\ pc[s] = "done" => pc'[s] = "done"
    <3>1. CASE Deliver(s)
      BY <1>1, <3>1, DeliverDoes
    <3>2. CASE Return(s)
      BY <1>1, <3>2, ReturnDoes
    <3>3. CASE Flowop(s)
      BY <1>1, <1>3, <3>3, FlowopDoes
    <3>4. CASE Arrive(s) \/ Pass(s) \/ Exit(s)
      BY <1>1, <2>1, <3>4, ArriveDoes, PassDoes, ExitDoes
    <3>5. CASE Begin(s) \/ EnterCall(s) \/ After(s) \/ Clear(s)
      BY <1>1, <3>5, BeginDoes, EnterCallDoes, AfterDoes, ClearDoes
    <3> QED BY <3>1, <3>2, <3>3, <3>4, <3>5 DEF StrandStep
  <2>3. retries = Retries - 1 /\ idx > 1 => pc'[s] # "call" /\ (pc'[s] = "blocked" => idx <= s \/ pending'[s])
    BY <2>1, <2>2 DEF RoundsOf
  <2>4. retries < Retries - 1 /\ idx = 1 => pc'[s] # "call" /\ (pc'[s] = "blocked" => pending'[s])
    BY <2>1, <2>2 DEF RoundsOf
  <2>5. retries < Retries - 1 /\ idx > 1 => pc'[s] = "done"
    BY <2>1, <2>2 DEF RoundsOf
  <2> QED BY <1>2, <2>3, <2>4, <2>5 DEF RoundsOf
<1>4. ASSUME NEW r \in Strand \ {s}, RoundsOf(r) PROVE RoundsOf(r)'
  BY <1>1, <1>2, <1>4 DEF RoundsOf, Same
<1>5. (mpc = "signal" => \A r \in Strand : signalled[r] => RoundsOf(r))'
  BY <1>1, <1>2, <1>3, <1>4 DEF Rounds
<1> QED BY <1>1, <1>2, <1>5 DEF Rounds

\* The main thread waits before each round but the first.
LEMMA SignalRounds ==
  ASSUME Signals, Visible, Failing, Rounds, Undisturbed(self), EnoughRounds(self), Signal
  PROVE  Rounds'
<1>1. TypeInv /\ FlagInDuration /\ EndedFailing /\ FailedIsCounted /\ RunningIsVisible
  BY DEF Signals, Timing, Sweep, Failing, Visible
<1>2. /\ mpc = "signal" /\ mpc' = mpc /\ retries' = retries /\ idx' = idx + 1 /\ idx <= NStrand
      /\ globalError' = globalError /\ pc' = pc /\ signalled' = signalled /\ Retries' = Retries
  BY SameProcess DEF Signal, strandVars, shmVars
<1>3. /\ idx \in Nat /\ idx >= 1 /\ retries \in Int /\ retries <= Retries /\ Retries \in Nat
      /\ idx \in Strand /\ (\A s \in Strand : s \in Nat /\ s >= 1) /\ noSignalled \in Nat /\ globalError \in Nat
      /\ pending \in [Strand -> BOOLEAN]
  <2>1. NStrand \in Nat /\ Retries \in Nat
    BY <1>1, StrandsGroups, LongestList DEF TypeInv
  <2>2. idx \in 1 .. NStrand + 1 /\ retries \in -1 .. Retries /\ noSignalled \in 0 .. NStrand
    BY <1>1 DEF TypeInv, MainTypes
  <2>3. globalError \in Nat /\ pending \in [Strand -> BOOLEAN]
    BY <1>1 DEF TypeInv, SharedTypes
  <2> QED BY <1>2, <2>1, <2>2, <2>3 DEF Strand
<1>4. \A s \in Strand : signalled[s] => RoundsOf(s) /\ pc[s] \notin {"arrive", "wait"}
  BY <1>1, <1>2 DEF Rounds, FlagInDuration
<1>5. idx = 1 /\ retries < Retries => \A s \in Strand : signalled[s] => ~pending[s] /\ pc[s] \in {"blocked", "wait", "done"}
  BY DEF Signal, Breather, EnoughRounds
<1>6. ASSUME NEW s \in Strand, signalled[s], retries < Retries - 1 PROVE pc[s] = "done"
  <2>1. CASE idx = 1
    <3>1. ~pending[s] /\ pc[s] \in {"blocked", "wait", "done"}
      BY <1>3, <1>5, <1>6, <2>1
    <3>2. pc[s] # "wait" /\ (pc[s] = "blocked" => pending[s])
      BY <1>4, <1>6, <2>1 DEF RoundsOf
    <3> QED BY <3>1, <3>2
  <2>2. CASE idx > 1
    BY <1>4, <1>6, <2>2 DEF RoundsOf
  <2> QED BY <1>3, <2>1, <2>2
<1>7. (\A s \in Strand : pending[s] => pending'[s]) /\ (signalled[idx] /\ pc[idx] = "blocked" => pending'[idx])
  <2>1. CASE AtBarrier(idx) \/ ~signalled[idx] \/ pc[idx] = "done"
    <3>1. pending' = pending
      BY <2>1 DEF Signal
    <3> QED BY <1>1, <1>3, <2>1, <3>1 DEF RunningIsVisible
  <2>2. CASE ~(AtBarrier(idx) \/ ~signalled[idx] \/ pc[idx] = "done")
    <3>1. pending' = [pending EXCEPT ![idx] = TRUE]
      BY <2>2 DEF Signal
    <3> QED BY <1>3, <3>1
  <2> QED BY <2>1, <2>2
<1>8. ASSUME NEW s \in Strand, signalled[s], retries = Retries - 1
      PROVE  pc[s] # "call" /\ (pc[s] = "blocked" => idx + 1 <= s \/ pending'[s])
  <2>1. CASE idx = 1
    <3>1. pc[s] \in {"blocked", "wait", "done"}
      BY <1>3, <1>5, <1>8, <2>1
    <3>2. s = idx \/ idx + 1 <= s
      BY <1>3, <2>1
    <3> QED BY <1>7, <1>8, <3>1, <3>2
  <2>2. CASE idx > 1
    <3>1. pc[s] # "call" /\ (pc[s] = "blocked" => idx <= s \/ pending[s])
      BY <1>4, <1>8, <2>2 DEF RoundsOf
    <3>2. idx <= s => s = idx \/ idx + 1 <= s
      BY <1>3
    <3> QED BY <1>7, <1>8, <3>1, <3>2
  <2> QED BY <1>3, <2>1, <2>2
<1>9. \A s \in Strand : signalled[s] => RoundsOf(s)'
  <2> SUFFICES ASSUME NEW s \in Strand, signalled[s] PROVE RoundsOf(s)'
    OBVIOUS
  <2>1. retries' = Retries' - 1 => pc'[s] # "call" /\ (pc'[s] = "blocked" => idx' <= s \/ pending'[s])
    BY <1>2, <1>8
  <2>2. retries' < Retries' - 1 => pc'[s] = "done"
    BY <1>2, <1>6
  <2> QED BY <2>1, <2>2 DEF RoundsOf
<1>10. retries < Retries - 1 /\ noSignalled' > 0 => globalError > 0
  <2> SUFFICES ASSUME retries < Retries - 1, noSignalled' > 0 PROVE globalError > 0
    OBVIOUS
  <2>1. CASE noSignalled > 0
    BY <1>2, <2>1 DEF Rounds
  <2>2. CASE ~(noSignalled > 0)
    <3>1. signalled[idx]
      BY <1>3, <2>2 DEF Signal
    <3>2. pc[idx] = "done"
      BY <1>3, <1>6, <3>1
    <3>3. result[idx] = "failure" \/ globalError > 1
      BY <1>1, <1>3, <3>1, <3>2 DEF EndedFailing
    <3> QED BY <1>1, <1>3, <3>2, <3>3 DEF FailedIsCounted
  <2> QED BY <2>1, <2>2
<1> QED BY <1>2, <1>9, <1>10 DEF Rounds

LEMMA AgainRounds ==
  ASSUME Signals, Rounds, Undisturbed(self), EnoughRounds(self), Again
  PROVE  Rounds'
<1>1. TypeInv
  BY DEF Signals, Timing
<1>2. /\ mpc = "signal" /\ idx > NStrand /\ pc' = pc /\ signalled' = signalled /\ pending' = pending
      /\ globalError' = globalError /\ Retries' = Retries
      /\ retries' = IF noSignalled > 0 THEN retries - 1 ELSE retries
  BY SameProcess DEF Again, strandVars, signalVars, shmVars
<1>3. /\ NStrand \in Nat /\ NStrand >= 1 /\ idx \in Nat /\ retries \in Int /\ retries <= Retries /\ retries >= 0
      /\ Retries \in Nat /\ Retries >= 2 /\ noSignalled \in Nat /\ \A s \in Strand : s \in Nat /\ s <= NStrand
  <2>1. NStrand \in Nat \ {0} /\ Retries \in Nat /\ \A s \in Strand : s \in Nat /\ s <= NStrand
    BY <1>1, StrandsGroups, LongestList DEF TypeInv
  <2>2. idx \in 1 .. NStrand + 1 /\ retries \in -1 .. Retries /\ noSignalled \in 0 .. NStrand /\ retries >= 0
    BY <1>1, <1>2 DEF TypeInv, MainTypes, LoopsInRange
  <2> QED BY <2>1, <2>2 DEF EnoughRounds, Retries
<1>4. CASE noSignalled > 0 /\ retries > 0
  <2>1. idx' = 1 /\ noSignalled' = 0 /\ mpc' = "signal" /\ retries' = retries - 1
    BY <1>2, <1>4 DEF Again
  <2>2. ASSUME NEW s \in Strand, signalled[s], retries - 1 < Retries - 1
        PROVE  pc[s] # "call" /\ (pc[s] = "blocked" => pending[s])
    <3>1. RoundsOf(s) /\ idx > 1 /\ ~(idx <= s)
      BY <1>2, <1>3, <2>2 DEF Rounds
    <3>2. CASE retries = Retries - 1
      BY <3>1, <3>2 DEF RoundsOf
    <3>3. CASE retries < Retries - 1
      BY <3>1, <3>3 DEF RoundsOf
    <3> QED BY <1>3, <2>2, <3>2, <3>3
  <2>3. \A s \in Strand : signalled[s] => RoundsOf(s)'
    BY <1>2, <2>1, <2>2 DEF RoundsOf
  <2> QED BY <1>2, <2>1, <2>3 DEF Rounds
<1>5. CASE ~(noSignalled > 0 /\ retries > 0)
  <2>1. mpc' = "check" /\ noSignalled' = noSignalled
    BY <1>2, <1>5 DEF Again
  <2>2. noSignalled > 0 => retries < Retries - 1
    BY <1>3, <1>5
  <2>3. noSignalled > 0 => globalError > 0
    BY <1>2, <2>2 DEF Rounds
  <2> QED BY <1>2, <2>1, <2>3 DEF Rounds
<1> QED BY <1>4, <1>5

LEMMA MainRounds ==
  ASSUME Signals, Visible, Failing, Rounds, Undisturbed(self), EnoughRounds(self), MainStep
  PROVE  Rounds'
<1>1. TypeInv /\ SignalledWhenDue
  BY DEF Signals, Timing, Schedule
<1>2. Retries' = Retries /\ pc' = pc
  BY <1>1, MainDoes, SameProcess DEF strandVars
<1>3. ASSUME mpc' \notin {"mark", "set", "signal", "check"} PROVE Rounds'
  BY <1>3 DEF Rounds
<1>4. CASE Signal
  BY <1>4, SignalRounds
<1>5. CASE Again
  BY <1>5, AgainRounds
<1>6. CASE Callout
  <2>1. CASE mpc' = "mark"
    <3>1. retries' = Retries
      BY <1>1, <1>6, <2>1 DEF Callout, StartSignalling, TypeInv, MainTypes
    <3> QED BY <1>2, <2>1, <3>1 DEF Rounds
  <2>2. CASE mpc' # "mark"
    BY <1>1, <1>3, <1>6, <2>2 DEF Callout, StartSignalling, TypeInv, MainTypes
  <2> QED BY <2>1, <2>2
<1>7. CASE Mark
  <2>1. mpc = "mark" /\ retries' = retries /\ retries = Retries
    BY <1>7 DEF Mark, Rounds
  <2>2. CASE mpc' = "signal"
    <3>1. Retries \in Nat
      BY <1>1, LongestList DEF TypeInv
    <3>2. ~(retries' = Retries - 1) /\ ~(retries' < Retries - 1)
      BY <2>1, <3>1
    <3>3. \A s \in Strand : RoundsOf(s)'
      BY <1>2, <3>2 DEF RoundsOf
    <3> QED BY <1>2, <2>2, <3>2, <3>3 DEF Rounds
  <2>3. CASE mpc' # "signal"
    <3>1. mpc' \in {"mark", "set"}
      BY <1>7, <2>3 DEF Mark
    <3> QED BY <1>2, <2>1, <3>1 DEF Rounds
  <2> QED BY <2>2, <2>3
<1>8. CASE Set
  <2>1. mpc = "set" /\ mpc' = "mark" /\ retries' = retries
    BY <1>8 DEF Set
  <2> QED BY <1>2, <2>1 DEF Rounds
<1>9. CASE CheckCallout
  <2>1. mpc' = back \/ mpc' = "callout"
    BY <1>9 DEF CheckCallout
  <2> QED BY <1>1, <1>3, <2>1 DEF TypeInv, MainTypes
<1>10. CASE MasterPoll \/ MasterBarrier \/ MasterDrain \/ Join
  <2>1. mpc' \notin {"mark", "set", "signal", "check"}
    BY <1>10 DEF MasterPoll, MasterBarrier, MasterDrain, Join, StartCallouts
  <2> QED BY <1>3, <2>1
<1>11. Role = "master"
  BY DEF Undisturbed, Role
<1>12. ~SlaveAborts /\ ~SlaveCommand /\ ~SlaveIdle /\ ~SlaveUnlock /\ ~SlaveWaited
  BY <1>1, <1>11 DEF SlaveAborts, SlaveCommand, SlaveIdle, SlaveUnlock, SlaveWaited, SignalledWhenDue
<1>13. ~SlaveSignalled
  BY <1>1 DEF SlaveSignalled, SignalledWhenDue, Signalling, Group, All
<1> QED BY <1>4, <1>5, <1>6, <1>7, <1>8, <1>9, <1>10, <1>12, <1>13 DEF MainStep, CalloutStep

LEMMA StepRounds == Signals /\ Visible /\ Failing /\ Rounded /\ [Next]_vars => Rounded'
<1> SUFFICES ASSUME Signals, Visible, Failing, Rounded, [Next]_vars, Undisturbed(self)', EnoughRounds(self)'
             PROVE  Rounds'
  BY DEF Rounded
<1>1. self' = self
  BY OthersSame, MainDoes DEF Next, Terminated, Due, vars, mainVars, Signals, Timing
<1>2. Undisturbed(self) /\ EnoughRounds(self) /\ Rounds
  BY <1>1, Rigid DEF EnoughRounds, Rounded
<1>3. CASE \E s \in Strand : StrandStep(s) \/ Return(s) \/ Deliver(s)
  BY <1>2, <1>3, StrandRounds
<1>4. CASE MainStep
  BY <1>2, <1>4, MainRounds
<1>5. CASE (\E g \in Group : Due(g)) \/ UNCHANGED vars
  <2>1. UNCHANGED <<strandVars, signalVars, globalError, mainVars>> /\ Retries' = Retries
    BY <1>1, <1>5, SameProcess DEF Due, vars, shmVars
  <2> QED BY <1>2, <2>1 DEF Rounds, RoundsOf, strandVars, signalVars, mainVars, callVars
<1> QED BY <1>3, <1>4, <1>5 DEF Next, Terminated

-----------------------------------------------------------------------------
(* The callout and the next transaction                                     *)

\* A callout is taken back before its group goes on, or so many errors were counted that
\* every strand leaves the run at its next barrier: the main thread's own, that strands do
\* not respond, comes after the failure of one that has ended.
ReachedOrFailed == \A s \in Strand : Out(s) /\ callouts[GroupOf[s]] = "due" => Swept(s) \/ globalError > 1

ClosedBehind ==
  \A g \in Group, n \in Barrier :
    Timed(g, n) /\ n + 1 <= Len(Txns[g]) /\ Open(n + 1) /\ callouts[g] # "none" => globalError > 1

NotBeyond ==
  \A s \in Strand, n \in Barrier :
    Timed(GroupOf[s], n) /\ callouts[GroupOf[s]] # "none" /\ txn[s] > n =>
      txn[s] = n + 1 /\ pc[s] \in {"arrive", "wait", "exit", "done"}

TakenBack == ReachedOrFailed /\ ClosedBehind /\ NotBeyond

Called == Undisturbed(self) /\ EnoughRounds(self) => TakenBack

\* All that the theorems about the process of a master rest on.
CalledOutInTime == Signals /\ Visible /\ Failing /\ Rounded /\ Called

LEMMA InitCalled == Init /\ TypeInv => Called
BY StrandsGroups DEF Init, TypeInv, Called, TakenBack, ReachedOrFailed, ClosedBehind, NotBeyond

LEMMA StrandCalled ==
  ASSUME CalledOutInTime, TakenBack, Undisturbed(self), NEW s \in Strand, StrandStep(s) \/ Return(s) \/ Deliver(s)
  PROVE  TakenBack'
<1>1. /\ TypeInv /\ Barriers /\ CalloutHasBegun /\ OutWhenDue
      /\ UNCHANGED mainVars /\ \A r \in Strand \ {s} : Same(r)
      /\ globalError \in Nat /\ globalError' \in Nat /\ globalError' >= globalError
      /\ \A r \in Strand : Out(r)' => Out(r)
  BY OthersSame, OutsideStays, StrandStepOK DEF CalledOutInTime, Signals, Timing, TypeInv, SharedTypes, Schedule
<1>2. /\ Barrier' = Barrier /\ Txns' = Txns /\ \A g, n : Timed(g, n)' <=> Timed(g, n)
  BY <1>1, Rigid, SameProcess DEF mainVars
<1>3. /\ callouts \in [Group -> {"none", "set", "due"}] /\ GroupOf[s] \in Group
      /\ \A r \in Strand : GroupOf[r] \in Group /\ txn[r] \in Nat
      /\ \A n \in Barrier : n \in Nat
      /\ cur \in Nat /\ txn[s] \in Barrier /\ txn[s] <= Len(Txns[GroupOf[s]])
  <2>1. MaxTxn \in Nat
    BY <1>1, LongestList DEF TypeInv
  <2>2. callouts \in [Group -> {"none", "set", "due"}] /\ \A r \in Strand : GroupOf[r] \in Group
    BY <1>1, StrandsGroups DEF TypeInv, SharedTypes
  <2>3. (\A r \in Strand : txn[r] \in Barrier) /\ cur \in Nat
    BY <1>1, <2>1 DEF TypeInv, StrandTypes, MainTypes
  <2>4. txn[s] <= Len(Txns[GroupOf[s]])
    BY <1>1, StrandsGroups DEF TypeInv, StrandsCounted, NtxnOf
  <2> QED BY <2>1, <2>2, <2>3, <2>4 DEF Barrier
<1>4. \/ callouts' = callouts
      \/ /\ Begin(s) /\ InTimed(s) /\ Leader(s) /\ callouts[GroupOf[s]] = "none"
         /\ callouts' = [callouts EXCEPT ![GroupOf[s]] = "set"]
  <2>1. CASE Begin(s)
    BY <1>1, <2>1, BeginDoes
  <2>2. CASE ~Begin(s)
    BY <1>1, <2>2, ArriveDoes, PassDoes, FlowopDoes, EnterCallDoes, AfterDoes, ClearDoes, ExitDoes, ReturnDoes, DeliverDoes
       DEF StrandStep
  <2> QED BY <2>1, <2>2
<1>5. ReachedOrFailed'
  <2> SUFFICES ASSUME NEW r \in Strand, Out(r)', callouts'[GroupOf[r]] = "due" PROVE Swept(r)' \/ globalError' > 1
    BY DEF ReachedOrFailed
  <2>1. callouts[GroupOf[r]] = "due"
    BY <1>3, <1>4
  <2>2. Swept(r) \/ globalError > 1
    BY <1>1, <2>1 DEF TakenBack, ReachedOrFailed
  <2> QED BY <1>1, <2>2 DEF Swept, mainVars, callVars
<1>6. ClosedBehind'
  <2> SUFFICES ASSUME NEW g \in Group, NEW n \in Barrier, Timed(g, n), n + 1 <= Len(Txns[g]), Open(n + 1), callouts'[g] # "none"
               PROVE  globalError' > 1
    BY <1>1, <1>2 DEF ClosedBehind, Open, mainVars
  <2>1. CASE callouts[g] # "none"
    BY <1>1, <2>1 DEF TakenBack, ClosedBehind
  <2>2. CASE callouts[g] = "none"
    <3>1. g = GroupOf[s] /\ InTimed(s)
      BY <1>3, <1>4, <2>2
    <3>2. n = txn[s]
      BY <1>1, <1>3, <3>1, OneTimed DEF InTimed
    <3>3. n + 1 \in Barrier /\ n + 1 <= NtxnOf(s)
      <4>1. n + 1 <= NtxnOf(s) /\ n + 1 >= 1 /\ n + 1 \in Nat /\ NtxnOf(s) \in Nat
        BY <1>1, <1>3, <3>1, StrandsGroups DEF NtxnOf, TypeInv
      <4> QED BY <1>1, <4>1, StrandsGroups DEF TypeInv
    <3>4. HasArrived(s, n + 1)
      BY <1>1, <3>3 DEF Barriers, OpenedByAll
    <3> QED BY <1>3, <3>2, <3>4 DEF HasArrived
  <2> QED BY <2>1, <2>2
<1>7. NotBeyond'
  <2> SUFFICES ASSUME NEW r \in Strand, NEW n \in Barrier, Timed(GroupOf[r], n), callouts'[GroupOf[r]] # "none", txn'[r] > n
               PROVE  txn'[r] = n + 1 /\ pc'[r] \in {"arrive", "wait", "exit", "done"}
    BY <1>2 DEF NotBeyond
  <2>1. CASE callouts[GroupOf[r]] = "none"
    <3>1. Begin(s) /\ GroupOf[r] = GroupOf[s] /\ InTimed(s) /\ Leader(s)
      BY <1>3, <1>4, <2>1
    <3>2. ~Began(GroupOf[r])
      BY <1>1, <3>1, BeginsOnce
    <3>3. ~Past(r)
      BY <1>1, <3>2 DEF OutWhenDue, Out
    <3>4. txn'[r] = txn[r]
      BY <1>1, <3>1, BeginDoes DEF Same, Keeps
    <3> QED BY <3>3, <3>4 DEF Past
  <2>2. CASE callouts[GroupOf[r]] # "none" /\ r # s
    BY <1>1, <2>2 DEF TakenBack, NotBeyond, Same
  <2>3. CASE callouts[GroupOf[r]] # "none" /\ r = s
    <3>1. CASE txn[s] > n
      <4>1. txn[s] = n + 1 /\ pc[s] \in {"arrive", "wait", "exit", "done"}
        BY <2>3, <3>1 DEF TakenBack, NotBeyond
      <4>2. pc[s] = "wait" /\ Open(txn[s]) => globalError > 1
        BY <1>1, <1>3, <2>3, <4>1 DEF TakenBack, ClosedBehind
      <4>3. txn'[s] = txn[s] /\ pc'[s] \in {"arrive", "wait", "exit", "done"}
        <5>1. CASE Arrive(s)
          BY <1>1, <5>1, ArriveDoes DEF Keeps
        <5>2. CASE Pass(s)
          BY <1>1, <4>2, <5>2, PassDoes DEF Keeps
        <5>3. CASE Exit(s)
          BY <1>1, <5>3, ExitDoes DEF Keeps
        <5>4. CASE Deliver(s)
          BY <1>1, <4>1, <5>4, DeliverDoes
        <5>5. CASE ~Arrive(s) /\ ~Pass(s) /\ ~Exit(s) /\ ~Deliver(s)
          BY <1>1, <4>1, <5>5, BeginDoes, FlowopDoes, EnterCallDoes, AfterDoes, ClearDoes, ReturnDoes DEF StrandStep
        <5> QED BY <5>1, <5>2, <5>3, <5>4, <5>5
      <4> QED BY <2>3, <4>1, <4>3
    <3>2. CASE ~(txn[s] > n)
      <4>1. txn'[s] # txn[s]
        BY <2>3, <3>2
      <4>2. CASE Clear(s)
        <5>1. txn'[s] = txn[s] + 1 /\ pc'[s] = "arrive"
          BY <1>1, <4>1, <4>2, ClearDoes
        <5>2. n \in Nat /\ txn[s] \in Nat /\ txn'[s] > n
          BY <1>3, <2>3
        <5>3. txn[s] = n
          BY <3>2, <5>1, <5>2
        <5> QED BY <2>3, <5>1, <5>3
      <4>3. CASE ~Clear(s)
        BY <1>1, <4>1, <4>3, OtherwiseStays
      <4> QED BY <4>2, <4>3
    <3> QED BY <3>1, <3>2
  <2> QED BY <2>1, <2>2, <2>3
<1> QED BY <1>5, <1>6, <1>7 DEF TakenBack

\* The same of the main thread, whose only error here is that strands do not respond.
LEMMA MainReached ==
  ASSUME TypeInv, Undisturbed(self), SignalledWhenDue, Rounds, MainStep, NEW r \in Strand,
         callouts[GroupOf[r]] = "due", callouts'[GroupOf[r]] = "due",
         Swept(r) \/ globalError > 1 \/ (mpc = "set" /\ r = idx)
  PROVE  Swept(r)' \/ globalError' > 1
<1>1. /\ Role = "master" /\ globalError \in Nat /\ globalError' \in Nat /\ globalError' >= globalError
      /\ idx \in Nat /\ r \in Nat /\ GroupOf[r] \in Group /\ callouts \in [Group -> {"none", "set", "due"}]
      /\ mpc \in Signalling => scope \in Group /\ scope = grp
      /\ mpc = "set" => GroupOf[idx] = scope
      /\ mpc \notin {"unlock", "waited"}
  <2>1. globalError \in Nat /\ globalError' \in Nat /\ globalError' >= globalError
    BY MainDoes, MainStepOK DEF TypeInv, SharedTypes
  <2>2. /\ Role = "master" /\ idx \in Nat /\ r \in Nat /\ GroupOf[r] \in Group
        /\ callouts \in [Group -> {"none", "set", "due"}]
    BY StrandsGroups DEF TypeInv, MainTypes, SharedTypes, Undisturbed, Role
  <2> QED BY <2>1, <2>2 DEF SignalledWhenDue
<1> USE <1>1 DEF Swept, Signalling
<1>2. CASE globalError > 1
  BY <1>2
<1>3. CASE globalError <= 1 /\ (Callout \/ MasterPoll \/ MasterDrain \/ MasterBarrier \/ Join)
  BY <1>3 DEF Callout, MasterPoll, MasterDrain, MasterBarrier, Join
<1>4. CASE globalError <= 1 /\ Mark
  BY <1>4 DEF Mark
<1>5. CASE globalError <= 1 /\ Set
  BY <1>5 DEF Set
<1>6. CASE globalError <= 1 /\ Signal
  <2>1. mpc = "signal" /\ UNCHANGED <<mpc, scope>>
    BY <1>6 DEF Signal
  <2> QED BY <1>6, <2>1
<1>7. CASE globalError <= 1 /\ Again
  <2>1. mpc = "signal" /\ mpc' \in {"signal", "check"} /\ scope' = scope
    BY <1>7 DEF Again
  <2> QED BY <1>7, <2>1
<1>8. CASE globalError <= 1 /\ CheckCallout
  <2>1. CASE NotResponding
    <3>1. globalError' = globalError + 1 /\ globalError > 0
      BY <1>8, <2>1 DEF CheckCallout, NotResponding, Rounds
    <3> QED BY <3>1
  <2>2. CASE ~NotResponding
    <3>1. mpc = "check" /\ callouts' = [callouts EXCEPT ![grp] = "none"]
      BY <1>8, <2>2 DEF CheckCallout, CalledOut
    <3>2. grp = GroupOf[r]
      BY <1>8, <3>1
    <3> QED BY <3>1, <3>2
  <2> QED BY <2>1, <2>2
<1>9. ~SlaveAborts /\ ~SlaveCommand /\ ~SlaveIdle /\ ~SlaveUnlock /\ ~SlaveWaited
  BY DEF SlaveAborts, SlaveCommand, SlaveIdle, SlaveUnlock, SlaveWaited
<1>10. ~SlaveSignalled
  BY DEF SlaveSignalled, Group, All
<1> QED BY <1>2, <1>3, <1>4, <1>5, <1>6, <1>7, <1>8, <1>9, <1>10 DEF MainStep, CalloutStep

\* Only MasterBarrier opens a barrier in a master.
LEMMA MainOpens ==
  ASSUME TypeInv, Undisturbed(self), SignalledWhenDue, MainStep
  PROVE  \/ cur' = cur
         \/ mpc = "barrier" /\ cur' = cur + 1 /\ arrived[cur] = Limit(cur) /\ UNCHANGED <<callouts, globalError>>
<1>1. Role = "master" /\ mpc \notin {"unlock", "waited"}
  BY DEF Undisturbed, Role, SignalledWhenDue
<1>2. CASE CalloutStep
  BY <1>2 DEF CalloutStep, Callout, Mark, Set, Signal, Again, CheckCallout
<1>3. CASE MasterPoll \/ MasterDrain \/ Join \/ SlaveSignalled
  BY <1>3 DEF MasterPoll, MasterDrain, Join, SlaveSignalled
<1>4. CASE MasterBarrier
  <2>1. mpc = "barrier" /\ UNCHANGED <<callouts, globalError>>
    BY <1>4 DEF MasterBarrier, shmVars
  <2>2. CASE arrived[cur] = Limit(cur)
    BY <1>4, <2>1, <2>2 DEF MasterBarrier
  <2>3. CASE arrived[cur] # Limit(cur)
    BY <1>4, <2>3 DEF MasterBarrier
  <2> QED BY <2>2, <2>3
<1>5. ~SlaveAborts /\ ~SlaveCommand /\ ~SlaveIdle /\ ~SlaveUnlock /\ ~SlaveWaited
  BY <1>1 DEF SlaveAborts, SlaveCommand, SlaveIdle, SlaveUnlock, SlaveWaited
<1> QED BY <1>2, <1>3, <1>4, <1>5 DEF MainStep

LEMMA MainCalled ==
  ASSUME CalledOutInTime, TakenBack, Undisturbed(self), EnoughRounds(self), MainStep
  PROVE  TakenBack'
<1>1. /\ TypeInv /\ Barriers /\ SignalledWhenDue /\ OutWhenDue /\ Rounds
      /\ ReachedOrFailed /\ ClosedBehind /\ NotBeyond
  BY DEF CalledOutInTime, Signals, Timing, Schedule, Rounded, TakenBack
<1>2. /\ self' = self /\ Txns' = Txns /\ Barrier' = Barrier /\ txn' = txn /\ pc' = pc
      /\ \A g, n : Timed(g, n)' <=> Timed(g, n)
  BY <1>1, MainDoes, Rigid, SameProcess DEF strandVars
<1>3. /\ callouts \in [Group -> {"none", "set", "due"}] /\ \A r \in Strand : GroupOf[r] \in Group /\ txn[r] \in Nat
      /\ globalError \in Nat /\ globalError' \in Nat /\ globalError' >= globalError
      /\ cur \in Nat /\ \A n \in Barrier : n \in Nat
  <2>1. callouts \in [Group -> {"none", "set", "due"}] /\ \A r \in Strand : GroupOf[r] \in Group
    BY <1>1, StrandsGroups DEF TypeInv, SharedTypes
  <2>2. globalError \in Nat /\ globalError' \in Nat /\ globalError' >= globalError
    BY <1>1, MainDoes, MainStepOK DEF TypeInv, SharedTypes
  <2>3. MaxTxn \in Nat
    BY <1>1, LongestList DEF TypeInv
  <2>4. (\A r \in Strand : txn[r] \in Barrier) /\ cur \in Nat
    BY <1>1, <2>3 DEF TypeInv, StrandTypes, MainTypes
  <2> QED BY <2>1, <2>2, <2>3, <2>4 DEF Barrier
<1>4. \A g \in Group : callouts'[g] = callouts[g] \/ callouts'[g] = "none"
  BY <1>1, <1>3, MainDoes
<1>5. ReachedOrFailed'
  <2> SUFFICES ASSUME NEW r \in Strand, Out(r)', callouts'[GroupOf[r]] = "due" PROVE Swept(r)' \/ globalError' > 1
    BY DEF ReachedOrFailed
  <2>1. callouts[GroupOf[r]] = "due"
    BY <1>3, <1>4
  <2>2. Swept(r) \/ globalError > 1 \/ (mpc = "set" /\ r = idx)
    BY <1>1, <2>1, MainOutside DEF ReachedOrFailed
  <2> QED BY <1>1, <2>1, <2>2, MainReached
<1>6. ClosedBehind'
  <2> SUFFICES ASSUME NEW g \in Group, NEW n \in Barrier, Timed(g, n), n + 1 <= Len(Txns[g]), n + 1 < cur',
                      callouts'[g] # "none"
               PROVE  globalError' > 1
    BY <1>2 DEF ClosedBehind, Open
  <2>1. callouts[g] # "none" /\ n \in Nat
    BY <1>3, <1>4
  <2>2. CASE n + 1 < cur
    BY <1>1, <1>3, <2>1, <2>2 DEF ClosedBehind, Open
  <2>3. CASE ~(n + 1 < cur)
    <3>1. /\ mpc = "barrier" /\ cur' = cur + 1 /\ arrived[cur] = Limit(cur)
          /\ UNCHANGED <<callouts, globalError>>
      BY <1>1, <2>3, MainOpens
    <3>2. cur = n + 1
      BY <1>3, <2>1, <2>3, <3>1
    <3>3. PICK s \in Strand : GroupOf[s] = g
      BY <1>1, StrandsGroups, DurationAssumption DEF Members
    <3>4. n + 1 \in Barrier /\ n + 1 <= NtxnOf(s)
      <4>1. n + 1 <= NtxnOf(s) /\ n + 1 >= 1 /\ n + 1 \in Nat /\ NtxnOf(s) \in Nat
        BY <1>1, <2>1, <3>3, StrandsGroups DEF NtxnOf, TypeInv
      <4> QED BY <1>1, <4>1, StrandsGroups DEF TypeInv
    <3>5. HasArrived(s, n + 1)
      BY <1>1, <3>1, <3>2, <3>4, ReachedByAll
    <3>6. txn[s] \in Nat /\ txn[s] > n
      BY <1>3, <2>1, <3>5 DEF HasArrived
    <3>7. Out(s)
      BY <3>3, <3>6 DEF Out, Past
    <3>8. callouts[g] = "due"
      BY <1>1, <1>3, <2>1, <3>3, <3>7 DEF OutWhenDue
    <3>9. ~Swept(s)
      BY <3>1 DEF Swept, Signalling
    <3> QED BY <1>1, <3>1, <3>3, <3>7, <3>8, <3>9 DEF ReachedOrFailed
  <2> QED BY <2>2, <2>3
<1>7. NotBeyond'
  BY <1>1, <1>2, <1>3, <1>4 DEF NotBeyond
<1> QED BY <1>5, <1>6, <1>7 DEF TakenBack

LEMMA StepCalled == CalledOutInTime /\ [Next]_vars => Called'
<1> SUFFICES ASSUME CalledOutInTime, [Next]_vars, Undisturbed(self)', EnoughRounds(self)' PROVE TakenBack'
  BY DEF Called
<1>1. TypeInv /\ self' = self
  BY OthersSame, MainDoes DEF Next, Terminated, Due, vars, mainVars, CalledOutInTime, Signals, Timing
<1>2. Undisturbed(self) /\ EnoughRounds(self) /\ TakenBack /\ ReachedOrFailed /\ ClosedBehind /\ NotBeyond /\ OutWhenDue
  BY <1>1, Rigid DEF EnoughRounds, CalledOutInTime, Called, TakenBack, Signals, Timing, Schedule
<1>3. CASE \E s \in Strand : StrandStep(s) \/ Return(s) \/ Deliver(s)
  BY <1>2, <1>3, StrandCalled
<1>4. CASE MainStep
  BY <1>2, <1>4, MainCalled
<1>5. ASSUME UNCHANGED <<strandVars, signalVars, globalError, mainVars>>,
             callouts' = callouts \/ \E g \in Group : callouts[g] = "set" /\ callouts' = [callouts EXCEPT ![g] = "due"]
      PROVE  TakenBack'
  <2>1. Barrier' = Barrier /\ Txns' = Txns /\ \A g, n : Timed(g, n)' <=> Timed(g, n)
    BY <1>1, Rigid, SameProcess
  <2>2. \A r \in Strand : (Out(r)' <=> Out(r)) /\ (Swept(r)' <=> Swept(r))
    BY <1>5, <2>1
       DEF Out, Touched, Past, Left, InTimed, Swept, strandVars, work, signalVars, mainVars, callVars
  <2>3. /\ callouts \in [Group -> {"none", "set", "due"}] /\ \A r \in Strand : GroupOf[r] \in Group
        /\ txn' = txn /\ pc' = pc /\ cur' = cur
    BY <1>1, <1>5, StrandsGroups DEF TypeInv, SharedTypes, strandVars, mainVars
  <2>4. \A g \in Group : callouts'[g] # "none" => callouts[g] # "none"
    BY <1>5, <2>3
  <2>5. ReachedOrFailed'
    <3> SUFFICES ASSUME NEW r \in Strand, Out(r)', callouts'[GroupOf[r]] = "due" PROVE Swept(r)' \/ globalError' > 1
      BY DEF ReachedOrFailed
    <3>1. Out(r) /\ callouts[GroupOf[r]] # "set"
      BY <1>2, <2>2 DEF OutWhenDue
    <3>2. callouts[GroupOf[r]] = "due"
      BY <1>5, <2>3, <3>1
    <3> QED BY <1>2, <1>5, <2>2, <3>1, <3>2 DEF ReachedOrFailed
  <2>6. ClosedBehind'
    BY <1>2, <1>5, <2>1, <2>3, <2>4 DEF ClosedBehind, Open
  <2>7. NotBeyond'
    BY <1>2, <2>1, <2>3, <2>4 DEF NotBeyond
  <2> QED BY <2>5, <2>6, <2>7 DEF TakenBack
<1>6. CASE \E g \in Group : Due(g)
  BY <1>5, <1>6 DEF Due
<1>7. CASE UNCHANGED vars
  BY <1>5, <1>7 DEF vars, shmVars
<1> QED BY <1>3, <1>4, <1>6, <1>7 DEF Next, Terminated

LEMMA InitCalledOut == Init => CalledOutInTime
<1>1. Init => TypeInv /\ Failing
  BY InitOK DEF Init, Failing, EndedFailing
<1> QED BY <1>1, InitSignals, InitVisible, InitRounds, InitCalled DEF CalledOutInTime

LEMMA StepCalledOut == CalledOutInTime /\ [Next]_vars => CalledOutInTime'
<1> SUFFICES ASSUME CalledOutInTime, [Next]_vars PROVE CalledOutInTime'
  OBVIOUS
<1>1. TypeInv /\ Signals /\ Visible /\ Failing /\ Rounded
  BY DEF CalledOutInTime, Signals, Timing
<1>2. Signals' /\ Visible' /\ Failing' /\ Rounded' /\ Called'
  BY <1>1, StepSignals, StepVisible, StepFailing, StepRounds, StepCalled
<1> QED BY <1>2 DEF CalledOutInTime

\* A callout that may still fire belongs to the transaction its group is in, when signals
\* are followed up promptly and there are three rounds of them at least (there are
\* REPEATED_SIGNAL_RETRIES + 1): shm_process_callouts takes a callout back before it lets
\* the master's loop open the barrier behind the duration, and when signal_all_strands
\* gives up on the strands instead, one of them had already ended with a failure, so that
\* two errors are counted and no strand begins another transaction.
THEOREM CalloutsAreCurrent ==
  (\A p \in Processes : Undisturbed(p) /\ EnoughRounds(p)) /\ Spec => []CalloutIsCurrent
<1> DEFINE Masters == \A p \in Processes : Undisturbed(p) /\ EnoughRounds(p)
<1>1. Masters /\ CalledOutInTime => CalloutIsCurrent
  <2> SUFFICES ASSUME Masters, CalledOutInTime, NEW g \in Group, callouts[g] # "none"
               PROVE  \E n \in 1 .. Len(Txns[g]) :
                        /\ Txns[g][n].duration
                        /\ \A s \in Members(g) :
                             txn[s] = n \/ (txn[s] = n + 1 /\ pc[s] \in {"arrive", "wait", "exit", "done"})
    BY DEF CalloutIsCurrent
  <2>1. /\ TypeInv /\ Barriers /\ Undisturbed(self) /\ EnoughRounds(self)
        /\ CalloutHasBegun /\ NotBeyond
    BY DEF CalledOutInTime, Signals, Timing, Schedule, TypeInv, Called, TakenBack
  <2>2. PICK n \in Barrier : Timed(g, n) /\ \A s \in Members(g) : HasArrived(s, n)
    BY <2>1, BegunByAll DEF CalloutHasBegun
  <2>3. n \in 1 .. Len(Txns[g]) /\ Txns[g][n].duration
    <3>1. MaxTxn \in Nat /\ Len(Txns[g]) \in Nat
      BY <2>1, LongestList DEF TypeInv
    <3> QED BY <2>2, <3>1 DEF Timed, Barrier
  <2>4. ASSUME NEW s \in Members(g)
        PROVE  txn[s] = n \/ (txn[s] = n + 1 /\ pc[s] \in {"arrive", "wait", "exit", "done"})
    <3>1. s \in Strand /\ GroupOf[s] = g
      BY DEF Members
    <3>2. txn[s] > n \/ txn[s] = n
      BY <2>2 DEF HasArrived
    <3> QED BY <2>1, <2>2, <3>1, <3>2 DEF NotBeyond
  <2> QED BY <2>3, <2>4
<1>2. Masters /\ CalledOutInTime /\ [Next]_vars => Masters' /\ CalledOutInTime'
  BY StepCalledOut DEF EnoughRounds
<1> HIDE DEF Masters
<1>3. Masters /\ Spec => []CalloutIsCurrent
  BY <1>1, <1>2, InitCalledOut, PTL DEF Spec
<1> QED BY <1>3 DEF Masters
=============================================================================
