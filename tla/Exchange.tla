------------------------------ MODULE Exchange ------------------------------
(***************************************************************************)
(* What travels over one connection: a strand of the master executes a      *)
(* transaction, a strand of the slave the mirrored one (workorder.c), and   *)
(* each flowop reads or writes its size through the protocol of the         *)
(* connection (flowops_library.c, generic.c, udp.c, sctp.c, ssl.c,          *)
(* sendfilev.c) and is counted (execute.c, stats.c).                        *)
(*                                                                         *)
(* Bytes are counted, never looked at.  No strand is signalled here: that   *)
(* is the subject of Duration.                                              *)
(***************************************************************************)
EXTENDS Integers, Sequences, FiniteSetsExt

CONSTANTS
  Profiles,     \* what may be run: [proto, iter, flowops], see Flowop
  DefaultSize,  \* DEFAULT_BUFFER_SIZE (8192)
  SlaveRead,    \* UPERF_SLAVE_READ_SIZE
  FileSize,     \* the size of the file that is sent
  Capacity,     \* bound: bytes a stream holds, messages of SCTP
  MaxLoss       \* bound: datagrams that are lost

Side == {"master", "slave"}
Peer(x) == IF x = "master" THEN "slave" ELSE "master"

Transmits == {"write", "send", "sendfile"}
FlowopType == Transmits \cup {"read", "recv", "disconnect", "nop"}

\* size is 0 for size=rand(min, max).
Flowop == [type : FlowopType, size : Nat, rsize : Nat, random : BOOLEAN, min : Nat, max : Nat,
           count : Nat, repeat : Nat \ {0}, batch : Nat \ {0}, nonblocking : BOOLEAN,
           timeout : BOOLEAN, canfail : BOOLEAN]

ASSUME ExchangeAssumption ==
  /\ {DefaultSize, SlaveRead, FileSize, Capacity} \subseteq Nat \ {0}
  /\ MaxLoss \in Nat
  /\ Profiles \subseteq [proto : {"tcp", "ssl", "sctp", "udp"}, iter : Nat \ {0},
                         flowops : Seq(Flowop) \ {<<>>}]

VARIABLES
  profile,  \* the master's transaction
  st,       \* [Side -> Strand]
  wire,     \* [Side -> Seq(Nat)]: what is on its way to that side: one number of bytes for a
            \* stream, the sizes of the messages for UDP and SCTP
  open,     \* [Side -> BOOLEAN]: the side has not closed its end
  lost      \* datagrams lost so far

vars == <<profile, st, wire, open, lost>>

\* A strand in its transaction: iteration, flowop, executions of it (i of flowop_execute);
\* in flowop_rw: size and sz; in the protocol's call: repetition, total and nleft.
Strand == [iter : Nat \ {0}, at : Nat \ {0}, n : Nat, size : Nat, sz : Nat, rep : Nat, total : Nat,
           left : Nat, stage : {"begin", "first", "rest"}, errno : {"none", "EINTR", "EAGAIN", "other"},
           counted : Int,  \* STRAND_STAT(s)->size
           moved : Nat,    \* bytes that were read or written
           high : Nat,     \* the end of what was stored in or taken from s->buffer
           result : {"running", "success", "expired", "failure"}]

-----------------------------------------------------------------------------
(* The slave's transaction                                                  *)

\* flowop_opposite
Opposite(type) ==
  CASE type = "read" -> "write" [] type \in {"write", "sendfile"} -> "read"
    [] type = "send" -> "recv" [] type = "recv" -> "send" [] OTHER -> type

\* The flowop loop of group_opposite.
Mirrored(f) ==
  [f EXCEPT !.type = Opposite(@), !.size = IF f.type = "sendfile" THEN SlaveRead ELSE @]

Enlarged(f) == f.rsize > f.size

\* Mutant: the count is kept.
Optimized_CountKept(f) == IF Enlarged(f) THEN [f EXCEPT !.size = f.rsize] ELSE f

\* optimize_txn_for_slave: larger reads, and fewer of them.
Optimized(f) ==
  IF ~Enlarged(f) THEN f
  ELSE [f EXCEPT !.count = IF @ > 1 THEN (f.size * @) \div f.rsize ELSE @, !.size = f.rsize]

\* The variable "optimized": what the iterations are divided by, unless it is 0.
Divisor(fl) ==
  LET once == {i \in DOMAIN fl : Enlarged(fl[i]) /\ fl[i].count <= 1}
  IN IF once = {} THEN 0 ELSE fl[Max(once)].size \div fl[Max(once)].rsize

\* group_opposite
GroupOpposite(t) ==
  LET fl == [i \in DOMAIN t.flowops |-> Mirrored(t.flowops[i])]
  IN [t EXCEPT !.flowops = [i \in DOMAIN fl |-> Optimized(fl[i])],
               !.iter = IF Divisor(fl) = 0 THEN @ ELSE @ \div Divisor(fl)]

\* The slave gets a clone (group_clone) of the master's group.
Txn(x) == IF x = "master" THEN profile ELSE GroupOpposite(profile)

\* Mutant: the first flowop's size.
GroupMaxDtoSize_First(x) == Txn(x).flowops[1].size

\* group_max_dto_size: the size of s->buffer.
GroupMaxDtoSize(x) ==
  Max({DefaultSize} \cup {Txn(x).flowops[i].size : i \in DOMAIN Txn(x).flowops})

-----------------------------------------------------------------------------
(* flowop_execute and flowop_rw                                             *)

Stream == profile.proto \in {"tcp", "ssl"}
Messages == ~Stream

CurrentFlowop(x) == Txn(x).flowops[st[x].at]
Runs(x, stages) == st[x].result = "running" /\ st[x].stage \in stages
Becomes(x, s) == st' = [st EXCEPT ![x] = s]

\* txn_execute_once and txn_iterations go on.
NextFlowop(x, s) ==
  CASE s.at < Len(Txn(x).flowops) -> [s EXCEPT !.at = @ + 1]
    [] s.at = Len(Txn(x).flowops) /\ s.iter < Txn(x).iter -> [s EXCEPT !.at = 1, !.iter = @ + 1]
    [] OTHER -> [s EXCEPT !.result = "success"]

\* Mutant: the flowop that failed is counted as well.
Count_Failed(s, ret, n) == [s EXCEPT !.counted = @ + ret * (n + 1)]

\* stats_update for FLOWOP_END: the last result times the number of executions.
Count(s, ret, n) == [s EXCEPT !.counted = @ + ret * n]

\* The end of flowop_execute, after n executions of which the last returned ret.
FlowopEnds(x, s, ret, n) ==
  LET c == [Count(s, ret, n) EXCEPT !.n = 0, !.stage = "begin"]
  IN CASE s.errno = "EINTR" -> [c EXCEPT !.result = "expired"]
       [] s.errno # "EINTR" /\ ret < 0 -> [c EXCEPT !.result = "failure"]
       [] OTHER -> NextFlowop(x, c)

\* One execution returned r: the loop of flowop_execute.
Executed(x, s, r) ==
  LET f == CurrentFlowop(x)
      ret == IF f.canfail /\ r < 0 THEN 0 ELSE r
  IN CASE ret < 0 -> FlowopEnds(x, s, ret, s.n)
       [] ret >= 0 /\ s.n + 1 = f.count -> FlowopEnds(x, s, ret, s.n + 1)
       [] OTHER -> [s EXCEPT !.n = @ + 1, !.stage = "begin"]

FirstStage(f) == IF profile.proto = "udp" /\ f.nonblocking THEN "first" ELSE "rest"

\* The protocol's function is called for what is left of the size.
Call(s, f) ==
  [s EXCEPT !.rep = 0, !.total = 0, !.left = s.size - s.sz, !.stage = FirstStage(f)]

\* Mutant: a short read or write is taken for the whole.
Loops_Never(f, s) == FALSE

\* while (sz < fo->size), left after one turn when the size is random
Loops(f, s) == s.sz < s.size /\ ~f.random

\* Mutant: -1 is added to what was read.
Returned_Unchecked(x, s, n) ==
  LET f == CurrentFlowop(x)
      t == [s EXCEPT !.sz = @ + n]
  IN IF n = 0 THEN Executed(x, [s EXCEPT !.errno = "EINTR"], -1)
     ELSE IF Loops(f, t) THEN Call(t, f) ELSE Executed(x, t, t.sz)

\* The protocol's function returned n: the loop of flowop_rw.
Returned(x, s, n) ==
  LET f == CurrentFlowop(x)
      t == [s EXCEPT !.sz = @ + n]
  IN CASE n = 0 -> Executed(x, [s EXCEPT !.errno = "EINTR"], -1)
       [] n < 0 -> Executed(x, s, -1)
       [] OTHER -> IF Loops(f, t) THEN Call(t, f) ELSE Executed(x, t, t.sz)

IsRead(f) == f.type \in {"read", "recv"}

\* SCTP reads a batch of messages into a buffer of its own.
OwnBuffer(f) == profile.proto = "sctp" /\ f.batch > 1 /\ IsRead(f)

\* n bytes go between the wire and the buffer.
Moved(x, n) ==
  [st[x] EXCEPT !.moved = @ + n, !.total = @ + n,
                !.high = IF OwnBuffer(CurrentFlowop(x)) THEN @ ELSE Max({@, st[x].sz + n})]

\* my_random for what is transmitted, the largest size for what is received.
Sizes(f) ==
  CASE ~f.random -> {f.size}
    [] f.random /\ f.type \in Transmits -> f.min .. f.max
    [] OTHER -> {f.max}

\* Only TCP has send and recv.
Supported(f) == f.type \in {"send", "recv"} => profile.proto = "tcp"

\* The start of an execution.  Once closed, the connection is not found any more.
Execute(x) ==
  /\ Runs(x, {"begin"})
  /\ LET f == CurrentFlowop(x)
     IN IF f.count = 0 THEN Becomes(x, FlowopEnds(x, st[x], 0, 0)) /\ UNCHANGED open
        ELSE CASE f.type = "disconnect" /\ open[x] ->
                    /\ Becomes(x, Executed(x, st[x], 0))
                    /\ open' = [open EXCEPT ![x] = FALSE]
               [] f.type = "nop" -> Becomes(x, Executed(x, st[x], 0)) /\ UNCHANGED open
               [] f.type = "sendfile" /\ open[x] ->
                    /\ Becomes(x, [st[x] EXCEPT !.size = FileSize, !.sz = 0, !.stage = "rest"])
                    /\ UNCHANGED open
               [] ~open[x] /\ f.type # "nop" ->
                    /\ Becomes(x, Executed(x, IF f.type = "disconnect" THEN [st[x] EXCEPT !.errno = "EINTR"]
                                              ELSE st[x], -1))
                    /\ UNCHANGED open
               [] OTHER ->
                    /\ IF Supported(f)
                       THEN \E n \in Sizes(f) :
                              Becomes(x, Call([st[x] EXCEPT !.size = n, !.sz = 0], f))
                       ELSE Becomes(x, Executed(x, st[x], -1))
                    /\ UNCHANGED open
  /\ UNCHANGED <<profile, wire, lost>>

-----------------------------------------------------------------------------
(* The protocols' functions                                                 *)

\* What one read of at most n takes from wire w: any part of a stream, one message of UDP,
\* whose rest is dropped, one message of SCTP or a part of it.
Takes(w, n) ==
  IF Stream THEN {[got |-> k, rest |-> IF k = Head(w) THEN <<>> ELSE <<Head(w) - k>>] :
                    k \in 1 .. Min({n, Head(w)})}
  ELSE {[got |-> Min({n, Head(w)}),
         rest |-> IF profile.proto = "sctp" /\ Head(w) > n THEN <<Head(w) - n>> \o Tail(w)
                  ELSE Tail(w)]}

\* Repetitions of one call: UDP's repeat, and SCTP's of a batch of messages.
Repeats(f) ==
  CASE Stream -> 1 [] profile.proto = "udp" -> f.repeat [] OTHER -> f.repeat * f.batch

\* The next repetition, or the function returns the total.
Repeat(x, s) ==
  LET f == CurrentFlowop(x)
  IN IF s.rep + 1 < Repeats(f)
     THEN [s EXCEPT !.rep = @ + 1, !.left = s.size - s.sz, !.stage = FirstStage(f)]
     ELSE Returned(x, s, s.total)

\* nleft = n - ret
Left(n, got) == n - got

\* The first attempt of a UDP socket that does not block.  After EWOULDBLOCK ret is -1.
FirstRead(x) ==
  /\ Runs(x, {"first"})
  /\ IsRead(CurrentFlowop(x))
  /\ LET s == st[x]
     IN IF wire[x] = <<>>
        THEN /\ Becomes(x, [s EXCEPT !.left = Left(@, -1), !.errno = "EAGAIN", !.stage = "rest"])
             /\ UNCHANGED wire
        ELSE \E t \in Takes(wire[x], s.left) :
               LET m == [Moved(x, t.got) EXCEPT !.left = Left(@, t.got), !.stage = "rest"]
               IN /\ wire' = [wire EXCEPT ![x] = t.rest]
                  /\ Becomes(x, IF m.left > 0 THEN m ELSE Repeat(x, m))
  /\ UNCHANGED <<profile, open, lost>>

\* The read that waits, here until there is something to read.
Read(x) ==
  /\ Runs(x, {"rest"})
  /\ IsRead(CurrentFlowop(x))
  /\ wire[x] # <<>>
  /\ \E t \in Takes(wire[x], st[x].left) :
       /\ wire' = [wire EXCEPT ![x] = t.rest]
       /\ Becomes(x, Repeat(x, Moved(x, t.got)))
  /\ UNCHANGED <<profile, open, lost>>

\* The peer has closed the connection: read returns 0; SSL's error is turned into EINTR.
HangUp(x) ==
  /\ Runs(x, {"rest"})
  /\ IsRead(CurrentFlowop(x))
  /\ wire[x] = <<>> /\ profile.proto # "udp" /\ ~open[Peer(x)]
  /\ Becomes(x, Returned(x, st[x], st[x].total))
  /\ UNCHANGED <<profile, wire, open, lost>>

\* generic_poll: only reads look at the time limit, and those of SSL do not.  A socket that
\* does not block does not wait without one.
Polls(f) == f.timeout /\ f.type = "read" /\ profile.proto # "ssl"
Impatient(f) == profile.proto = "udp" /\ f.nonblocking /\ ~f.timeout

GivesUp(x) ==
  /\ Runs(x, {"rest"})
  /\ wire[x] = <<>>
  /\ LET f == CurrentFlowop(x)
     IN /\ IsRead(f)
        /\ \/ Polls(f) /\ st[x].rep % f.batch = 0 /\ Becomes(x, Returned(x, st[x], -1))
           \/ Impatient(f) /\ Becomes(x, Returned(x, [st[x] EXCEPT !.errno = "EAGAIN"], -1))
  /\ UNCHANGED <<profile, wire, open, lost>>

\* A socket that does not block may have no room, and none within the time limit.
FirstWrite(x) ==
  /\ Runs(x, {"first"})
  /\ CurrentFlowop(x).type = "write"
  /\ \/ /\ wire' = [wire EXCEPT ![Peer(x)] = Append(@, st[x].left)]
        /\ Becomes(x, Repeat(x, Moved(x, st[x].left)))
     \/ Becomes(x, [st[x] EXCEPT !.errno = "EAGAIN", !.stage = "rest"]) /\ UNCHANGED wire
  /\ UNCHANGED <<profile, open, lost>>

Room(w) ==
  CASE Stream -> Capacity - (IF w = <<>> THEN 0 ELSE Head(w))
    [] profile.proto = "sctp" -> IF Len(w) < Capacity THEN 1 ELSE 0
    [] OTHER -> 1

Put(w, n) == IF Stream /\ w # <<>> THEN <<Head(w) + n>> ELSE Append(w, n)

\* A stream takes a part of what is written, the others the whole message.
Write(x) ==
  /\ Runs(x, {"rest"})
  /\ CurrentFlowop(x).type \in {"write", "send"}
  /\ open[Peer(x)] \/ profile.proto = "udp"
  /\ Room(wire[Peer(x)]) > 0
  /\ \E n \in IF Stream THEN 1 .. Min({st[x].left, Room(wire[Peer(x)])}) ELSE {st[x].left} :
       /\ wire' = [wire EXCEPT ![Peer(x)] = Put(@, n)]
       /\ Becomes(x, Repeat(x, Moved(x, n)))
  /\ UNCHANGED <<profile, open, lost>>

\* EPIPE, or no room within the limit of UDP's write.
WriteFails(x) ==
  /\ Runs(x, {"rest"})
  /\ LET f == CurrentFlowop(x)
     IN /\ f.type \in Transmits
        /\ \/ /\ profile.proto # "udp" /\ ~open[Peer(x)]
              /\ Becomes(x, IF f.type = "sendfile" THEN Executed(x, [st[x] EXCEPT !.errno = "other"], -1)
                            ELSE Returned(x, [st[x] EXCEPT !.errno = "other"], -1))
           \/ /\ profile.proto = "udp" /\ f.nonblocking
              /\ Becomes(x, Returned(x, st[x], -1))
  /\ UNCHANGED <<profile, wire, open, lost>>

\* do_sendfile: chunks of the flowop's size until the file is sent; in one call, which may
\* be short, when there is no size.
SendFile(x) ==
  /\ Runs(x, {"rest"})
  /\ CurrentFlowop(x).type = "sendfile"
  /\ open[Peer(x)] /\ Room(wire[Peer(x)]) > 0
  /\ LET s == st[x]
         chunk == IF CurrentFlowop(x).size = 0 THEN FileSize ELSE CurrentFlowop(x).size
     IN \E n \in 1 .. Min({chunk, FileSize - s.sz, Room(wire[Peer(x)])}) :
          /\ wire' = [wire EXCEPT ![Peer(x)] = Put(@, n)]
          /\ LET t == [s EXCEPT !.sz = @ + n, !.moved = @ + n]
             IN Becomes(x, IF t.sz < FileSize /\ CurrentFlowop(x).size > 0 THEN t
                           ELSE Executed(x, t, t.sz))
  /\ UNCHANGED <<profile, open, lost>>

\* The network loses a datagram.
Lose(x) ==
  /\ profile.proto = "udp" /\ lost < MaxLoss /\ wire[x] # <<>>
  /\ wire' = [wire EXCEPT ![x] = Tail(@)]
  /\ lost' = lost + 1
  /\ UNCHANGED <<profile, st, open>>

-----------------------------------------------------------------------------
\* group_execute and txn_iterations begin; the connection is there.
Init ==
  /\ profile \in Profiles
  /\ st = [x \in Side |->
             [iter |-> 1, at |-> 1, n |-> 0, size |-> 0, sz |-> 0, rep |-> 0, total |-> 0, left |-> 0,
              stage |-> "begin", errno |-> "none", counted |-> 0, moved |-> 0, high |-> 0,
              result |-> IF Txn(x).iter = 0 THEN "success" ELSE "running"]]
  /\ wire = [x \in Side |-> <<>>]
  /\ open = [x \in Side |-> TRUE]
  /\ lost = 0

Step(x) ==
  \/ Execute(x) \/ FirstRead(x) \/ Read(x) \/ HangUp(x) \/ GivesUp(x)
  \/ FirstWrite(x) \/ Write(x) \/ WriteFails(x) \/ SendFile(x)

\* The strands are at the next barrier, or blocked until they are signalled.
Stopped == (\A x \in Side : ~ENABLED Step(x)) /\ UNCHANGED vars

Next == (\E x \in Side : Step(x) \/ Lose(x)) \/ Stopped

Spec == Init /\ [][Next]_vars

\* The strands are scheduled.
FairSpec == Spec /\ \A x \in Side : WF_vars(Step(x))

-----------------------------------------------------------------------------
(* What must hold                                                           *)

TypeOK ==
  /\ profile \in Profiles
  /\ st \in [Side -> Strand]
  /\ wire \in [Side -> Seq(Nat \ {0})]
  /\ open \in [Side -> BOOLEAN]
  /\ lost \in 0 .. MaxLoss

\* No call reads or writes past the end of s->buffer, although short reads advance in it,
\* the sizes of the two sides differ, and the buffer is allocated before the flowops run
\* (group_max_dto_size, flowop_rw, protocol_udp_read).
FitsBuffer == \A x \in Side : st[x].high <= GroupMaxDtoSize(x)

\* Between two flowops a strand that met no error has counted the bytes that it moved
\* (flowop_execute and stats_update multiply the last result with the number of executions).
CountedIsMoved ==
  \A x \in Side :
    /\ st[x].result \in {"running", "success"} /\ st[x].stage = "begin" /\ st[x].n = 0
    /\ \A i \in DOMAIN profile.flowops : ~profile.flowops[i].random /\ ~profile.flowops[i].canfail
    => st[x].counted = st[x].moved

\* When both sides come to the end of the transaction, what one wrote the other has read: the
\* slave's sizes, counts and iterations amount to the master's (group_opposite,
\* optimize_txn_for_slave).
NothingLeft ==
  /\ \A x \in Side : st[x].result = "success"
  /\ \A i \in DOMAIN profile.flowops : ~profile.flowops[i].canfail
  /\ lost = 0
  => \A x \in Side : wire[x] = <<>>

\* Both sides come to an end, and neither waits for the other for ever, unless one fails (then
\* the run is stopped) or waits without a time limit for a datagram that is lost: a flowop that
\* reads is mirrored by one that writes, in the same place, and short transfers, repetitions and
\* time limits do not keep a strand in a call (group_opposite, flowop_rw).
BothEnd ==
  <>(\/ \A x \in Side : st[x].result # "running"
     \/ \E x \in Side : st[x].result = "failure"
     \/ lost > 0 /\ \E i \in DOMAIN profile.flowops : ~profile.flowops[i].timeout)
=============================================================================
