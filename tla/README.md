# A verification of uperf in TLA+

uperf is a network benchmark: a *master* reads a profile, hands a copy of it to *slaves* on other
hosts, and both sides run it with many threads or processes (*strands*) that read, write, connect
and disconnect. These modules model how a profile becomes a work order, how a run is set up and controlled,
from the first connection to the exit of the last process, and what the strands do to each other's data and
their own connections. TLC checks them on small instances, TLAPS proves the main
safety properties for every instance. Paths below are relative to `src/src/` unless they say
otherwise.

## Inventory of the system

| Component | State | Operations | What is hard | What makes it correct |
|---|---|---|---|---|
| Master (`master.c`, `common.c`) | the current transaction, the slaves' control connections, error count | `master_poll`, `poll_slaves`, `send_command_to_slaves`, `master_prepare_to_exit`, `say_goodbyes_and_close` | slaves that die, sends that fail half way, an interrupt | all strands of all processes are in the same transaction; the run ends; the exit status says what happened |
| Slave (`slave.c`) | the worklist, its error count; in the daemon, children to reap | `slave_master_poll`, `wait_unlock_barrier`, accept and fork | the master goes on, aborts or dies at any time; coalesced SIGCHLD | follows the master; always ends |
| Barriers (`sync.c`, part of `shm.c`) | a lock, a count and a limit per transaction | `init_barrier`, `wait_barrier`, `unlock_barrier` | counts against concurrent reads; groups of different length | open only when all have arrived |
| Shared segment (`shm.c`) | error count, finished count, callouts | `flag_error`, `shm_update_strand_exit`, `shm_callout_register`, `shm_process_callouts` | increments that are not atomic; stale callouts | no error is lost; a callout ends its own transaction |
| Strands (`strand.c`) | state, `signalled`, connections, a cache of them | `strand_run`, `signal_all_strands`, `strand_killall`, `wait_for_strands`, connection lookup | flags written by two threads, signals that come too early or late | every strand ends and is joined |
| Execution (`execute.c`) | position in group, transaction, flowop | `group_execute` ... `flowop_execute` | ends by iteration, duration, failure or signal, told apart by `errno` | iterations are complete, durations end |
| Signals (`signals.c`) | handlers and masks | SIGUSR1, SIGUSR2, SIGINT | handlers that are not installed yet | nothing is left running |
| Flowops (`flowops_library.c`, `flowops.c`) | the connection each flowop keeps | read, write, connect, accept, disconnect, think | partial reads, hangups, stale connections | a flowop uses an open connection of its id |
| Handshake (`handshake.c`) | the protocol's phase | two phases, end of the handshake, on both sides | failure half way, both sides reading | both sides agree or both fail |
| Work order (`workorder.c`) | groups, transactions, flowops | sizes, clone, `group_opposite`, `group_bitswap` | rounding, sizes known only later | the slave's work mirrors the master's; the buffer is large enough |
| Goodbye and statistics (`goodbye.c`, `stats.c`) | counters per strand and in total | `stats_update`, `safe_read`, sums, differences | time limits, failed and partial transfers | what is counted was moved |
| Error log (`logging.c`) | a bounded table of messages | `uperf_log_msg`, `uperf_log_flush` | concurrent callers at the limit | no message is stored outside the table |
| Parser (`parse.c`), numbers and rates (`numbers.c`, `rate.c`) | tokens, lists, the list of errors | `parse`, `build_worklist`, `string_to_int`, `rate_execute_1s` | tokens in any order, widths | valid profiles are built as written, wrong ones are rejected |
| Protocols (`protocol.c`, `generic.c`, `tcp.c`, `udp.c`, `sctp.c`, `ssl.c`, `vsock.c`, `rds.c`) | sockets | create, listen, connect, accept, read, write, disconnect, fini | descriptors are reused by other threads; UDP shares one socket; short transfers | sockets are closed once; a transfer moves all of its bytes |
| Printing, packet statistics, hardware counters, options | none the run depends on | | | not modelled |

How they interact: the processes talk over the control connections only (commands down, one goodbye
up; anything a master reads before the end is taken for an abort). Within a process, the main thread
and the strands share the segment: barriers, callouts, error and finished counts, and the `signalled` and
`strand_state` fields of each strand, without locks. The main thread interrupts strands with SIGUSR2 and
ends them with SIGUSR1 or SIGKILL.

## Modules

| Module | Models | Uses |
|---|---|---|
| `LockStep` | abstract: what barriers and NEXT_TXN promise | |
| `RunControl` | the master, the slaves and their strands, each transaction abstracted to success or failure | `LockStep` by INSTANCE as `Promise` |
| `MCRunControl` | instances of it for TLC | EXTENDS `RunControl` |
| `RunControlProofs` | its theorems about types, errors, barriers and the exit status | EXTENDS `RunControl`, TLAPS |
| `CommandProofs` | its theorems about the order of the commands, and that it implements `LockStep` | EXTENDS `RunControlProofs` |
| `Extrema` | lemmas: finitely many numbers have a least, a largest and a bound | |
| `Duration` | one process, master or slave: transactions flowop by flowop, callouts, SIGUSR2 | |
| `MCDuration` | profiles for it | EXTENDS `Duration` |
| `DurationProofs` | its theorems about types, barriers, the ends of transactions, signals and callouts | EXTENDS `Duration`, `Extrema` |
| `Handshake` | the master, the daemons on the slaves' hosts and the slave processes until the strands are let go | |
| `MCHandshake` | groups and hosts for it | EXTENDS `Handshake` |
| `HandshakeProofs` | its theorems about types, the daemon, the protocol and the ports | EXTENDS `Handshake`, TLAPS |
| `Connections` | one strand: its connections, their cache, the pointers its flowops keep, and the descriptors it shares with the other strands | |
| `MCConnections` | profiles for it | EXTENDS `Connections` |
| `ConnectionsProofs` | its theorems about types, descriptors, the list, its cache, and the connections that flowops use | EXTENDS `Connections`, `Extrema` |
| `Exchange` | a strand of the master and the slave's strand that mirrors it, in one transaction: sizes, counts, reads and writes over each transport | |
| `MCExchange` | flowops for it | EXTENDS `Exchange` |
| `ExchangeProofs` | its theorems about types, the buffer, what is counted and what is left | EXTENDS `Exchange`, `Extrema` |
| `Profile` | the parser: tokens to work order, with numbers of a given width | |
| `MCProfile` | profiles for it | EXTENDS `Profile` |
| `ProfileProofs` | its theorems about the work order: what is current, numbers and counts | EXTENDS `Profile`, TLAPS |

The models meet at their ends. `Handshake` ends where `RunControl` begins: its `AgreedToRun` is
`RunControl`'s initial condition that every slave has its work and its strands. `Duration` is what goes
on inside one transaction of `RunControl`, in one process. `Connections` is what the flowops of one strand do to
its connections; other strands share only the numbers of its descriptors. `Exchange` is what two strands that
`Handshake` has paired do in a transaction: its ends are the ends that `Duration` takes for granted when a
transaction has iterations. `Profile` produces what `Handshake` sends.

### RunControl

Process 0 is the master, `1 .. NSlave` the slaves; each has `barrier`, `count`, `globalError` and
`finished`, the segment of `shm.h`. A strand has a place in the code (`pc`), a transaction, and whether it was
killed. `mpc` and `spc` are the places of the main threads. The control connections are a sequence of
commands per slave and one flag for the goodbye. The actions, one per step that other threads or processes
can tell apart:

* strands: `StrandStart`, `ArriveAtBarrier`, `PassBarrier`, `TxnSucceeds`, `TxnFails`,
  `FlagErrorRead`/`FlagErrorWrite` (the two halves of `global_error++`), `StrandExit`, `StrandDies`;
* master: `MasterPoll` (top of the loop), `MasterPollSlaves` (`poll_slaves`, and the callouts),
  `MasterBarrier`, `MasterSendNext` (one slave per step), `MasterUnlock`, `MasterDrain`, `MasterDecide`, `MasterReturned`,
  `MasterKill`, `MasterSendAbort`, `MasterSendStats`, `MasterJoin`, `MasterGoodbye`, `MasterExit`,
  `MasterInterrupted`;
* slave: `SlavePoll`, `SlaveIdle`, `SlaveEOF`, `SlaveCommand`, `SlaveSkips`, `SlaveUnlock`, `SlaveWaits` (one
  turn of `wait_unlock_barrier`), `SlaveKill`, `SlaveJoin`, `SlaveGoodbye`, `SlaveCrash`.

A strand's `global_error++` is two steps. That of a main thread is one, which loses the increments the strands made since
the thread last found the count 0 (`AddError`); only in `wait_for_strands`, where a process that was killed adds to a count
that is positive already, none are lost. The test of `global_error` and what follows from it are one step where that is
the kill of the strands. A poll of the master may fail, which counts as a slave that aborted.

A write to a slave that has gone may succeed (the first one usually does) or fail. Time limits are
nondeterministic: a poll may time out, a goodbye may come too late. The callouts are here only the error they
may add; what they do is `Duration`'s subject.

Two assumptions are named: `ConfigAssumption` gives the constants their types, with the fact that a slave is
created for one group; `PopulationAssumption` says that every group has a strand on the master and every slave
has a strand. Only the refinement of `LockStep` needs the second: without a strand that has the last transaction the
master would announce it in the step that opens the barrier before.

### Duration

`Processes` is the set of processes a run looks at, each a role with its transactions; `self` is the one it is
about. The strands of one process, with `signalled`, `strand_state`, `errno` and the result of the last flowop, and its
main thread with the program counters of `shm_process_callouts` and `signal_all_strands`. The steps of the two
loops over the strands are separate actions (`Mark` reads the state, `Set` writes the flag), so the races of
the code are in the model. A flowop is four steps: `Flowop` checks the flag, `EnterCall` enters the system
call, `Return` or `Deliver` (the signal) leaves it, `After` decides. The check of the flag in `flowop_rw` is the
same as the one before it, so the two are one step. Time is the order of events: `Due` makes a callout due at any time
after it was registered. With `Prompt`, which all runs use, a strand gets to run within the duration of its transaction and
within the 200 ms between two rounds of signals. The transactions' rate callbacks are not modelled.

### Handshake

A control connection has two sequences of messages, `to` the slave and `fro`m it, one message per struct that is
written, except that the structs of a work order are one (`TxGroup`, `RxGroup`). `cur` is the connection the
master's loops are at, `mpc` its place in them; `spc` is the place of a slave in `slave_master`. Ports are
abstracted to how often a set of strands began to listen, so that ports that were replaced can be told from the ones
in use: `listening` and `ports` are the truth on the master and on a slave, `told` and `known` what the other side has
heard. The daemon of a host has its `backlog`, the connection it `held` while it forks, and its accounting of
children: `zombies`, one pending SIGCHLD (a second is merged with it), `reap_children`, and the value the loop has
loaded for `reap_children--` (`seen`), which the handler may make stale.

A connection ends for its reader when the last process that holds it is gone: the daemon holds the slave's end
until it closes it, and strands of the master that are processes hold the master's. `MaxFault` bounds the faults:
a connect, a fork, a listen, an allocation or the creation of a strand that fails, and the death of a slave at any
point. A slave that exits with unread input may destroy what it wrote (`Exits`). The message of
`slave_handshake_p2_failure` has a status and a count that were never set: both are arbitrary. A slave rejects
the master in phase 1 only on a host of `Suspect`.

### Connections

`heap` is the memory of the strand's `protocol_t` objects: an object that was freed may be allocated again at once.
`cpool` and `ccache` are the list and its cache (`strand.c`), `conn` is `f->connection` of each flowop of the current
transaction, `listener` the strand's `listen_conn`. One action per kind of flowop (`Connect`, `Accept`, `Disconnect`,
`ReadWrite`), each with the step to the next flowop, iteration or transaction that follows it, and `Fini`. A flowop
with a count stands in the list as often. Any flowop may succeed, fail, or be interrupted, which ends its
transaction. The place the cache replaces is counted by one variable of all strands, so here it is any place. A
search in a list that is a circle does not end: the action is not enabled, and the run would report a deadlock.
`Disconnect` and `Delete`, the two halves of `flowop_disconnect`, are two steps, and so is anything between which
another strand of the process may open or close a socket (`OtherOpens`, `OtherCloses`): the kernel hands out the
lowest free descriptor, so a number that was closed may be somebody else's socket at the next step. The
protocols differ in what connect has done before it fails (`Tried`), what accept leaves behind (`Accept`, `Lost`),
what disconnect forgets (`Disconnected`), and what is closed when (`Closes`). Deletion disconnects what is
in the cache and deletes what is first in the list, as the code does.

### Exchange

`profile` is one transaction with a protocol; `Txn("slave")` is what `group_opposite` and `optimize_txn_for_slave` make
of it. Each side is at a flowop (`at`), in one of its `n` executions, at a `stage` of the transport's function, with `sz`
bytes moved by the loop of `flowop_rw`. A stream is a number of bytes on the `wire`, which holds `Capacity`; UDP, and
SCTP with partial delivery, keep the messages apart. `Moved` is what one system call may return. `Read` and `Write` are the
polled and unpolled calls of `generic.c`, `ssl.c`, `udp.c` and `sctp.c`, with repetitions, batches and the
non-blocking first try (`FirstRead`, `FirstWrite`); `GivesUp` is a poll that timed out, `HangUp` the end of the
connection, `Lose` a datagram that the network drops. `counted` is what `stats_update` adds, `moved` what really passed the socket,
and `high` the last byte of the buffer that was touched. Signals are `Duration`'s subject and do not come here.

### Profile

A file is a sequence of tokens as `next_token` returns them. `Skip`, `Cut` and `ParseToken` are a turn of the loop of
`parse`, with the merging of `=`, `<` and `</` with their neighbours; `BuildSymbol` is a turn of the loop of
`build_worklist`, with `grp`, `txn` and `flowop` for `curr_grp`, `curr_txn` and `curr_flowop` as paths into the work order `w`
(`<<>>` for NULL), `ParseOption` one option of a flowop, and `BuildEnds` the final test of `parse_app_profile`. A
dereference of NULL, an invalid `free`, and a store past the end of `w.grp` (`MaxGroups`) or `opt_arr` (`MaxOptions`) end
in the phase "crash". Numbers have `IntBits` bits: `Wrap` is the cast to `int`, `Overflows` the test of `string_to_int`. Times
are computed with floats: `Float` rounds to `FloatBits` significant bits, as the conversion of the digits and the
product of `string_to_nsec` do, and `ToUnsigned64` is the cast, which is undefined out of range. Words are names in small sets; that an
option is cut after 99 characters is not modelled.

The second half of the module (`Valid`, `Wrong`, `GroupIs` ...) is the reference: what a profile means by the places of its
tags and attributes, written without the parser's state, and compared with the parser's result. Its numbers are exact
(`Exact`, `Nsec`), and `ValidIsBuilt` asks for those numbers, for times within the precision of a float (`IsNear`: two
roundings, and the truncated fraction of a nanosecond). `IsWrong` follows the messages and comments of the source, not its
tests: "connection id should be > 0", "not valid time suffix", "is too large". Where the parser accepts what they call wrong, `Missed`
names the values, and `AcceptedIsSound` says that nothing else gets through; each of these values occurs in the run and is
accepted in it. `IsLax` has what no text decides: what `atoi` leaves unread, and times from 2^63 ns to 2^64.

## Runs

Each passing run bounds the numbers of strands, transactions (`Ntxn`, `Txns`), slaves, crashes
(`MaxCrash`, `MaxFault`) and turns of a wait (`MaxWait`, `Retries`); nothing else needs a bound.

| Run | Instance | Shows |
|---|---|---|
| `uneven` | two groups with 1 and 3 transactions, one strand each on the master; the first has a slave | `ReachedMeansAllArrived`, `SuccessMeansComplete`, `CommandsInOrder`, `ErrorIsSticky` |
| `follow` | 1 strand on the master, 2 on the slave, no goodbyes | `IInv`, `BarrierSafety`, `SlavesFollowMaster`, `CountIsExact`, `FailureStopsRun`, and the refinement `ImplementsLockStep` |
| `handshake` | three groups, whose strands accept on the master, on both sides, and on the slave; two slaves share a host; two faults | `TypeOK`, `AgreedToRun`, `ReadsMatchWrites`, `PortsAreCurrent`, `DaemonNeverBlocks`, `HandshakeEnds` |
| `fan` | two slaves, one may die; interrupt | `StatsAfterLastTxn`: no send that failed is passed over |
| `termination` | one strand on each side, the master's a process; crash | `TypeOK`, `Termination` |
| `netperf` | 2 strands in connect / duration / disconnect, 1 in another group with a duration at the end; errors | `TypeOK`, `NoStaleSignal`, `CalloutIsCurrent`, `LastsForDuration` |
| `to_the_end` | a master with 2 strands, 2 iterations of 2 flowops, then a duration, with errors; or a slave with 2 strands, a duration and then a transaction, with hangups | `IterationsComplete`, `Finishes` |
| `connections` | profiles of two transactions, up to 2 flowops run once and up to 3 run twice, that connect with one id and accept with another and open 3 connections at most: all with TCP, a selection with SCTP, vsock, SSL, UDP and RDS; another strand | `TypeOK`, `UsesLiveConnection`, `PoolIsList`, `CacheIsLive`, `SocketsAreClosed`, `ClosesItsOwn` |
| `exchange` | one or two flowops run once or twice over TCP, SSL, UDP and SCTP: fixed and random sizes of 1 to 3, counts, `rsize`, repetitions, batches, time limits, files, a disconnect | `TypeOK`, `FitsBuffer`, `CountedIsMoved`, `NothingLeft`, `BothEnd` |
| `profile` | 7744 files: two profiles with every single token replaced, inserted, removed or swapped; every file of two tokens; every option with every value; lists of options up to one too many; every number of a byte with every unit | `TypeOK`, `ValidIsBuilt`, `AcceptedIsSound`, `CountsAreLengths` |

Two strands per process are the smallest number with a race between strands, with a barrier that
is half full, and with a group that has a leader and a member. Two transactions are enough for a strand to
be one behind; three in `netperf` let a callout or a signal reach both the transaction before and the
one after. Two slaves are enough for a command that one gets and the other does not. `Retries = 2`
is enough for every strand that runs promptly to leave its call (with 1 a group may be given up whose callout is
still registered, which aborts the run); the code has 5, and the failure branch of
`signal_all_strands` is reached by the slave of `to_the_end`, which has 1. Strands of one group on one process are
interchangeable, and `follow` uses that symmetry.

In `connections` a cache of size 2 (the code has 8) fills one place, so that every second id replaces the first. Three
connections make a list with a middle. Six descriptors are enough for standard input, a listener, three
connections and another strand's socket. Two iterations let a pointer outlive its connection. The profiles are all
within these bounds except those whose repeated transaction opens or closes connections but begins with a read or
write, and those with a connect that may fail: both break `UsesLiveConnection` (see below).

Two faults are enough for a failure during another one's clean-up; two slaves on one host for
merged signals and for a daemon that must serve one while another has failed.

In `exchange` the sizes go up to 3 and the wire holds 3, so that a write may be short, split, or wait for the
reader; the default size is 2, so that a buffer too small by one shows; one loss is enough for a read that
gets nothing. In `profile` an `int` has 8 bits and a unit shifts by 3 (32 and 10 in the code), so that all numbers around the
limits occur; two profiles of two groups with their transactions hold every tag and attribute, and one change is
enough for each error of the parser; 3 errors end the list that takes 100 in the code. Two groups and three options fill the
arrays (1024 and 100 in the code), so that an inserted group goes past the end. A float has 7 significant bits (24 in the
code): enough for 10^3 to be exact, as 10^9 is in 24 bits (`MultiplierAssumption`), and few enough for 33 s, 257 ns and
1277 us to be rounded, 257 and 1277 before the product too.

`SuccessMeansComplete` says what the exit status of the master means when there are slaves and no send failed. Both
conditions are needed (see below). Two runs end in a violation. Each checks a sentence of the documentation:

* `orphan`: after Ctrl-C the master is gone, its strands that are processes wait at their barrier with SIGINT blocked,
  and because they still hold the control connections the slaves poll for ever (`signals.c:71`);
* `stale_errno`: EINTR stays in `errno` after a duration; the next transaction ends after its first flowop
  (`execute.c:80`). When the next transaction has a duration, its callout stays registered, and the leader's
  registration for the one after is refused, without notice (`execute.c:52`).

The models also show these behaviours, which no run singles out:

* the master reports success although strands still run, when SEND_STATS fails (`master.c:336`), and in every run
  without slaves, where the number of commands sent is 0;
* a slave with fewer transactions than another group unlocks one barrier that was never initialised (`slave.c:109`,
  `>` for `>=`), as in `uneven`; nobody waits there (`BarrierForWaiters`);
* an error on a slave in the last transaction is not noticed by the master (`master.c:322`);
* a slave that is behind is signalled before any wait, out of iterations too (`slave.c:120`). The
  same signal may also hit the transaction after: between the test of `strand_state` and the write of
  `signalled` the strand may clear its flag and go on, so `NoStaleSignal` is a property of a master;
* a group that accepts on the master and has two slaves (`GroupOf` constant, `MasterAccepts` the group): phase 2 makes
  the strands listen once for each slave and keeps the last ports only (`handshake.c:294`), so
  `PortsAreCurrent` fails for the first slave, although `handshake.c:396` says that phase 2 is done once per group;
* with strands that are processes (`ProcGroup`), a slave that dies after they were created lets the master return
  without killing them (`master.c:567`), and the other slaves wait: `HandshakeEnds` is checked with threads;
* a flowop looks up its connection again only after a connect, accept or disconnect before it that succeeded
  (`flowops_library.c:177`). In `[read, disconnect, connect]` run twice, or in
  `[connect (may fail), write, disconnect]` run twice with a second connect that fails, the read or write uses a
  connection that was freed; `UsesLiveConnection` fails when these profiles are admitted. `../manual/uperf.xml:414-420`
  says that the failure of such a flowop does not make uperf abort;
* after `[connect, read, connect]` with one id, disconnect closes the connection of the read and deletes the other
  (`flowops_library.c:198-205`); the list keeps one that is closed;
* the socket of a UDP client is never closed: its reference count does not go below -1 (`udp.c:500`), and a UDP
  listener that is accepted twice without a disconnect is linked to itself (`udp.c:392`, `strand.c:135`), so that
  `PoolIsList` fails and a search for another id does not end;
* a strand that fails in its duration may end before it is signalled; when the call to it goes on succeeding, the master counts its
  own error and leaves the callout registered (`shm.c:107`). That makes two errors, so the other
  strands of the group leave the run at the barrier they are let into: `CalloutIsCurrent` says "waits, or leaves";
* with two groups that last for different times, the last callout of one is lost when the other has finished
  (`master.c:322`), and the run hangs: `Finishes` is checked with one group;
* SSL closes its descriptor outside the guard against being called twice and keeps the number (`ssl.c:351`); `ssl_fini`
  closes it again, by then perhaps the socket of another strand, and an object that never had a socket closes descriptor 0. An
  SSL_accept that fails leaves its descriptor open. So `SocketsAreClosed` and `ClosesItsOwn` leave SSL out;
* a TCP or SCTP accept that fails loses its object; a listener at a fixed `port=` is shared by the strands and destroyed by
  each; an RDS socket that cannot be created ends the process;
* a merged SIGCHLD or a lost decrement leaves a zombie of the daemon behind for good: `reap_children` is
  never too high (`DaemonNeverBlocks`), but may be too low.

Of the exchange (`MCExchange` has only profiles for which the properties hold; admit one of these and the run
fails):

* `size=rand(min,max)` leaves `size` 0, so the buffer has the default 8192 bytes while up to `max` are moved, and a UDP read
  that would have blocked then asks for one byte more than the size, `nleft = n - ret` with `ret` -1 (`udp.c:184`): `FitsBuffer`;
* a count that `rsize` does not divide, `rsize` with repetitions, and any `rsize` with a count of 1 (`size/rsize` is then 0
  and the iterations are not reduced, against the comment `workorder.c:211-217`): the slave reads less, or waits for more, than the
  master writes. An `rsize` below the size is ignored. With UDP a master's larger `rsize` reads as many datagrams as bytes were
  counted, and blocks;
* sizes drawn at random leave a TCP reader waiting, and so does a sendfile that sends nothing (sendfilev on Linux) or the
  rest of a file; a disconnect afterwards ends it;
* a flowop that fails counts -1 times its executions, one that may fail counts its last result as 0, and one that is signalled is not
  recorded at all; sums of sizes drawn at random count the last one only;
* `poll_timeout` does nothing for writes and for SSL; UDP, SCTP, SSL and vsock have no send and recv.

Of the parser:

* `name = "x"`, or an empty attribute and another token, frees a pointer into the middle of a block (`parse.c:258`), although the
  manual says that "the profile needs to be a valid XML file"; a `type` or `options` outside a flowop, or a flowop
  outside a transaction after `</group>`, dereferences NULL. These end in the phase "crash", which `ValidIsBuilt` excludes only
  for files written as the manual writes them (`Regular`);
* times are computed with floats (`numbers.c:107`, `:154-162`) and keep 24 significant bits, although `numbers.c:128` says "convert number
  to nanoseconds": 30s is stored as 30000001024 ns, 123456789ns as 123456792;
* `count`, `port`, `conn`, `repeat` and `batch_size` are read with `atoi`: `1k` is 1, and a negative count becomes a large one (`IsLax`);
* the values of `Missed`, wrong by the parser's own messages and yet accepted: `conn=-1`, because `p_id` is unsigned
  (`workorder.h:96`) when `parse.c:533` compares it with 0, against "connection id (conn=%s) should be > 0"; a time with an unknown
  unit, a negative float that is cast to `uint64_t`, which on x86 is not 0, against "not valid time suffix" (`numbers.c:123`); a time of 2^64 ns or
  more, where the cast saturates; a number of 2^32 and more that is cut to an `int` before the test of "is too large"
  (`numbers.c:79`, so `size=4294967297` is 1; a `repeat` of -4294967295 is 1 too); a fraction between INT_MAX and UINT32_MAX, an undefined cast; and
  a time whose variable has a value that begins with `$` (`numbers.c:137`: 2^64-1);
* a profile of more than 1024 groups or an option list of more than 100 words is stored past the end of an array
  (`parse.c:826`, `parse.c:794`);
* `next_token` folds case, so `$HOST` looks for `$host`; an option that begins with no letter is dropped without an error; an
  empty profile, a group without threads and a flowop without a type are accepted; after too long a token the rest
  of the file is not read, and the check for too many errors lets one be stored past the end.

## Fairness

`RunControl!Fairness` is weak fairness of each main thread and of each strand: threads are scheduled by the
kernel, and no thread of uperf disables another's step without taking one. It includes that a transaction
ends; `Duration` shows when it does. `SlaveCrash` and `MasterInterrupted` are never required. A pending kill is
delivered.

`Handshake!Fairness` is weak fairness of the master, of each slave and daemon, and of the delivery of SIGCHLD;
no fault is ever required, because each is an alternative to going on.

`Exchange!FairSpec` is weak fairness of the two strands; the network need not lose anything. `Connections` and
`Profile` have no liveness property: each of their steps ends.

`Duration!Fairness` is weaker where it matters: a call under a duration need never return (its peer may be silent),
only a call under iterations does. `SlaveCommand` has strong fairness because the slave's poll is
level-triggered: a command that was sent stays readable while the slave goes through its loop.

## Proofs

`RunControlProofs` proves for every number of slaves, strands, groups and transactions, with crashes and
interrupts:

* `TypeCorrect`, and `ErrorsAreSticky`: the lost update of `global_error++` never takes a count back to zero;
* `Invariance`: `IInv` is an invariant of the specification;
* from it `BarriersAreSafe`, `SlavesFollow`, `CountsAreExact`, `ReachedIsAllArrived`, `FailuresStopTheRun`.

`BarrierSafety` is not inductive: it says what a strand that runs may rely on, and not why the
barrier was open. `IInv` adds the chain that leads there. A strand is within its transactions
(`TxnInRange`). The count of a barrier is the number of strands that reached it (`CountIsExact`), so
BARRIER_REACHED, an equality of numbers, means that a set of strands is complete (lemma `ReachedIffArrived`, by the
cardinality of a subset). A strand runs only behind a barrier that is open (`BegunIsReleased`, which needs
`BarrierForWaiters`: a barrier that was never initialised has nobody waiting at it). An open barrier has all its
own strands and all the master's (`OpenMeansArrived`); for a slave the second half comes from the command,
so every NEXT_TXN in a channel, about to be sent or being acted on names a barrier the master's strands
have reached (`AnnouncedMeansArrived`). Arrival is for good (lemma `ArrivedForGood`), which keeps all of it. The proof
has one lemma per part of `IInv`, and frame lemmas that say which few actions change a variable
(`OnlyStrandsMove`, `BarrierStep`, `ChannelStep`).

`CommandProofs` adds `OInv`, by which a slave is told the transactions in order:

* `CommandsAreInOrder`: while a slave runs, its open barriers are those of the first transactions, and the commands in
  its channel name the ones that follow, each once; SEND_STATS comes only after the last;
* `StatsComeLast`: so a slave that joins its strands for SEND_STATS has none left at a barrier.

What has to be excluded is a slave that missed a NEXT_TXN because `send_command_to_slaves` stopped at an earlier slave, and
is told the next one. `CommandsAreTold` therefore counts: as long as the master goes on and no write failed at or before the slave's
place in the loop (`Reached`), what the slave acted upon and what is in its channel add up to what the master announced
(`Told`). A write only fails towards a slave that has gone, and `poll_slaves` sees that before the master comes to
another barrier (`BrokenStops`); then nothing but ABORT is sent. The master's own side is `MasterInOrder`. One lemma
each says what a send (`SendsInOrder`) and the slave's steps (`ActsInOrder`) do to a slave's place in the order.

`CommandProofs` also proves `RunControlImplementsLockStep`, `Spec => ImplementsLockStep`, from `OInv`. A transaction is announced
when the last strand of the master reaches the barrier of `curr_txn` (`ArrivalAnnounces`), and not a second time by
`curr_txn++`, because no strand is past a barrier that is still closed (`AnnouncedByUnlock`, by `PassedIsOpen`).
`unlock_barrier` on either side is a release of the next transaction (`UnlockReleases`), which for a slave needs
that its barriers open in order and that it is not told of a transaction ahead of the master (`NothingAhead`);
`PassBarrier` and `TxnSucceeds` begin and end one; everything else is a stutter.

`RunControlProofs` also proves `SuccessIsComplete`. `EInv` says that a strand that ends early leaves an error behind
(`ShortfallIsError`), that the master leaves without its strands only after an error that is counted, a broken connection
or without slaves (`ErrorIsCounted`), and that nobody changes the count after it has been looked at (`NoErrorAfterExit`).

`HandshakeProofs` has three invariants, for every number of groups, hosts, slaves and faults:

* `Typed` (types, the places a process can be in with what it holds there, and the accounting of the daemon's children) gives
  `HandshakeTypes`, and `NeverBlocks`: a child is counted only after it was forked, and the value of `reap_children` that the loop
  has loaded is at most the number of children that ended, whatever SIGCHLD comes in between;
* `Conversation` says for each connection what the two sequences of messages may hold at each pair of places of the master and
  the slave, with the ends that failures leave. It gives `ReadsFindWrites` and `AgreeBeforeRun`; `SlavesPortsKnown` says that the ports the
  master uses are those the slave told it;
* `Ports` gives `CurrentPorts` under the hypothesis `OneSlavePerAccept`: a group that accepts on the master has at most one slave. Without
  it the theorem is false (`handshake.c:294`, see above).

`ExchangeProofs` proves `ExchangeTypes`, `BufferFits` and `CountedMoved` for every profile that meets named hypotheses, each a known
limit of the code: `SizesAreGiven` (a flowop that moves data has a size), `BufferIsEnough` (random sizes are at most the default
buffer, and a datagram socket that does not block has a byte to spare; sufficient, not necessary) and `EvenExecutions` (the
executions of one flowop move the same: no repetitions, batches, or files without a size where it has a count). All profiles of `exchange` meet the first and the third; of its 201, 169 meet the second
and TLC checks the others. `NothingIsDivided` says that the
iterations of the slave's transaction are never divided: `size/rsize` is computed only for an `rsize` that is larger, so it is 0
(`workorder.c:231`), against the second point of the comment at `workorder.c:211`.

`NothingIsLeft` is about profiles that meet `AmountsAgree`: the flowops of the two sides amount to the same, one by one. No size is
drawn and no flowop may fail; a file goes over a stream and has a size; `count` times what an execution moves (bytes of a
stream, messages of UDP and SCTP) is the same for a flowop and its opposite, so a larger `rsize` counts only if it divides
what is sent; and messages have one size. On SCTP there are no repetitions or batches, since the end of an association can cut a
batch short. 131 of the 201 profiles of `exchange` meet it; for the others (sizes drawn for UDP, for instance) `NothingLeft` is only checked.
The property itself speaks of the end only, where nothing is known of how it was reached. `Kept` says it at every step, as long as no
strand has failed and no datagram was lost: what one side has sent (`Done` of the sender) is what the other has received plus what is
on the wire (`Load`), where `Done` adds the iterations and flowops behind (`Base`) to the executions and bytes of this one
(`Progress`), and the position in the loops is tied to them (`Sized`, `Within`). Every call that moves bytes then moves `Done` and `Load` by
the same amount, and every other step moves neither; at the end both sides have the same sum, and `Load` is 0. The sums over
flowops (`Upto`) are functions that exist and are equal because a least index where they fail would be one behind an index
where they hold.

`DurationProofs` proves `DurationTypes` and `DurationBarriers` (no strand is in a transaction that another one of the process has not
come to) of every process. The other theorems are about a master that is `Undisturbed`: no flowop is ended by
a hangup, which the code takes for the end of the duration, and each group has at most one duration. With two, the
callout of the second is refused when EINTR was left in `errno` by the first (`stale_errno`). Errors of flowops are allowed
everywhere. A slave is also signalled by `wait_unlock_barrier`, out of any transaction: there all of this is false.
Each invariant uses the one before:

* `Schedule`: a strand that is *out* of its duration (was signalled, has EINTR, is in a later transaction, or is about to leave)
  has a callout that is not waiting for its time any more. `DurationLasts` follows; with durations only at the end of each group
  (`EndsWithDuration`, or the EINTR that stays behind ends the next transaction) so does `IterationsAreComplete`;
* `Sweep`: a strand that is out while the callout is due was passed by the loops of `signal_all_strands`, so it is not
  signalled again (`SignalsStay`). The race is between the test of `strand_state` and the write of `signalled` (`SetInDuration`): in
  between, a strand can only leave the duration when it is out, and then it was passed;
* `Rounds`: what the second and third round of signals can find. A strand that is still signalled then has ended, after a failure that is
  counted (`Visible`, `Failing`), so that `signal_all_strands` fails only after another error. This needs
  `EnoughRounds`: three rounds at least (the code has 6), and 200 ms between them that are enough for a strand (`Prompt`);
* `TakenBack`: a callout is taken back before its group goes on, or two errors are counted and the strands leave the run at the next
  barrier. This is `CalloutsAreCurrent`.

TLC checked these invariants too, on the instance of `netperf` and on one of two groups whose durations are
their first and their second transaction; the latter showed an earlier, stricter form of `CalloutIsCurrent` to be false.

The lemmas of `Extrema` need an induction over the numbers. The provers cannot use an induction principle that takes a
predicate as a parameter, so the induction is an argument about the least counterexample, with the least element
of a set of numbers.

`ConnectionsProofs` is about every profile (`ProfilesAssumption`: a protocol, transactions with flowops, ids that are
numbers) and any number of objects, with descriptors for all of them (`BoundsAssumption`):

* `TInv` gives `ConnectionTypes` and `StrandsCloseTheirOwn`. A descriptor that is open for an object is the one the object
  names, so an object has one at most (`FilesInv`); the other way round, without SSL, the descriptor an object names is
  open for it (`OwnFiles`), and so what is closed by its number is the strand's own. That a socket always finds a free number
  is a count: the objects that have one, standard input and the other strand's socket are fewer than the descriptors;
* `ListInv` gives `TheConnectionsAreAList`, `TheCacheIsLive` and `SocketsAreAllClosed`: there is a sequence of different
  objects, linked both ways, that begins at `cpool` and holds what is cached and, for a stream protocol, whatever has a
  socket, except the listener. The sequence is the witness that adding (`ListAdded`) and taking out (`ListUnlinked`) extend
  and shorten. The model walks the list by the recursive function `Node`; what it finds is proved with finite walks, of which two always
  agree, because a least place where they differ does not exist;
* `ConnInv` gives `FlowopsUseLiveConnections`: what a flowop keeps is in the list with its id as long as nothing is
  taken out, or is forgotten before its turn comes again.

Two hypotheses are limits of the code. `AcceptsOnce`: UDP and RDS accept with the listener itself, so a second accept
links it to itself and the list has no end (`udp.c:392`, `strand.c:135`); stream protocols need nothing. `SocketsAreAllClosed`
speaks of those only and has no hypothesis. `LooksAgain`: each transaction never disconnects, or runs once, or begins with
a connect, accept or disconnect and has none that may fail; otherwise a read keeps what was destroyed (`flowops_library.c:177`). All
5380 profiles of `connections` meet the second and 5376 the first. The other four, `[accept, read, disconnect]` twice with
UDP and RDS, have a disconnect between two accepts, and for them the list stays model-checked.

`ProfileProofs` proves `ProfileTypes` and `CountsMatchLists` for any files and any environment whose tokens are what
`next_token` may return (`TokensAssumption`) and any width of an `int` above one bit. The counts alone are not
inductive: a transaction is linked behind `curr_txn` and counted in `curr_grp`. `PInv` adds that `curr_txn` is in `curr_grp` and
`curr_flowop` in `curr_txn`, each the last one of its list, and that a list without a current element is empty: what is linked behind
the current element, or at the head, loses nothing (`LinkedBehindTheLast`). That the numbers are within their fields follows from `Wrap` and `Unsigned` (`StringToIntInRange`,
`AtoiInRange`), for which powers of two must be natural numbers, and twice the one before: without induction that is the number of
subsets of a finite set.

Only model-checked: the liveness properties (`Termination`, `Finishes`, `HandshakeEnds`, `BothEnd`), because TLAPS does
not prove liveness under fairness; `ValidIsBuilt` and `AcceptedIsSound` of `Profile`, which compare the parser with a reference
by the places of tags, counted and sorted, and would need an induction over the file; and what theorems state under a hypothesis, outside of it. All other safety properties that the runs
check, and the refinement, are proved.

## Not modelled, and the plan

Not modelled: the table of messages (`logging.c`), printing, packet statistics and hardware counters, on which no state of
the run depends; the command line, whose outcomes are where the models start; `next_token`, the byte order of
the handshake (`group_bitswap`, its sizes and the names); rates and delays, which depend on a clock; socket options, name
resolution, and the reads and writes of RDS and vsock, which are those of `generic.c` with their own addresses; the sums
of `stats.c` over strands, and `safe_read`, of which only the outcome is modelled.

Next would be:

1. `Goodbye`: `safe_read` against partial reads, the sums and differences of `say_goodbyes`; `LogBuffer`: callers, flush
   and limit.
2. Proofs: `NothingLeft` of `Exchange` for sizes that are drawn, and for batches on SCTP; `AcceptedIsSound` of `Profile`, one token at a time;
   the invariants of `Duration` for a slave whose commands come in time.
