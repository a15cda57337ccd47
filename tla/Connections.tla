---------------------------- MODULE Connections ----------------------------
(***************************************************************************)
(* The connections of one strand: a list of protocol_t linked both ways    *)
(* (cpool), a cache of it (strand.c), and the pointer each read or write    *)
(* keeps to the connection it used last (flowops_library.c), while          *)
(* connections of the same id come and go (generic.c, tcp.c, sctp.c,        *)
(* vsock.c, ssl.c, udp.c, rds.c).                                           *)
(*                                                                         *)
(* Memory that was freed may be allocated again, as malloc does, and the    *)
(* lowest descriptor that is free is used for the next socket; descriptors  *)
(* belong to the process, and its other strands open and close them too.    *)
(***************************************************************************)
EXTENDS Integers, Sequences, FiniteSets

CONSTANTS
  Profiles,    \* the profiles a strand may be given: [proto, txns, others]; a transaction is
               \* [iter, flowops], a flowop [type, id, canfail]; others says whether
               \* another strand of the process opens and closes a socket meanwhile
  MaxFlowop,   \* bound: flowops of a transaction
  NObject,     \* bound: protocol_t objects that exist at once
  NFile,       \* bound: descriptors
  CacheSize    \* STRAND_CONNECTION_CACHE_SIZE

ASSUME BoundsAssumption ==
  /\ MaxFlowop \in Nat \ {0} /\ NObject \in Nat \ {0} /\ NFile > NObject + 1 /\ NFile \in Nat /\ CacheSize \in Nat \ {0, 1}

ASSUME ProfilesAssumption ==
  \A p \in Profiles :
    /\ p.proto \in {"tcp", "sctp", "vsock", "ssl", "udp", "rds"} /\ p.others \in BOOLEAN
    /\ Len(p.txns) \in Nat /\ DOMAIN p.txns = 1 .. Len(p.txns)
    /\ \A t \in DOMAIN p.txns :
         LET f == p.txns[t].flowops
         IN /\ p.txns[t].iter \in Nat /\ Len(f) \in 1 .. MaxFlowop /\ DOMAIN f = 1 .. Len(f)
            /\ \A i \in DOMAIN f : f[i].id \in Nat

None == 0
Object == 1 .. NObject
Pointer == Object \cup {None}

\* Descriptors, and what they may be open for: standard input is 0.
File == 0 .. NFile - 1
NoFile == -1
StandardInput == NObject + 1
OtherSocket == NObject + 2

VARIABLES
  work,      \* the profile
  txn,       \* the transaction, its iteration and the flowop the strand is at
  iteration,
  at,
  phase,     \* "listen", "run", "delete", "fini", "done", "exited"
  conn,      \* [1 .. MaxFlowop -> Pointer]: f->connection
  heap,      \* [Object -> protocol_t]
  files,     \* [File -> the object whose socket it is, or another file, or None]
  cpool,     \* the first connection
  ccache,    \* the cached connections
  listener   \* listen_conn, or None

listVars == <<heap, cpool, ccache>>
posVars == <<txn, iteration, at, phase>>
cVars == <<work, posVars, conn, listVars, files, listener>>

\* refcount is UDP's; memory that is not used has no value that matters.
Protocol == [used : BOOLEAN, id : Nat, fd : File \cup {NoFile}, next : Pointer, prev : Pointer,
             refcount : Int]
Unused == [used |-> FALSE, id |-> 0, fd |-> NoFile, next |-> None, prev |-> None, refcount |-> 0]

\* One connection for each peer, or one socket for all.
Stream == work.proto \in {"tcp", "sctp", "vsock"}
Ssl == work.proto = "ssl"
Datagram == work.proto \in {"udp", "rds"}

\* create_protocol: calloc makes the descriptor 0, which only some set to -1.
Created(id) == [Unused EXCEPT !.used = TRUE, !.id = id, !.fd = IF Stream THEN NoFile ELSE 0]

Flowops == IF txn <= Len(work.txns) THEN work.txns[txn].flowops ELSE <<>>
Flowop == Flowops[at]
At(type) == phase = "run" /\ txn <= Len(work.txns) /\ Flowop.type = type
Accepts == \E t \in DOMAIN work.txns : \E i \in DOMAIN work.txns[t].flowops :
             work.txns[t].flowops[i].type = "accept"

TypeOK ==
  /\ work \in Profiles
  /\ txn \in 1 .. Len(work.txns) + 1
  /\ iteration \in Nat \ {0}
  /\ at \in 1 .. MaxFlowop
  /\ phase \in {"listen", "run", "delete", "fini", "done", "exited"}
  /\ conn \in [1 .. MaxFlowop -> Pointer]
  /\ heap \in [Object -> Protocol]
  /\ cpool \in Pointer
  /\ ccache \in Seq(Object) /\ Len(ccache) < CacheSize
  /\ listener \in Pointer
  /\ files \in [File -> Object \cup {None, StandardInput, OtherSocket}]

\* strand_init_group
Init ==
  /\ work \in Profiles
  /\ txn = 1 /\ iteration = 1 /\ at = 1
  /\ phase = IF Accepts THEN "listen" ELSE "run"
  /\ conn = [i \in 1 .. MaxFlowop |-> None]
  /\ listener = None
  /\ heap = [o \in Object |-> Unused]
  /\ files = [d \in File |-> IF d = 0 THEN StandardInput ELSE None]
  /\ cpool = None
  /\ ccache = <<>>

-----------------------------------------------------------------------------
(* The list and its cache                                                  *)

\* The nodes from cpool on; a list longer than the heap runs in a circle.
Node[n \in 0 .. NObject] ==
  IF n = 0 THEN cpool ELSE IF Node[n - 1] = None THEN None ELSE heap[Node[n - 1]].next

Linked == {Node[n] : n \in 0 .. NObject} \ {None}
Circular == Node[NObject] # None

\* The first connection with the id in the list, or None.
First(id) ==
  LET hits == {n \in 0 .. NObject : Node[n] # None /\ heap[Node[n]].id = id}
  IN IF hits = {} THEN None
     ELSE Node[CHOOSE n \in hits : \A m \in hits : n <= m]

Cached(id) ==
  LET hits == {n \in 1 .. Len(ccache) : heap[ccache[n]].id = id}
  IN IF hits = {} THEN None
     ELSE ccache[CHOOSE n \in hits : \A m \in hits : n <= m]

\* strand_get_connection
GetConnection(id) ==
  IF cpool = None THEN None
  ELSE IF Cached(id) # None THEN Cached(id) ELSE First(id)

\* The search comes to an end: it finds the connection, or the list is not a circle.
SearchEnds(id) == GetConnection(id) # None \/ ~Circular

\* Mutant: the last place is filled as well.
Full_Late == Len(ccache) = CacheSize

Full == Len(ccache) = CacheSize - 1

\* strand_put_connection_in_cache, after a miss.  The place to be replaced is one
\* variable of all strands, and may be the last one, which is never looked at.
FillCache(id) ==
  IF cpool = None \/ Cached(id) # None \/ First(id) = None THEN UNCHANGED ccache
  ELSE IF Full
       THEN ccache' \in {[ccache EXCEPT ![n] = First(id)] : n \in DOMAIN ccache} \cup {ccache}
       ELSE ccache' = Append(ccache, First(id))

\* strand_add_connection: h is the heap with the new connection o.
Added(h, o) ==
  LET linked == [h EXCEPT ![o].next = cpool]
  IN IF cpool = None THEN linked ELSE [linked EXCEPT ![cpool].prev = o]

\* Mutant: the next connection keeps its prev.
Unlinked_Prev(h, o) ==
  IF h[o].prev # None THEN [h EXCEPT ![h[o].prev].next = h[o].next] ELSE h

Unlinked(h, o) ==
  LET before == IF h[o].prev # None THEN [h EXCEPT ![h[o].prev].next = h[o].next] ELSE h
  IN IF before[o].next # None THEN [before EXCEPT ![before[o].next].prev = before[o].prev]
     ELSE before

\* socket(), accept(): the lowest descriptor that is free.
NextFile == CHOOSE d \in File : files[d] = None /\ \A e \in File : files[e] = None => d <= e

\* close() of each; an error if one is not open.
Close(fs, ds) == [d \in File |-> IF d \in ds THEN None ELSE fs[d]]

\* destroy_protocol: generic_fini and ssl_fini free, udp_fini and rds_fini only with few
\* references.
IsFreed(h, o) == Datagram => h[o].refcount < -1
Destroyed(h, o) == IF IsFreed(h, o) THEN [h EXCEPT ![o] = Unused] ELSE h

\* What they close: ssl_fini disconnects again.
ClosedWith(h, o) == IF IsFreed(h, o) /\ (Ssl \/ h[o].fd > 0) THEN {h[o].fd} ELSE {}

\* Mutant: the connection keeps the number of the descriptor that is closed.
Disconnected_Kept(h, o) == h

\* protocol_ssl_disconnect keeps the descriptor.
SslDisconnected(h, o) == h

\* protocol_udp_disconnect, protocol_rds_disconnect
Dereferenced(h, o) == [h EXCEPT ![o].refcount = @ - 1]

\* generic_disconnect
Disconnected(h, o) ==
  CASE Ssl -> SslDisconnected(h, o)
    [] Datagram -> Dereferenced(h, o)
    [] OTHER -> [h EXCEPT ![o].fd = NoFile]

\* Mutant: the cache is not flushed.
FlushCache_Never == UNCHANGED ccache

FlushCache == ccache' = <<>>

\* Mutant: the flowops keep their connections.
Renewed_Never(i) == conn

\* The flowop and those after it look for their connection again.
Renewed(i) == [j \in DOMAIN conn |-> IF j >= i THEN None ELSE conn[j]]

-----------------------------------------------------------------------------
(* The flow of control: txn_execute_once, txn_iterations, group_execute      *)

\* A strand also stops after a transaction when there were errors elsewhere.
NextTxn ==
  /\ txn' = txn + 1 /\ iteration' = 1 /\ at' = 1
  /\ phase' \in IF txn = Len(work.txns) THEN {"fini"} ELSE {"run", "fini"}

\* The next flowop of the list, or the first one of the next iteration.
NextFlowop ==
  \/ /\ at < Len(Flowops)
     /\ at' = at + 1 /\ phase' = "run"
     /\ UNCHANGED <<txn, iteration>>
  \/ /\ at = Len(Flowops) /\ iteration < work.txns[txn].iter
     /\ at' = 1 /\ iteration' = iteration + 1 /\ phase' = "run"
     /\ UNCHANGED txn
  \/ /\ at = Len(Flowops) /\ iteration = work.txns[txn].iter
     /\ NextTxn

\* Each transaction has flowops of its own, without a connection at first.
Continue(c) ==
  /\ NextFlowop
  /\ conn' = IF txn' = txn THEN c ELSE [i \in DOMAIN conn |-> None]

\* errno is EINTR or the strand was signalled: the transaction is over.
Interrupted == NextTxn /\ conn' = [i \in DOMAIN conn |-> None]

Succeeded(c) == Continue(c) \/ Interrupted

\* An error ends the strand, unless the flowop may fail.
Failed(c) ==
  \/ Interrupted
  \/ Flowop.canfail /\ Continue(c)
  \/ ~Flowop.canfail /\ phase' = "fini" /\ conn' = c /\ UNCHANGED <<txn, iteration, at>>

-----------------------------------------------------------------------------
(* The flowops                                                             *)

New == {o \in Object : ~heap[o].used}

Opened(o, id, d) == [heap EXCEPT ![o] = [Created(id) EXCEPT !.fd = d]]

\* preprocess_accepts has the strand's listener made before; if that fails there is no run.
Listen ==
  /\ phase = "listen"
  /\ heap' = Opened(1, 0, NextFile)
  /\ files' = [files EXCEPT ![NextFile] = 1]
  /\ listener' = 1 /\ phase' = "run"
  /\ UNCHANGED <<work, txn, iteration, at, conn, cpool, ccache>>

ListenFails ==
  /\ phase = "listen"
  /\ phase' = "exited"
  /\ UNCHANGED <<work, txn, iteration, at, conn, listVars, files, listener>>

\* flowop_connect
Connect ==
  /\ At("connect")
  /\ \E o \in New :
       LET h == Opened(o, Flowop.id, NextFile)
       IN /\ heap' = Added(h, o) /\ cpool' = o
          /\ files' = [files EXCEPT ![NextFile] = o]
          /\ Succeeded(Renewed(at))
  /\ UNCHANGED <<work, ccache, listener>>

\* The descriptors a connection that fails may have: the host is not known, there is no socket,
\* or what is done with the socket fails.
TcpTried == {NoFile, NextFile}
SctpTried == {NoFile, NextFile}
VsockTried == {NoFile, NextFile}
SslTried == {0, NoFile, NextFile}
UdpTried == {0, NoFile, NextFile}
RdsTried == {NextFile}

Tried ==
  CASE work.proto = "tcp" -> TcpTried [] work.proto = "sctp" -> SctpTried
    [] work.proto = "vsock" -> VsockTried [] Ssl -> SslTried
    [] work.proto = "udp" -> UdpTried [] OTHER -> RdsTried

\* It is destroyed; there is none if the port is not known.
ConnectFails ==
  /\ At("connect")
  /\ \/ UNCHANGED <<heap, files>>
     \/ \E o \in New, d \in Tried :
          LET h == Opened(o, Flowop.id, d)
          IN /\ heap' = Destroyed(h, o)
             /\ files' = Close(IF d = NextFile THEN [files EXCEPT ![d] = o] ELSE files, ClosedWith(h, o))
  /\ Failed(conn)
  /\ UNCHANGED <<work, cpool, ccache, listener>>

\* protocol_rds_connect ends the process if it gets no socket.
ConnectExits ==
  /\ At("connect") /\ work.proto = "rds"
  /\ phase' = "exited"
  /\ UNCHANGED <<work, txn, iteration, at, conn, listVars, files, listener>>

\* protocol_udp_accept, protocol_rds_accept: the listener itself.
Referenced == [heap EXCEPT ![listener].refcount = @ + 1, ![listener].id = Flowop.id]

\* flowop_accept: a new connection, or the listener.
Accept ==
  /\ At("accept")
  /\ \E o \in IF Datagram THEN {listener} ELSE New :
       /\ heap' = Added(IF Datagram THEN Referenced ELSE Opened(o, Flowop.id, NextFile), o)
       /\ files' = IF Datagram THEN files ELSE [files EXCEPT ![NextFile] = o]
       /\ cpool' = o
  /\ Succeeded(Renewed(at))
  /\ UNCHANGED <<work, ccache, listener>>

\* generic_accept: the new connection is lost.
Lost == \E o \in New : heap' = Opened(o, 0, NoFile) /\ UNCHANGED files

\* protocol_vsock_accept frees it.
VsockFreed == UNCHANGED <<heap, files>>

\* protocol_ssl_accept may lose it after it was accepted.
SslLost ==
  Lost \/ \E o \in New : heap' = Opened(o, 0, NextFile) /\ files' = [files EXCEPT ![NextFile] = o]

\* The handshake of UDP or RDS fails.
NotReferenced == UNCHANGED <<heap, files>>

AcceptFails ==
  /\ At("accept")
  /\ CASE Ssl -> SslLost
       [] Datagram -> NotReferenced
       [] work.proto = "vsock" -> VsockFreed
       [] OTHER -> Lost
  /\ Failed(conn)
  /\ UNCHANGED <<work, cpool, ccache, listener>>

\* flowop_disconnect: what is disconnected is the connection in the cache,
Disconnect ==
  /\ At("disconnect")
  /\ SearchEnds(Flowop.id)
  /\ LET c == GetConnection(Flowop.id)
     IN \/ c = None /\ Interrupted /\ UNCHANGED <<heap, files>>
        \/ /\ c # None
           /\ heap' = Disconnected(heap, c)
           /\ files' = IF Datagram THEN files ELSE Close(files, {heap[c].fd})
           /\ phase' = "delete"
           /\ UNCHANGED <<txn, iteration, at, conn>>
  /\ UNCHANGED <<work, cpool, ccache, listener>>

\* and what is deleted is the first one of the list (strand_delete_connection); a list that
\* runs in a circle without it is searched for ever.
Delete ==
  /\ phase = "delete"
  /\ LET o == First(Flowop.id)
         h == Unlinked(heap, o)
     IN /\ o # None
        /\ heap' = Destroyed(h, o)
        /\ files' = Close(files, ClosedWith(h, o))
        /\ cpool' = IF o = cpool THEN heap[o].next ELSE cpool
  /\ FlushCache
  /\ Succeeded(Renewed(at))
  /\ UNCHANGED <<work, listener>>

\* flowop_rw, flowop_sendfilev
ReadWrite ==
  /\ At("rw")
  /\ \/ /\ conn[at] = None
        /\ SearchEnds(Flowop.id)
        /\ FillCache(Flowop.id)
        /\ LET o == GetConnection(Flowop.id)
               c == [conn EXCEPT ![at] = o]
           IN Failed(c) \/ (o # None /\ Succeeded(c))
     \/ /\ conn[at] # None
        /\ Failed(conn) \/ Succeeded(conn)
        /\ UNCHANGED ccache
  /\ UNCHANGED <<work, heap, files, cpool, listener>>

\* Mutant: only the listening sockets are closed.
Closes_Listeners == {listener} \ {None}

\* The objects strand_fini destroys.
Closes == ({listener} \cup Linked) \ {None}

\* strand_fini
Fini ==
  /\ phase = "fini" /\ ~Circular
  /\ heap' = [o \in Object |-> IF o \in Closes THEN Destroyed(heap, o)[o] ELSE heap[o]]
  /\ files' = Close(files, UNION {ClosedWith(heap, o) : o \in Closes})
  /\ phase' = "done"
  /\ UNCHANGED <<work, txn, iteration, at, conn, cpool, ccache, listener>>

\* Another strand of the process opens and closes a socket.
OtherOpens ==
  /\ work.others /\ phase \notin {"done", "exited"}
  /\ \A d \in File : files[d] # OtherSocket
  /\ files' = [files EXCEPT ![NextFile] = OtherSocket]
  /\ UNCHANGED <<work, posVars, conn, listVars, listener>>

OtherCloses ==
  /\ \E d \in File : files[d] = OtherSocket /\ files' = Close(files, {d})
  /\ UNCHANGED <<work, posVars, conn, listVars, listener>>

Terminated == phase \in {"done", "exited"} /\ UNCHANGED cVars

Next == Listen \/ ListenFails \/ Connect \/ ConnectFails \/ ConnectExits \/ Accept \/ AcceptFails \/ Disconnect
        \/ Delete \/ ReadWrite \/ Fini \/ OtherOpens \/ OtherCloses \/ Terminated

Spec == Init /\ [][Next]_cVars

-----------------------------------------------------------------------------
(* What must hold                                                          *)

\* A read or write works on a connection of the list that has its id, and never on one
\* that was destroyed since the flowop looked (flowop_rw keeps f->connection;
\* flowop_connect, flowop_accept and flowop_disconnect reset it in what follows them).
UsesLiveConnection ==
  At("rw") /\ conn[at] # None => conn[at] \in Linked /\ heap[conn[at]].id = Flowop.id

\* The connections are a list, linked both ways (strand_add_connection,
\* strand_delete_connection): it has an end, so every search ends.
PoolIsList ==
  phase = "run" =>
    /\ ~Circular
    /\ cpool # None => heap[cpool].prev = None
    /\ \A o \in Linked : /\ heap[o].used
                         /\ heap[o].next # None => heap[heap[o].next].prev = o

\* The cache has connections of the list only: what strand_delete_connection destroys is
\* never found in it again.
CacheIsLive ==
  phase = "run" => \A n \in DOMAIN ccache : ccache[n] \in Linked

\* Every open socket can still be found, and none is left open when the strand has ended
\* (flowop_disconnect, strand_delete_connection, strand_fini), with connections of their own.
SocketsAreClosed ==
  Stream /\ phase # "exited" =>
    \A d \in File : files[d] \in Object =>
      phase # "done" /\ files[d] \in Linked \cup {listener} /\ heap[files[d]].fd = d

\* A strand never closes what another one has opened, nor standard input: a descriptor that was
\* closed may be another socket's when the connection is destroyed (generic_disconnect,
\* generic_fini, udp_fini, rds_fini; not with protocol_ssl_disconnect, which ssl_fini calls again).
ClosesItsOwn ==
  [][~Ssl => OtherCloses \/ \A d \in File : files[d] \in {OtherSocket, StandardInput} => files'[d] = files[d]]_cVars
=============================================================================
