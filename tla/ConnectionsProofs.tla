------------------------- MODULE ConnectionsProofs -------------------------
(***************************************************************************)
(* Theorems about Connections: the types, the descriptors a strand closes,  *)
(* the list and its cache, and the connections that its flowops use.        *)
(***************************************************************************)
EXTENDS Connections, Extrema, FiniteSetTheorems

-----------------------------------------------------------------------------
(* The list as it is walked                                                *)

\* The first nodes of a walk from c through h.
Steps(f, m, c, h) ==
  \A n \in 0 .. m : f[n] = IF n = 0 THEN c ELSE IF f[n - 1] = None THEN None ELSE h[f[n - 1]].next
Walk(m, c, h) == {f \in [0 .. m -> Pointer] : Steps(f, m, c, h)}

\* A walk through a heap with pointers has any length.
LEMMA WalksExist ==
  ASSUME NEW c \in Pointer, NEW h, \A o \in Object : h[o].next \in Pointer
  PROVE \A m \in Nat : Walk(m, c, h) # {}
<1> DEFINE Bad == {m \in Nat : Walk(m, c, h) = {}}
<1>1. SUFFICES ASSUME Bad # {} PROVE FALSE
  OBVIOUS
<1>2. PICK m \in Bad : \A k \in Bad : m <= k
  <2>1. Bad \subseteq Nat
    OBVIOUS
  <2> HIDE DEF Bad
  <2> QED BY <1>1, <2>1, Least
<1>3. m # 0
  <2> DEFINE f == [n \in 0 .. 0 |-> c]
  <2>1. f \in Walk(0, c, h)
    BY DEF Walk, Steps
  <2> QED BY <2>1
<1>4. m \in Nat /\ m - 1 \in Nat /\ m - 1 \notin Bad
  BY <1>2, <1>3
<1>5. PICK f \in Walk(m - 1, c, h) : TRUE
  BY <1>4
<1> DEFINE x == IF f[m - 1] = None THEN None ELSE h[f[m - 1]].next
           g == [n \in 0 .. m |-> IF n = m THEN x ELSE f[n]]
<1>6. f \in [0 .. m - 1 -> Pointer] /\ f[m - 1] \in Pointer
  BY <1>4, <1>5 DEF Walk, Steps
<1>7. x \in Pointer
  BY <1>6 DEF Pointer
<1>8. g \in [0 .. m -> Pointer]
  BY <1>4, <1>6, <1>7
<1>9. ASSUME NEW n \in 0 .. m
      PROVE g[n] = IF n = 0 THEN c ELSE IF g[n - 1] = None THEN None ELSE h[g[n - 1]].next
  <2>1. CASE n = m
    BY <2>1, <1>3, <1>4
  <2>2. CASE n # m
    <3>1. n \in 0 .. m - 1 /\ g[n] = f[n] /\ (n # 0 => g[n - 1] = f[n - 1])
      BY <2>2, <1>4
    <3>2. f[n] = IF n = 0 THEN c ELSE IF f[n - 1] = None THEN None ELSE h[f[n - 1]].next
      BY <3>1, <1>5 DEF Walk, Steps
    <3> QED BY <3>1, <3>2
  <2> QED BY <2>1, <2>2
<1>10. g \in Walk(m, c, h)
  BY <1>8, <1>9 DEF Walk, Steps
<1> QED BY <1>10, <1>2

\* Two walks of the same length are the same.
LEMMA WalksAgree ==
  ASSUME NEW m \in Nat, NEW c, NEW h, NEW f, NEW g, f \in Walk(m, c, h),
         DOMAIN g = 0 .. m, Steps(g, m, c, h)
  PROVE \A n \in 0 .. m : g[n] = f[n]
<1> DEFINE Bad == {n \in 0 .. m : g[n] # f[n]}
<1>1. SUFFICES ASSUME Bad # {} PROVE FALSE
  OBVIOUS
<1>2. PICK n \in Bad : \A k \in Bad : n <= k
  <2>1. Bad \subseteq Nat
    OBVIOUS
  <2> HIDE DEF Bad
  <2> QED BY <1>1, <2>1, Least
<1>3. f[n] = IF n = 0 THEN c ELSE IF f[n - 1] = None THEN None ELSE h[f[n - 1]].next
  BY DEF Walk, Steps
<1>4. g[n] = IF n = 0 THEN c ELSE IF g[n - 1] = None THEN None ELSE h[g[n - 1]].next
  BY DEF Steps
<1>5. n # 0
  BY <1>3, <1>4
<1>6. n \in Nat /\ n - 1 \in 0 .. m /\ ~(n <= n - 1)
  BY <1>5
<1>7. PICK k \in 0 .. m : k = n - 1
  BY <1>6
<1>8. k \notin Bad
  <2> HIDE DEF Bad
  <2> QED BY <1>2, <1>6, <1>7
<1>9. g[k] = f[k]
  BY <1>8, Zenon
<1> QED BY <1>3, <1>4, <1>5, <1>7, <1>9

\* What the definition of Node says.
Unfolds(f) == f = [n \in 0 .. NObject |-> IF n = 0 THEN cpool ELSE IF f[n - 1] = None THEN None ELSE heap[f[n - 1]].next]

\* It says it of Node once there is such a function.
LEMMA NodeUnfolds ==
  ASSUME NEW f, Unfolds(f)
  PROVE Unfolds(Node)
BY Zenon DEF Node, Unfolds

\* Node is the walk through the list.
LEMMA NodeIsWalk ==
  ASSUME NEW f \in Walk(NObject, cpool, heap)
  PROVE Node = f
<1>1. Unfolds(f)
  BY DEF Walk, Steps, Unfolds
<1>2. Unfolds(Node)
  BY <1>1, NodeUnfolds
<1>3. DOMAIN Node = 0 .. NObject
  BY <1>2 DEF Unfolds
<1>4. Steps(Node, NObject, cpool, heap)
  BY <1>2 DEF Unfolds, Steps
<1>5. NObject \in Nat
  BY BoundsAssumption
<1>6. \A n \in 0 .. NObject : Node[n] = f[n]
  BY <1>3, <1>4, <1>5, WalksAgree
<1>7. /\ f = [n \in 0 .. NObject |-> f[n]]
      /\ Node = [n \in 0 .. NObject |-> Node[n]]
  BY <1>1, <1>2 DEF Unfolds
<1> DEFINE N == Node
<1>8. N = [n \in 0 .. NObject |-> N[n]] /\ \A n \in 0 .. NObject : N[n] = f[n]
  BY <1>6, <1>7
<1> HIDE DEF N
<1>9. [n \in 0 .. NObject |-> N[n]] = [n \in 0 .. NObject |-> f[n]]
  BY <1>8
<1> QED BY <1>7, <1>8, <1>9 DEF N

\* The list is walked from one state to the next.
Walked == \A f \in Walk(NObject, cpool, heap) : Node = f

LEMMA NodeWalksNext == Walked /\ Walked'
<1>1. Walked
  BY NodeIsWalk DEF Walked
<1>2. Walked'
  BY <1>1, PTL
<1> QED BY <1>1, <1>2

Heap == [Object -> Protocol]

\* What is found are pointers.
LEMMA NodesArePointers ==
  ASSUME cpool \in Pointer, heap \in Heap
  PROVE Node \in [0 .. NObject -> Pointer]
<1>1. \A o \in Object : heap[o].next \in Pointer
  BY DEF Heap, Protocol
<1>2. Walk(NObject, cpool, heap) # {}
  BY <1>1, WalksExist, BoundsAssumption
<1>3. PICK f \in Walk(NObject, cpool, heap) : TRUE
  BY <1>2
<1>4. Node = f
  BY <1>3, NodeIsWalk
<1> QED BY <1>3, <1>4 DEF Walk

\* The least element of a set that is chosen is one.
LEMMA ChosenLeast ==
  ASSUME NEW S, S \subseteq Nat, S # {}
  PROVE (CHOOSE n \in S : \A m \in S : n <= m) \in S
BY Least

\* A search finds a node with the id, if there is one.
LEMMA FirstIs ==
  ASSUME NEW id
  PROVE \/ First(id) = None /\ \A n \in 0 .. NObject : Node[n] # None => heap[Node[n]].id # id
        \/ \E n \in 0 .. NObject : First(id) = Node[n] /\ Node[n] # None /\ heap[Node[n]].id = id
<1> DEFINE hits == {n \in 0 .. NObject : Node[n] # None /\ heap[Node[n]].id = id}
<1>1. CASE hits = {}
  BY <1>1 DEF First
<1>2. CASE hits # {}
  <2> DEFINE n == CHOOSE n \in hits : \A m \in hits : n <= m
  <2>1. First(id) = Node[n]
    BY <1>2 DEF First
  <2>2. hits \subseteq Nat
    BY BoundsAssumption
  <2> HIDE DEF hits
  <2>3. n \in hits
    BY <1>2, <2>2, ChosenLeast
  <2> HIDE DEF n
  <2> QED BY <2>1, <2>3 DEF hits
<1> QED BY <1>1, <1>2

\* So does a search of the cache.
LEMMA CachedIs ==
  ASSUME NEW id, Len(ccache) \in Nat
  PROVE \/ Cached(id) = None
        \/ \E n \in 1 .. Len(ccache) : Cached(id) = ccache[n] /\ heap[ccache[n]].id = id
<1> DEFINE hits == {n \in 1 .. Len(ccache) : heap[ccache[n]].id = id}
<1>1. CASE hits = {}
  BY <1>1 DEF Cached
<1>2. CASE hits # {}
  <2> DEFINE n == CHOOSE n \in hits : \A m \in hits : n <= m
  <2>1. Cached(id) = ccache[n]
    BY <1>2 DEF Cached
  <2>2. hits \subseteq Nat
    OBVIOUS
  <2> HIDE DEF hits
  <2>3. n \in hits
    BY <1>2, <2>2, ChosenLeast
  <2> HIDE DEF n
  <2> QED BY <2>1, <2>3 DEF hits
<1> QED BY <1>1, <1>2

LEMMA SearchTypes ==
  ASSUME cpool \in Pointer, heap \in Heap, ccache \in Seq(Object), NEW id
  PROVE /\ First(id) \in Pointer /\ GetConnection(id) \in Pointer
        /\ First(id) # None => heap[First(id)].id = id
        /\ GetConnection(id) # None => heap[GetConnection(id)].id = id
<1>1. First(id) \in Pointer /\ (First(id) # None => heap[First(id)].id = id)
  <2>1. Node \in [0 .. NObject -> Pointer] /\ None \in Pointer
    BY NodesArePointers DEF Pointer
  <2>2. \/ First(id) = None
        \/ \E n \in 0 .. NObject : First(id) = Node[n] /\ Node[n] # None /\ heap[Node[n]].id = id
    BY FirstIs
  <2> QED BY <2>1, <2>2
<1>2. Len(ccache) \in Nat /\ \A n \in 1 .. Len(ccache) : ccache[n] \in Object
  OBVIOUS
<1>3. Cached(id) \in Pointer /\ (Cached(id) # None => heap[Cached(id)].id = id)
  BY <1>2, CachedIs DEF Pointer
<1> DEFINE g == GetConnection(id)
<1>4. g = None \/ g = Cached(id) \/ g = First(id)
  BY DEF GetConnection
<1>5. None \in Pointer
  BY DEF Pointer
<1> HIDE DEF g
<1>6. g \in Pointer /\ (g # None => heap[g].id = id)
  BY <1>1, <1>3, <1>4, <1>5
<1> QED BY <1>1, <1>6 DEF g

-----------------------------------------------------------------------------
(* What the operations do to the objects                                   *)

\* Objects that agree on what a change of the links leaves alone.
Same(p, q) == p.used = q.used /\ p.id = q.id /\ p.fd = q.fd /\ p.refcount = q.refcount

\* A new object.
LEMMA OpenedIs ==
  ASSUME heap \in Heap, NEW o \in Object, NEW id \in Nat, NEW d \in File \cup {NoFile}
  PROVE /\ Opened(o, id, d) \in Heap
        /\ \A p \in Object : p # o => Opened(o, id, d)[p] = heap[p]
        /\ LET r == Opened(o, id, d)[o]
           IN r.used /\ r.id = id /\ r.fd = d /\ r.next = None /\ r.prev = None /\ r.refcount = 0
<1> DEFINE new == [Created(id) EXCEPT !.fd = d]
<1>1. /\ new \in Protocol
      /\ new.used /\ new.id = id /\ new.fd = d /\ new.next = None /\ new.prev = None /\ new.refcount = 0
  <2> DEFINE x == IF Stream THEN NoFile ELSE 0
  <2>1. Created(id) = [Unused EXCEPT !.used = TRUE, !.id = id, !.fd = x]
    BY DEF Created
  <2>2. x \in File \cup {NoFile}
    BY BoundsAssumption DEF File
  <2> HIDE DEF x
  <2>3. Created(id) = [used |-> TRUE, id |-> id, fd |-> x, next |-> None, prev |-> None, refcount |-> 0]
    BY <2>1 DEF Unused
  <2> DEFINE c == Created(id)
  <2>4. /\ c \in Protocol
        /\ c.used /\ c.id = id /\ c.next = None /\ c.prev = None /\ c.refcount = 0
    BY <2>2, <2>3 DEF Protocol, Pointer
  <2> HIDE DEF c
  <2>5. /\ [c EXCEPT !.fd = d] \in Protocol
        /\ LET r == [c EXCEPT !.fd = d]
           IN r.used /\ r.id = id /\ r.fd = d /\ r.next = None /\ r.prev = None /\ r.refcount = 0
    BY <2>4 DEF Protocol
  <2> QED BY <2>5 DEF c
<1>2. Opened(o, id, d) = [heap EXCEPT ![o] = new]
  BY DEF Opened
<1> HIDE DEF new
<1>3. /\ [heap EXCEPT ![o] = new] \in Heap
      /\ \A p \in Object : [heap EXCEPT ![o] = new][p] = IF p = o THEN new ELSE heap[p]
  BY <1>1 DEF Heap
<1> QED BY <1>1, <1>2, <1>3

\* One field of one object.
LEMMA NextSet ==
  ASSUME NEW h \in Heap, NEW o \in Object, NEW x \in Pointer
  PROVE LET g == [h EXCEPT ![o].next = x]
        IN /\ g \in Heap
           /\ \A p \in Object : Same(g[p], h[p]) /\ g[p].prev = h[p].prev
           /\ \A p \in Object : g[p].next = IF p = o THEN x ELSE h[p].next
<1> DEFINE r == [h[o] EXCEPT !.next = x]
<1>1. r \in Protocol /\ Same(r, h[o]) /\ r.prev = h[o].prev /\ r.next = x
  BY DEF Heap, Protocol, Same
<1>2. [h EXCEPT ![o].next = x] = [h EXCEPT ![o] = r]
  OBVIOUS
<1> HIDE DEF r
<1>3. /\ [h EXCEPT ![o] = r] \in Heap
      /\ \A p \in Object : [h EXCEPT ![o] = r][p] = IF p = o THEN r ELSE h[p]
  BY <1>1 DEF Heap
<1> QED BY <1>1, <1>2, <1>3 DEF Same

LEMMA PrevSet ==
  ASSUME NEW h \in Heap, NEW o \in Object, NEW x \in Pointer
  PROVE LET g == [h EXCEPT ![o].prev = x]
        IN /\ g \in Heap
           /\ \A p \in Object : Same(g[p], h[p]) /\ g[p].next = h[p].next
           /\ \A p \in Object : g[p].prev = IF p = o THEN x ELSE h[p].prev
<1> DEFINE r == [h[o] EXCEPT !.prev = x]
<1>1. r \in Protocol /\ Same(r, h[o]) /\ r.next = h[o].next /\ r.prev = x
  BY DEF Heap, Protocol, Same
<1>2. [h EXCEPT ![o].prev = x] = [h EXCEPT ![o] = r]
  OBVIOUS
<1> HIDE DEF r
<1>3. /\ [h EXCEPT ![o] = r] \in Heap
      /\ \A p \in Object : [h EXCEPT ![o] = r][p] = IF p = o THEN r ELSE h[p]
  BY <1>1 DEF Heap
<1> QED BY <1>1, <1>2, <1>3 DEF Same

\* strand_add_connection
LEMMA AddedIs ==
  ASSUME NEW h \in Heap, NEW o \in Object, cpool \in Pointer
  PROVE /\ Added(h, o) \in Heap
        /\ \A p \in Object : Same(Added(h, o)[p], h[p])
        /\ \A p \in Object : Added(h, o)[p].next = IF p = o THEN cpool ELSE h[p].next
        /\ \A p \in Object : Added(h, o)[p].prev = IF p = cpool THEN o ELSE h[p].prev
<1> DEFINE g == [h EXCEPT ![o].next = cpool]
<1>1. /\ g \in Heap
      /\ \A p \in Object : Same(g[p], h[p]) /\ g[p].prev = h[p].prev
      /\ \A p \in Object : g[p].next = IF p = o THEN cpool ELSE h[p].next
  BY NextSet
<1>2. Added(h, o) = IF cpool = None THEN g ELSE [g EXCEPT ![cpool].prev = o]
  BY DEF Added
<1> HIDE DEF g
<1>3. CASE cpool = None
  <2>1. cpool \notin Object
    BY <1>3 DEF Object, None
  <2> QED BY <1>1, <1>2, <1>3, <2>1
<1>4. CASE cpool # None
  <2>1. cpool \in Object /\ o \in Pointer
    BY <1>4 DEF Pointer
  <2> DEFINE k == [g EXCEPT ![cpool].prev = o]
  <2>2. /\ k \in Heap
        /\ \A p \in Object : Same(k[p], g[p]) /\ k[p].next = g[p].next
        /\ \A p \in Object : k[p].prev = IF p = cpool THEN o ELSE g[p].prev
    BY <1>1, <2>1, PrevSet
  <2>3. Added(h, o) = k
    BY <1>2, <1>4
  <2> HIDE DEF k
  <2> QED BY <1>1, <2>2, <2>3 DEF Same
<1> QED BY <1>3, <1>4

\* strand_delete_connection
LEMMA UnlinkedIs ==
  ASSUME NEW h \in Heap, NEW o \in Object
  PROVE /\ Unlinked(h, o) \in Heap
        /\ \A p \in Object : Same(Unlinked(h, o)[p], h[p])
        /\ \A p \in Object : Unlinked(h, o)[p].next = IF p = h[o].prev THEN h[o].next ELSE h[p].next
        /\ \A p \in Object : Unlinked(h, o)[p].prev = IF p = h[o].next THEN h[o].prev ELSE h[p].prev
<1> DEFINE n == h[o].next
           v == h[o].prev
           g == IF v # None THEN [h EXCEPT ![v].next = n] ELSE h
<1>1. n \in Pointer /\ v \in Pointer
  BY DEF Heap, Protocol
<1>2. None \notin Object
  BY DEF None, Object
<1>3. Unlinked(h, o) = IF g[o].next # None THEN [g EXCEPT ![g[o].next].prev = g[o].prev] ELSE g
  BY DEF Unlinked
<1> HIDE DEF n, v
<1>4. /\ g \in Heap
      /\ \A p \in Object : Same(g[p], h[p]) /\ g[p].prev = h[p].prev
      /\ \A p \in Object : g[p].next = IF p = v THEN n ELSE h[p].next
  <2>1. CASE v = None
    BY <2>1, <1>2 DEF Same
  <2>2. CASE v # None
    <3>1. v \in Object
      BY <2>2, <1>1 DEF Pointer
    <3> QED BY <2>2, <3>1, <1>1, NextSet
  <2> QED BY <2>1, <2>2
<1> HIDE DEF g
<1>5. g[o].next = n /\ g[o].prev = v
  BY <1>4 DEF n, v
<1>6. Unlinked(h, o) = IF n # None THEN [g EXCEPT ![n].prev = v] ELSE g
  BY <1>3, <1>5
<1>7. CASE n = None
  BY <1>7, <1>2, <1>4, <1>6 DEF n, v
<1>8. CASE n # None
  <2>1. n \in Object /\ v \in Pointer /\ g \in Heap
    BY <1>8, <1>1, <1>4 DEF Pointer
  <2> DEFINE k == [g EXCEPT ![n].prev = v]
  <2>2. /\ k \in Heap
        /\ \A p \in Object : Same(k[p], g[p]) /\ k[p].next = g[p].next
        /\ \A p \in Object : k[p].prev = IF p = n THEN v ELSE g[p].prev
    BY <2>1, PrevSet
  <2>3. Unlinked(h, o) = k
    BY <1>6, <1>8
  <2> HIDE DEF k
  <2> QED BY <1>4, <2>2, <2>3 DEF Same, n, v
<1> QED BY <1>7, <1>8

LEMMA UnusedIs == Unused \in Protocol
BY DEF Unused, Protocol, Pointer

\* destroy_protocol
LEMMA DestroyedIs ==
  ASSUME NEW h \in Heap, NEW o \in Object
  PROVE /\ Destroyed(h, o) \in Heap
        /\ \A p \in Object : p # o => Destroyed(h, o)[p] = h[p]
        /\ IsFreed(h, o) => Destroyed(h, o)[o] = Unused
        /\ ~IsFreed(h, o) => Destroyed(h, o) = h
<1>1. CASE IsFreed(h, o)
  <2>1. Destroyed(h, o) = [h EXCEPT ![o] = Unused]
    BY <1>1 DEF Destroyed
  <2> QED BY <2>1, <1>1, UnusedIs DEF Heap
<1>2. CASE ~IsFreed(h, o)
  BY <1>2 DEF Destroyed
<1> QED BY <1>1, <1>2

\* What the protocol of a profile may be.
LEMMA OneOfThem ==
  ASSUME work \in Profiles
  PROVE /\ Stream \/ Ssl \/ Datagram
        /\ ~(Stream /\ Ssl) /\ ~(Stream /\ Datagram) /\ ~(Ssl /\ Datagram)
BY ProfilesAssumption DEF Stream, Ssl, Datagram

\* generic_disconnect and its kin
LEMMA DisconnectedIs ==
  ASSUME work \in Profiles, NEW h \in Heap, NEW o \in Object
  PROVE LET g == Disconnected(h, o)
        IN /\ g \in Heap
           /\ \A p \in Object : /\ g[p].used = h[p].used /\ g[p].id = h[p].id
                                /\ g[p].next = h[p].next /\ g[p].prev = h[p].prev
           /\ \A p \in Object : g[p].fd = IF p = o /\ Stream THEN NoFile ELSE h[p].fd
<1>1. CASE Ssl
  BY <1>1, OneOfThem DEF Disconnected, SslDisconnected
<1>2. CASE Datagram
  <2> DEFINE r == [h[o] EXCEPT !.refcount = @ - 1]
             g == [h EXCEPT ![o] = r]
  <2>1. Disconnected(h, o) = g
    BY <1>2, OneOfThem DEF Disconnected, Dereferenced
  <2>2. /\ r \in Protocol
        /\ r.used = h[o].used /\ r.id = h[o].id /\ r.next = h[o].next /\ r.prev = h[o].prev /\ r.fd = h[o].fd
    BY DEF Heap, Protocol
  <2> HIDE DEF r
  <2>3. g \in Heap /\ \A p \in Object : g[p] = IF p = o THEN r ELSE h[p]
    BY <2>2 DEF Heap
  <2> HIDE DEF g
  <2> QED BY <1>2, <2>1, <2>2, <2>3, OneOfThem
<1>3. CASE Stream
  <2> DEFINE r == [h[o] EXCEPT !.fd = NoFile]
             g == [h EXCEPT ![o] = r]
  <2>1. Disconnected(h, o) = g
    BY <1>3, OneOfThem DEF Disconnected
  <2>2. /\ r \in Protocol
        /\ r.used = h[o].used /\ r.id = h[o].id /\ r.next = h[o].next /\ r.prev = h[o].prev /\ r.fd = NoFile
    BY DEF Heap, Protocol
  <2> HIDE DEF r
  <2>3. g \in Heap /\ \A p \in Object : g[p] = IF p = o THEN r ELSE h[p]
    BY <2>2 DEF Heap
  <2> HIDE DEF g
  <2> QED BY <1>3, <2>1, <2>2, <2>3
<1> QED BY <1>1, <1>2, <1>3, OneOfThem

\* protocol_udp_accept, protocol_rds_accept
LEMMA ReferencedIs ==
  ASSUME heap \in Heap, listener \in Object, Flowop.id \in Nat
  PROVE /\ Referenced \in Heap
        /\ \A p \in Object : p # listener => Referenced[p] = heap[p]
        /\ LET r == Referenced[listener]
               q == heap[listener]
           IN r.used = q.used /\ r.fd = q.fd /\ r.next = q.next /\ r.prev = q.prev /\ r.id = Flowop.id
<1> DEFINE i == Flowop.id
           q == heap[listener]
           r1 == [q EXCEPT !.refcount = @ + 1]
           r == [r1 EXCEPT !.id = i]
<1>1. Referenced = [[heap EXCEPT ![listener].refcount = @ + 1] EXCEPT ![listener].id = i]
  BY DEF Referenced
<1> HIDE DEF i
<1>2. q \in Protocol
  BY DEF Heap
<1> HIDE DEF q
<1>3. r1 \in Protocol /\ r1.used = q.used /\ r1.fd = q.fd /\ r1.next = q.next /\ r1.prev = q.prev
  BY <1>2 DEF Protocol
<1>4. [heap EXCEPT ![listener].refcount = @ + 1] = [heap EXCEPT ![listener] = r1]
  BY DEF q
<1> HIDE DEF r1
<1> DEFINE h == [heap EXCEPT ![listener] = r1]
<1>5. h \in Heap /\ \A p \in Object : h[p] = IF p = listener THEN r1 ELSE heap[p]
  BY <1>3 DEF Heap
<1>6. [h EXCEPT ![listener].id = i] = [h EXCEPT ![listener] = [h[listener] EXCEPT !.id = i]]
  OBVIOUS
<1> HIDE DEF h
<1>7. h[listener] = r1
  BY <1>5
<1>8. Referenced = [h EXCEPT ![listener] = r]
  BY <1>1, <1>4, <1>6, <1>7 DEF h
<1>9. r \in Protocol /\ r.used = q.used /\ r.fd = q.fd /\ r.next = q.next /\ r.prev = q.prev /\ r.id = i
  BY <1>3 DEF Protocol, i
<1> HIDE DEF r
<1>10. /\ [h EXCEPT ![listener] = r] \in Heap
       /\ \A p \in Object : [h EXCEPT ![listener] = r][p] = IF p = listener THEN r ELSE heap[p]
  BY <1>5, <1>9 DEF Heap
<1> QED BY <1>8, <1>9, <1>10 DEF q, i

-----------------------------------------------------------------------------
(* Descriptors                                                             *)

Descriptors == [File -> Object \cup {None, StandardInput, OtherSocket}]

\* What a descriptor is open for.  An object that has one knows its number, so it has one at most.
FilesInv ==
  /\ \A d \in File : files[d] = StandardInput => d = 0
  /\ \A d, e \in File : files[d] = OtherSocket /\ files[e] = OtherSocket => d = e
  /\ \A d \in File : files[d] \in Object => heap[files[d]].used /\ heap[files[d]].fd = d

\* There are enough descriptors for all that may be open when one is opened: one use of a
\* descriptor is free.
LEMMA FileIsFree ==
  ASSUME files \in Descriptors, FilesInv, NEW x \in Object \cup {OtherSocket}, \A d \in File : files[d] # x
  PROVE \E d \in File : files[d] = None
<1> DEFINE All == 1 .. NObject + 2
           T == All \ {x}
<1>1. /\ NObject \in Nat \ {0} /\ NFile \in Nat /\ NFile > NObject + 1
      /\ x \in All
  BY BoundsAssumption DEF Object, OtherSocket
<1>2. SUFFICES ASSUME \A d \in File : files[d] # None PROVE FALSE
  OBVIOUS
<1>3. files \in [File -> T]
  <2>1. \A d \in File : files[d] \in T
    BY <1>1, <1>2 DEF Descriptors, Object, StandardInput, OtherSocket
  <2> QED BY <2>1 DEF Descriptors
<1>4. IsFiniteSet(All) /\ Cardinality(All) = NObject + 2
  BY <1>1, FS_Interval
<1>5. IsFiniteSet(T) /\ Cardinality(T) = NObject + 1
  <2> HIDE DEF All
  <2>1. IsFiniteSet(T) /\ Cardinality(T) = Cardinality(All) - 1
    BY <1>1, <1>4, FS_RemoveElement
  <2> QED BY <1>1, <1>4, <2>1
<1>6. IsFiniteSet(File) /\ Cardinality(File) = NFile
  <2>1. 0 \in Int /\ NFile - 1 \in Int /\ ~(0 > NFile - 1)
    BY <1>1
  <2> QED BY <1>1, <2>1, FS_Interval DEF File
<1> HIDE DEF T
<1>7. Cardinality(T) < Cardinality(File)
  BY <1>1, <1>5, <1>6
<1>8. \E d, e \in File : d # e /\ files[d] = files[e]
  BY <1>3, <1>5, <1>6, <1>7, FS_PigeonHole
<1>9. PICK d \in File, e \in File : d # e /\ files[d] = files[e]
  BY <1>8
<1>10. files[d] \in Object \cup {StandardInput, OtherSocket}
  BY <1>2 DEF Descriptors
<1> QED BY <1>9, <1>10 DEF FilesInv

\* socket(): a descriptor that is free, while one is.
LEMMA NextFileIs ==
  ASSUME \E d \in File : files[d] = None
  PROVE NextFile \in File /\ files[NextFile] = None
<1> DEFINE free == {d \in File : files[d] = None}
<1>1. free \subseteq Nat /\ free # {}
  BY BoundsAssumption DEF File
<1>2. \E d \in File : files[d] = None /\ \A e \in File : files[e] = None => d <= e
  <2> HIDE DEF free
  <2>1. \E d \in free : \A e \in free : d <= e
    BY <1>1, Least
  <2> QED BY <2>1 DEF free
<1> QED BY <1>2 DEF NextFile

\* An object that is not used has no descriptor, so there is one for it.
LEMMA FileForNew ==
  ASSUME files \in Descriptors, FilesInv, NEW o \in New
  PROVE NextFile \in File /\ files[NextFile] = None /\ \A d \in File : files[d] # o
<1>1. o \in Object /\ ~heap[o].used
  BY DEF New
<1>2. \A d \in File : files[d] # o
  BY <1>1 DEF FilesInv
<1> QED BY <1>1, <1>2, FileIsFree, NextFileIs

-----------------------------------------------------------------------------
(* The flow of control                                                     *)

\* The strand is at a flowop of its transaction, in an iteration of it.
Position ==
  /\ work \in Profiles
  /\ txn \in 1 .. Len(work.txns) + 1
  /\ iteration \in Nat \ {0}
  /\ at \in 1 .. MaxFlowop
  /\ txn <= Len(work.txns) => at \in DOMAIN work.txns[txn].flowops

\* What is assumed of the profile, for the transaction the strand is in.
LEMMA TxnIs ==
  ASSUME Position, txn <= Len(work.txns)
  PROVE /\ Len(work.txns) \in Nat /\ txn \in DOMAIN work.txns /\ txn \in Nat
        /\ Flowops = work.txns[txn].flowops /\ work.txns[txn].iter \in Nat
        /\ Len(Flowops) \in 1 .. MaxFlowop /\ DOMAIN Flowops = 1 .. Len(Flowops)
        /\ \A i \in DOMAIN Flowops : Flowops[i].id \in Nat
        /\ at \in 1 .. Len(Flowops) /\ Flowop.id \in Nat
<1>1. /\ work \in Profiles /\ txn \in 1 .. Len(work.txns) + 1 /\ at \in DOMAIN work.txns[txn].flowops
      /\ Len(work.txns) \in Nat /\ DOMAIN work.txns = 1 .. Len(work.txns)
  BY ProfilesAssumption DEF Position
<1>2. txn \in DOMAIN work.txns /\ txn \in Nat
  BY <1>1
<1>3. Flowops = work.txns[txn].flowops
  BY DEF Flowops
<1>4. /\ work.txns[txn].iter \in Nat
      /\ Len(work.txns[txn].flowops) \in 1 .. MaxFlowop
      /\ DOMAIN work.txns[txn].flowops = 1 .. Len(work.txns[txn].flowops)
      /\ \A i \in DOMAIN work.txns[txn].flowops : work.txns[txn].flowops[i].id \in Nat
  BY <1>1, <1>2, ProfilesAssumption
<1> QED BY <1>1, <1>2, <1>3, <1>4 DEF Flowop

\* The next transaction.
LEMMA NextTxnMoves ==
  ASSUME Position, txn <= Len(work.txns), work' = work, NextTxn
  PROVE /\ Position' /\ phase' \in {"run", "fini"}
        /\ txn' = txn + 1 /\ at' = 1 /\ iteration' = 1
<1>1. txn' = txn + 1 /\ at' = 1 /\ iteration' = 1 /\ phase' \in {"run", "fini"}
  BY DEF NextTxn
<1>2. /\ work \in Profiles /\ txn \in Nat /\ Len(work.txns) \in Nat /\ MaxFlowop \in Nat \ {0}
      /\ DOMAIN work.txns = 1 .. Len(work.txns) /\ txn \in 1 .. Len(work.txns)
  BY TxnIs, ProfilesAssumption, BoundsAssumption DEF Position
<1>3. txn' \in 1 .. Len(work.txns) + 1 /\ iteration' \in Nat \ {0} /\ at' \in 1 .. MaxFlowop
  BY <1>1, <1>2
<1>4. ASSUME txn' <= Len(work.txns) PROVE 1 \in DOMAIN work.txns[txn'].flowops
  <2>1. txn' \in DOMAIN work.txns
    BY <1>2, <1>3, <1>4
  <2>2. /\ DOMAIN work.txns[txn'].flowops = 1 .. Len(work.txns[txn'].flowops)
        /\ Len(work.txns[txn'].flowops) \in 1 .. MaxFlowop
    BY <1>2, <2>1, ProfilesAssumption
  <2> QED BY <1>2, <2>2
<1>5. Position'
  BY <1>1, <1>2, <1>3, <1>4 DEF Position
<1> QED BY <1>1, <1>5

\* The next flowop, the next iteration, or the next transaction.
LEMMA NextFlowopMoves ==
  ASSUME Position, txn <= Len(work.txns), work' = work, NextFlowop
  PROVE /\ Position' /\ phase' \in {"run", "fini"}
        /\ \/ txn' = txn /\ iteration' = iteration /\ at' = at + 1 /\ at + 1 \in DOMAIN Flowops /\ phase' = "run"
           \/ txn' = txn /\ iteration' = iteration + 1 /\ at' = 1 /\ iteration < work.txns[txn].iter /\ phase' = "run"
           \/ txn' = txn + 1 /\ at' = 1 /\ iteration' = 1
<1>1. /\ Len(Flowops) \in 1 .. MaxFlowop /\ DOMAIN Flowops = 1 .. Len(Flowops)
      /\ Flowops = work.txns[txn].flowops /\ at \in 1 .. Len(Flowops) /\ MaxFlowop \in Nat \ {0}
      /\ iteration \in Nat \ {0}
  BY TxnIs, BoundsAssumption DEF Position
<1>2. CASE at < Len(Flowops) /\ at' = at + 1 /\ phase' = "run" /\ UNCHANGED <<txn, iteration>>
  <2>1. at' \in 1 .. MaxFlowop /\ at + 1 \in DOMAIN Flowops
    BY <1>1, <1>2
  <2>2. Position'
    BY <1>1, <1>2, <2>1 DEF Position
  <2> QED BY <1>2, <2>1, <2>2
<1>3. CASE at = Len(Flowops) /\ iteration < work.txns[txn].iter /\ at' = 1 /\ iteration' = iteration + 1
           /\ phase' = "run" /\ UNCHANGED txn
  <2>1. at' \in 1 .. MaxFlowop /\ 1 \in DOMAIN Flowops /\ iteration' \in Nat \ {0}
    BY <1>1, <1>3
  <2>2. Position'
    BY <1>1, <1>3, <2>1 DEF Position
  <2> QED BY <1>3, <2>2
<1>4. CASE NextTxn
  BY <1>4, NextTxnMoves
<1> QED BY <1>2, <1>3, <1>4 DEF NextFlowop

Conns == [1 .. MaxFlowop -> Pointer]

\* What follows a flowop, whether it succeeded or not.
LEMMA FlowopEnds ==
  ASSUME Position, txn <= Len(work.txns), work' = work, conn \in Conns, NEW c \in Conns, Succeeded(c) \/ Failed(c)
  PROVE Position' /\ phase' \in {"run", "fini"} /\ conn' \in Conns
<1>1. [i \in DOMAIN conn |-> None] \in Conns
  BY DEF Conns, Pointer
<1>2. CASE Interrupted
  BY <1>1, <1>2, NextTxnMoves DEF Interrupted
<1>3. CASE Continue(c)
  BY <1>1, <1>3, NextFlowopMoves DEF Continue
<1>4. CASE phase' = "fini" /\ conn' = c /\ UNCHANGED <<txn, iteration, at>>
  BY <1>4 DEF Position
<1> QED BY <1>2, <1>3, <1>4 DEF Succeeded, Failed

-----------------------------------------------------------------------------
(* The types, and the descriptors                                          *)

\* Where the strand is: it listens before anything else, and deletes only in a transaction.
Places ==
  /\ phase = "delete" => txn <= Len(work.txns)
  /\ listener \in {None, 1}
  /\ Accepts /\ phase \notin {"listen", "exited"} => listener = 1
  /\ phase = "listen" => listener = None /\ cpool = None /\ \A o \in Object : heap[o] = Unused

\* Without SSL, which closes twice, an object has the descriptor that it names, and nobody
\* closes standard input.
OwnFiles ==
  ~Ssl =>
    /\ files[0] = StandardInput
    /\ \A o \in Object : heap[o].fd > 0 => files[heap[o].fd] = o
    /\ Stream => \A o \in Object : heap[o].fd # 0

TInv == TypeOK /\ Position /\ Places /\ FilesInv /\ OwnFiles

LEMMA Constants ==
  /\ NObject \in Nat \ {0} /\ MaxFlowop \in Nat \ {0} /\ NFile \in Nat \ {0} /\ CacheSize \in Nat \ {0, 1}
  /\ 0 \in File /\ File \subseteq Nat /\ NoFile \notin File /\ 1 \in Object /\ None \notin Object /\ None \in Pointer
  /\ Object \subseteq Pointer /\ StandardInput \notin Object \cup {None, OtherSocket}
  /\ OtherSocket \notin Object \cup {None}
BY BoundsAssumption DEF File, NoFile, Object, None, Pointer, StandardInput, OtherSocket

\* The types of the variables, one by one.
LEMMA Types ==
  TypeOK <=> /\ work \in Profiles
             /\ txn \in 1 .. Len(work.txns) + 1 /\ iteration \in Nat \ {0} /\ at \in 1 .. MaxFlowop
             /\ phase \in {"listen", "run", "delete", "fini", "done", "exited"}
             /\ conn \in Conns /\ heap \in Heap /\ cpool \in Pointer
             /\ ccache \in Seq(Object) /\ Len(ccache) < CacheSize
             /\ listener \in Pointer /\ files \in Descriptors
BY DEF TypeOK, Conns, Heap, Descriptors

LEMMA InitTypes == Init => TInv
<1> SUFFICES ASSUME Init PROVE TInv
  OBVIOUS
<1> USE Constants
<1>1. /\ work \in Profiles /\ Len(work.txns) \in Nat /\ DOMAIN work.txns = 1 .. Len(work.txns)
      /\ txn = 1 /\ at = 1 /\ iteration = 1
  BY ProfilesAssumption DEF Init
<1>2. ASSUME 1 <= Len(work.txns) PROVE 1 \in DOMAIN work.txns[1].flowops
  <2>1. 1 \in DOMAIN work.txns
    BY <1>1, <1>2
  <2>2. /\ DOMAIN work.txns[1].flowops = 1 .. Len(work.txns[1].flowops)
        /\ Len(work.txns[1].flowops) \in 1 .. MaxFlowop
    BY <1>1, <2>1, ProfilesAssumption
  <2> QED BY <2>2
<1>3. Position
  BY <1>1, <1>2 DEF Position
<1>4. /\ conn \in Conns /\ heap \in Heap /\ files \in Descriptors
      /\ \A o \in Object : heap[o] = Unused
      /\ \A d \in File : files[d] = IF d = 0 THEN StandardInput ELSE None
  BY UnusedIs DEF Init, Conns, Heap, Descriptors
<1>5. TypeOK
  BY <1>1, <1>3, <1>4, Types DEF Init, Position
<1>6. Places
  BY <1>4 DEF Init, Places
<1>7. FilesInv
  BY <1>4 DEF FilesInv
<1>8. OwnFiles
  BY <1>4 DEF OwnFiles, Unused, NoFile
<1> QED BY <1>3, <1>5, <1>6, <1>7, <1>8 DEF TInv

\* A descriptor that is more than 0 is one.
LEMMA DescriptorIs ==
  ASSUME heap \in Heap, NEW p \in Object, heap[p].fd > 0
  PROVE heap[p].fd \in File
<1>1. heap[p].fd \in File \cup {NoFile}
  BY DEF Heap, Protocol
<1> QED BY <1>1 DEF NoFile

\* A socket that is opened is one object's, the others keep theirs.
LEMMA FileOpened ==
  ASSUME TInv, NEW o \in New, work' = work, heap' \in Heap,
         \A p \in Object : p # o => heap'[p].fd = heap[p].fd /\ heap'[p].used = heap[p].used,
         heap'[o].used, heap'[o].fd = NextFile, files' = [files EXCEPT ![NextFile] = o]
  PROVE files' \in Descriptors /\ FilesInv' /\ OwnFiles'
<1> DEFINE d == NextFile
<1>1. /\ d \in File /\ files[d] = None /\ \A e \in File : files[e] # o
      /\ o \in Object /\ files \in Descriptors
  BY FileForNew, Types DEF TInv, New
<1> HIDE DEF d
<1>2. files' \in Descriptors /\ \A e \in File : files'[e] = IF e = d THEN o ELSE files[e]
  BY <1>1 DEF Descriptors, d
<1>3. heap'[o].fd = d
  BY DEF d
<1>4. FilesInv'
  <2>1. \A e \in File : files'[e] = StandardInput => e = 0
    BY <1>1, <1>2, Constants DEF TInv, FilesInv
  <2>2. \A e, f \in File : files'[e] = OtherSocket /\ files'[f] = OtherSocket => e = f
    BY <1>1, <1>2, Constants DEF TInv, FilesInv
  <2>3. \A e \in File : files'[e] \in Object => heap'[files'[e]].used /\ heap'[files'[e]].fd = e
    BY <1>1, <1>2, <1>3 DEF TInv, FilesInv
  <2> QED BY <2>1, <2>2, <2>3 DEF FilesInv
<1>5. OwnFiles'
  <2>1. SUFFICES ASSUME ~Ssl
                 PROVE /\ files'[0] = StandardInput
                       /\ \A p \in Object : heap'[p].fd > 0 => files'[heap'[p].fd] = p
                       /\ Stream => \A p \in Object : heap'[p].fd # 0
    BY DEF OwnFiles, Ssl, Stream
  <2>2. files[0] = StandardInput /\ d # 0
    BY <1>1, <2>1, Constants DEF TInv, OwnFiles
  <2>3. ASSUME NEW p \in Object, heap'[p].fd > 0 PROVE files'[heap'[p].fd] = p
    <3>1. CASE p = o
      BY <1>1, <1>2, <1>3, <3>1
    <3>2. CASE p # o
      <4>1. heap'[p].fd = heap[p].fd /\ files[heap[p].fd] = p
        BY <2>1, <2>3, <3>2 DEF TInv, OwnFiles
      <4>2. heap[p].fd \in File
        <5>1. heap \in Heap /\ heap[p].fd > 0
          BY <2>3, <4>1, Types DEF TInv
        <5> QED BY <5>1, DescriptorIs
      <4> QED BY <1>1, <1>2, <4>1, <4>2, Constants
    <3> QED BY <3>1, <3>2
  <2>4. ASSUME Stream, NEW p \in Object PROVE heap'[p].fd # 0
    BY <1>3, <2>1, <2>2, <2>4 DEF TInv, OwnFiles
  <2> QED BY <1>2, <2>2, <2>3, <2>4, Constants
<1> QED BY <1>2, <1>4, <1>5

\* No descriptor changes, nor what the objects know of theirs.
LEMMA FilesKept ==
  ASSUME TInv, work' = work, files' = files,
         \A p \in Object : heap'[p].fd = heap[p].fd /\ (heap[p].used => heap'[p].used)
  PROVE files' \in Descriptors /\ FilesInv' /\ OwnFiles'
<1>1. files' \in Descriptors
  BY Types DEF TInv
<1>2. FilesInv'
  BY DEF TInv, FilesInv
<1>3. OwnFiles'
  BY DEF TInv, OwnFiles, Ssl, Stream
<1> QED BY <1>1, <1>2, <1>3

\* An object without a descriptor, or with 0 that it has from calloc.
LEMMA FilesKeptWithNew ==
  ASSUME TInv, NEW o \in New, work' = work, files' = files,
         \A p \in Object : p # o => heap'[p].fd = heap[p].fd /\ heap'[p].used = heap[p].used,
         heap'[o].fd = NoFile \/ (heap'[o].fd = 0 /\ ~Stream)
  PROVE files' \in Descriptors /\ FilesInv' /\ OwnFiles'
<1>1. /\ o \in Object /\ files \in Descriptors /\ \A e \in File : files[e] # o
  BY FileForNew, Types DEF TInv, New
<1>2. FilesInv'
  BY <1>1 DEF TInv, FilesInv
<1>3. OwnFiles'
  BY <1>1 DEF TInv, OwnFiles, Ssl, Stream, NoFile
<1> QED BY <1>1, <1>2, <1>3

\* What other strands have opened stays, and so does standard input.
KeepsOthers == ~Ssl => \A d \in File : files[d] \in {OtherSocket, StandardInput} => files'[d] = files[d]

LEMMA RenewedIs ==
  ASSUME conn \in Conns, NEW i
  PROVE Renewed(i) \in Conns
BY Constants DEF Renewed, Conns

\* After a flowop the strand is in its run, or at the end of it.
LEMMA PlacesAfter ==
  ASSUME TInv, phase \in {"run", "delete"}, phase' \in {"run", "fini"}, work' = work, listener' = listener
  PROVE Places'
<1>1. Accepts' = Accepts
  BY DEF Accepts
<1> QED BY <1>1 DEF TInv, Places

LEMMA AtFlowop ==
  ASSUME TInv, NEW type, At(type)
  PROVE /\ phase = "run" /\ txn <= Len(work.txns) /\ Flowop.type = type /\ Flowop.id \in Nat
        /\ type = "accept" => listener = 1
<1>1. phase = "run" /\ txn <= Len(work.txns) /\ Flowop.type = type
  BY DEF At
<1>2. Flowop.id \in Nat /\ txn \in DOMAIN work.txns /\ at \in DOMAIN Flowops /\ Flowops = work.txns[txn].flowops
  BY <1>1, TxnIs DEF TInv
<1>3. ASSUME type = "accept" PROVE listener = 1
  <2>1. Accepts
    BY <1>1, <1>2, <1>3 DEF Accepts, Flowop
  <2> QED BY <1>1, <2>1 DEF TInv, Places
<1> QED BY <1>1, <1>2, <1>3

LEMMA ListenTypes ==
  ASSUME TInv, Listen
  PROVE TInv' /\ KeepsOthers
<1> DEFINE d == NextFile
<1>1. phase = "listen" /\ 1 \in New /\ 1 \in Object
  BY Constants DEF Listen, TInv, Places, New, Unused
<1>2. d \in File /\ files[d] = None /\ files \in Descriptors /\ heap \in Heap
  BY <1>1, FileForNew, Types DEF TInv
<1>3. /\ heap' \in Heap
      /\ \A p \in Object : p # 1 => heap'[p] = heap[p]
      /\ heap'[1].used /\ heap'[1].fd = d
  BY <1>1, <1>2, OpenedIs, Constants DEF Listen
<1>4. files' = [files EXCEPT ![d] = 1] /\ work' = work
  BY DEF Listen
<1>5. files' \in Descriptors /\ FilesInv' /\ OwnFiles'
  BY <1>1, <1>3, <1>4, FileOpened
<1>6. TypeOK' /\ Position'
  BY <1>1, <1>3, <1>5, Types, Constants DEF TInv, Position, Listen, Pointer, Conns, TypeOK, Heap, Descriptors
<1>7. Places'
  BY DEF Places, Listen, Accepts
<1>8. KeepsOthers
  BY <1>2, <1>4, Constants DEF KeepsOthers, Descriptors
<1> QED BY <1>5, <1>6, <1>7, <1>8 DEF TInv

\* The lists and the descriptors stay.
LEMMA ExitTypes ==
  ASSUME TInv, ListenFails \/ ConnectExits
  PROVE TInv' /\ KeepsOthers
<1>1. /\ phase' = "exited"
      /\ UNCHANGED <<work, txn, iteration, at, conn, heap, cpool, ccache, files, listener>>
  BY DEF ListenFails, ConnectExits, listVars
<1>2. TypeOK' /\ Position'
  BY <1>1 DEF TInv, Position, TypeOK
<1>3. Places'
  BY <1>1 DEF TInv, Places, Accepts
<1>4. FilesInv' /\ OwnFiles'
  BY <1>1, FilesKept
<1> QED BY <1>1, <1>2, <1>3, <1>4 DEF TInv, KeepsOthers

\* The types after a flowop.
LEMMA TypesAfter ==
  ASSUME TInv, phase \in {"run", "delete"}, txn <= Len(work.txns), NEW c \in Conns, Succeeded(c) \/ Failed(c),
         work' = work, listener' = listener, heap' \in Heap, cpool' \in Pointer,
         ccache' \in Seq(Object), Len(ccache') < CacheSize, files' \in Descriptors /\ FilesInv' /\ OwnFiles'
  PROVE TInv'
<1>1. conn \in Conns
  BY Types DEF TInv
<1>2. Position' /\ phase' \in {"run", "fini"} /\ conn' \in Conns
  BY <1>1, FlowopEnds DEF TInv
<1>3. Places'
  BY <1>2, PlacesAfter
<1>4. listener' \in Pointer
  BY Types DEF TInv
<1>5. TypeOK'
  BY <1>2, <1>4 DEF TypeOK, Position, Conns, Heap, Descriptors
<1> QED BY <1>2, <1>3, <1>5 DEF TInv

LEMMA ConnectTypes ==
  ASSUME TInv, Connect
  PROVE TInv' /\ KeepsOthers
<1> DEFINE d == NextFile
           i == Flowop.id
<1>1. phase = "run" /\ txn <= Len(work.txns) /\ i \in Nat
  BY AtFlowop DEF Connect
<1>2. PICK o \in New : /\ heap' = Added(Opened(o, i, d), o) /\ cpool' = o
                       /\ files' = [files EXCEPT ![d] = o]
                       /\ Succeeded(Renewed(at))
  BY DEF Connect
<1>3. /\ o \in Object /\ d \in File /\ files[d] = None /\ files \in Descriptors /\ heap \in Heap /\ cpool \in Pointer
      /\ conn \in Conns /\ ccache \in Seq(Object) /\ Len(ccache) < CacheSize
  BY FileForNew, Types DEF TInv, New
<1>4. work' = work /\ ccache' = ccache /\ listener' = listener
  BY DEF Connect
<1> HIDE DEF d, i
<1>5. /\ Opened(o, i, d) \in Heap
      /\ \A p \in Object : p # o => Opened(o, i, d)[p] = heap[p]
      /\ Opened(o, i, d)[o].used /\ Opened(o, i, d)[o].fd = d
  <2>1. o \in Object /\ d \in File \cup {NoFile} /\ heap \in Heap /\ i \in Nat
    BY <1>1, <1>3
  <2> QED BY <2>1, OpenedIs
<1>6. heap' \in Heap /\ \A p \in Object : Same(heap'[p], Opened(o, i, d)[p])
  BY <1>2, <1>3, <1>5, AddedIs
<1>7. /\ \A p \in Object : p # o => heap'[p].fd = heap[p].fd /\ heap'[p].used = heap[p].used
      /\ heap'[o].used /\ heap'[o].fd = d
  BY <1>3, <1>5, <1>6 DEF Same
<1>8. files' \in Descriptors /\ FilesInv' /\ OwnFiles'
  BY <1>2, <1>4, <1>6, <1>7, FileOpened DEF d
<1>9. Renewed(at) \in Conns /\ cpool' \in Pointer
  BY <1>2, <1>3, RenewedIs, Constants
<1>10. TInv'
  BY <1>1, <1>2, <1>3, <1>4, <1>6, <1>8, <1>9, TypesAfter
<1>11. KeepsOthers
  BY <1>2, <1>3, Constants DEF KeepsOthers, Descriptors
<1> QED BY <1>10, <1>11

\* Descriptors are closed: those of the objects that are freed, without SSL only those.
LEMMA FilesClosed ==
  ASSUME TInv, work' = work, NEW ds, files' = Close(files, ds),
         \A e \in File : files[e] \in Object /\ e \notin ds => heap'[files[e]].used /\ heap'[files[e]].fd = e,
         ~Ssl => /\ \A e \in ds \cap File : files[e] \in Object \cup {None}
                 /\ \A p \in Object : heap'[p].fd > 0 => heap'[p].fd = heap[p].fd /\ heap[p].fd \notin ds
                 /\ Stream => \A p \in Object : heap'[p].fd # 0,
         heap' \in Heap
  PROVE files' \in Descriptors /\ FilesInv' /\ OwnFiles' /\ KeepsOthers
<1>1. files \in Descriptors
  BY Types DEF TInv
<1>2. files' \in Descriptors /\ \A e \in File : files'[e] = IF e \in ds THEN None ELSE files[e]
  BY <1>1, Constants DEF Close, Descriptors
<1>3. FilesInv'
  BY <1>2, Constants DEF TInv, FilesInv
<1>4. ASSUME ~Ssl PROVE \A e \in File : files[e] \in {OtherSocket, StandardInput} => files'[e] = files[e]
  BY <1>2, <1>4, Constants
<1>5. OwnFiles'
  <2>1. SUFFICES ASSUME ~Ssl
                 PROVE /\ files'[0] = StandardInput
                       /\ \A p \in Object : heap'[p].fd > 0 => files'[heap'[p].fd] = p
                       /\ Stream => \A p \in Object : heap'[p].fd # 0
    BY DEF OwnFiles, Ssl, Stream
  <2>2. files'[0] = StandardInput
    BY <1>4, <2>1, Constants DEF TInv, OwnFiles
  <2>3. ASSUME NEW p \in Object, heap'[p].fd > 0 PROVE files'[heap'[p].fd] = p
    <3>1. heap'[p].fd = heap[p].fd /\ heap[p].fd \notin ds /\ files[heap[p].fd] = p
      BY <2>1, <2>3 DEF TInv, OwnFiles
    <3>2. heap[p].fd \in File
      <4>1. heap \in Heap /\ heap[p].fd > 0
        BY <2>3, <3>1, Types DEF TInv
      <4> QED BY <4>1, DescriptorIs
    <3> QED BY <1>2, <3>1, <3>2
  <2> QED BY <2>1, <2>2, <2>3
<1> QED BY <1>2, <1>3, <1>4, <1>5 DEF KeepsOthers

LEMMA ClosedIs ==
  ASSUME NEW h, NEW o
  PROVE ClosedWith(h, o) = IF IsFreed(h, o) /\ (Ssl \/ h[o].fd > 0) THEN {h[o].fd} ELSE {}
BY DEF ClosedWith

\* What a failing connect may leave.
LEMMA TriedIs ==
  ASSUME work \in Profiles, NEW d \in Tried
  PROVE d = NextFile \/ d = NoFile \/ (d = 0 /\ ~Stream)
BY OneOfThem DEF Tried, TcpTried, SctpTried, VsockTried, SslTried, UdpTried, RdsTried, Stream, Ssl

\* A new object that is destroyed at once.
LEMMA TriedAndDestroyed ==
  ASSUME TInv, NEW o \in New, NEW d \in Tried, NEW id \in Nat, work' = work,
         heap' = Destroyed(Opened(o, id, d), o),
         files' = Close(IF d = NextFile THEN [files EXCEPT ![d] = o] ELSE files, ClosedWith(Opened(o, id, d), o))
  PROVE /\ heap' \in Heap /\ files' \in Descriptors /\ FilesInv' /\ OwnFiles' /\ KeepsOthers
        /\ \A p \in Object : p # o => heap'[p] = heap[p]
        /\ Stream => \A e \in File : files'[e] \in Object => files'[e] = files[e]
<1> DEFINE h == Opened(o, id, d)
           n == NextFile
           fs == IF d = n THEN [files EXCEPT ![d] = o] ELSE files
<1>1. /\ o \in Object /\ n \in File /\ files[n] = None /\ \A e \in File : files[e] # o
      /\ files \in Descriptors /\ heap \in Heap /\ work \in Profiles
  BY FileForNew, Types DEF TInv, New
<1> HIDE DEF n
<1>2. /\ d \in File \cup {NoFile}
      /\ (d = n \/ d = NoFile \/ (d = 0 /\ ~Stream))
  BY <1>1, TriedIs, Constants DEF n
<1>3. /\ h \in Heap
      /\ \A p \in Object : p # o => h[p] = heap[p]
      /\ h[o].used /\ h[o].fd = d /\ h[o].refcount = 0
  BY <1>1, <1>2, OpenedIs
<1>4. heap' = Destroyed(h, o) /\ files' = Close(fs, ClosedWith(h, o))
  BY DEF n
<1> HIDE DEF h
<1>5. /\ heap' \in Heap
      /\ \A p \in Object : p # o => heap'[p] = heap[p]
      /\ IsFreed(h, o) => heap'[o] = Unused
      /\ ~IsFreed(h, o) => heap' = h
  BY <1>1, <1>3, <1>4, DestroyedIs
<1>6. fs \in Descriptors /\ \A e \in File : fs[e] = IF e = d /\ d = n THEN o ELSE files[e]
  BY <1>1, <1>2 DEF Descriptors
<1>7. CASE IsFreed(h, o)
  <2>1. ClosedWith(h, o) = IF Ssl \/ d > 0 THEN {d} ELSE {}
    BY <1>3, <1>7, ClosedIs
  <2> DEFINE ds == IF Ssl THEN {d} ELSE {}
  <2>2. ASSUME ~Ssl, d = n PROVE d > 0
    BY <1>1, <2>2, Constants DEF TInv, OwnFiles
  <2>3. ASSUME NEW e \in File
        PROVE (IF e \in ClosedWith(h, o) THEN None ELSE fs[e]) = IF e \in ds THEN None ELSE files[e]
    <3>1. CASE e = d /\ Ssl
      BY <2>1, <3>1
    <3>2. CASE e = d /\ ~Ssl /\ d = n
      BY <1>1, <2>1, <2>2, <3>2
    <3>3. CASE e = d /\ ~Ssl /\ d # n
      <4>1. d = 0
        BY <1>2, <3>3, Constants
      <4> QED BY <1>6, <2>1, <3>3, <4>1
    <3>4. CASE e # d
      BY <1>6, <2>1, <3>4
    <3> QED BY <3>1, <3>2, <3>3, <3>4
  <2>4. files' = Close(files, ds)
    <3> HIDE DEF fs, ds
    <3> QED BY <1>4, <2>3 DEF Close
  <2>5. /\ \A e \in File : files[e] \in Object => heap'[files[e]].used /\ heap'[files[e]].fd = e
        /\ heap'[o].fd = NoFile
    BY <1>1, <1>5, <1>7 DEF TInv, FilesInv, Unused
  <2>6. ASSUME ~Ssl
        PROVE /\ \A e \in ds \cap File : files[e] \in Object \cup {None}
              /\ \A p \in Object : heap'[p].fd > 0 => heap'[p].fd = heap[p].fd /\ heap[p].fd \notin ds
              /\ Stream => \A p \in Object : heap'[p].fd # 0
    BY <1>5, <2>5, <2>6 DEF TInv, OwnFiles, NoFile
  <2> HIDE DEF ds
  <2>7. \A e \in File : files'[e] \in Object => files'[e] = files[e]
    BY <2>4, Constants DEF Close
  <2> QED BY <1>5, <2>4, <2>5, <2>6, <2>7, FilesClosed
<1>8. CASE ~IsFreed(h, o)
  <2>1. ClosedWith(h, o) = {}
    BY <1>8, ClosedIs
  <2>2. files' = fs
    <3>1. files' = [e \in File |-> fs[e]]
      BY <1>4, <2>1 DEF Close
    <3> HIDE DEF fs
    <3> QED BY <1>6, <3>1 DEF Descriptors
  <2>3. heap' = h /\ ~Stream /\ ~Ssl
    BY <1>5, <1>8, <1>1, OneOfThem DEF IsFreed
  <2>4. KeepsOthers
    BY <1>1, <1>6, <2>2, Constants DEF KeepsOthers
  <2>5. \A p \in Object : p # o => heap'[p].fd = heap[p].fd /\ heap'[p].used = heap[p].used
    BY <1>3, <2>3
  <2>6. CASE d = n
    <3>1. files' = [files EXCEPT ![NextFile] = o] /\ heap'[o].used /\ heap'[o].fd = NextFile
      BY <1>3, <2>2, <2>3, <2>6 DEF n
    <3> QED BY <1>3, <1>5, <2>3, <2>4, <2>5, <3>1, FileOpened
  <2>7. CASE d # n
    <3>1. files' = files /\ (heap'[o].fd = NoFile \/ (heap'[o].fd = 0 /\ ~Stream))
      BY <1>2, <1>3, <2>2, <2>3, <2>7
    <3> QED BY <1>3, <1>5, <2>3, <2>4, <2>5, <3>1, FilesKeptWithNew
  <2> QED BY <2>6, <2>7
<1> QED BY <1>7, <1>8

LEMMA ConnectFailsTypes ==
  ASSUME TInv, ConnectFails
  PROVE TInv' /\ KeepsOthers
<1>1. phase = "run" /\ txn <= Len(work.txns) /\ Flowop.id \in Nat
  BY AtFlowop DEF ConnectFails
<1>2. /\ Failed(conn)
      /\ work' = work /\ cpool' = cpool /\ ccache' = ccache /\ listener' = listener
  BY DEF ConnectFails
<1>3. /\ conn \in Conns /\ heap \in Heap /\ cpool \in Pointer /\ ccache \in Seq(Object) /\ Len(ccache) < CacheSize
  BY Types DEF TInv
<1>4. heap' \in Heap /\ files' \in Descriptors /\ FilesInv' /\ OwnFiles' /\ KeepsOthers
  <2>1. CASE UNCHANGED <<heap, files>>
    BY <1>2, <1>3, <2>1, FilesKept DEF KeepsOthers
  <2>2. CASE \E o \in New, d \in Tried :
               LET h == Opened(o, Flowop.id, d)
               IN /\ heap' = Destroyed(h, o)
                  /\ files' = Close(IF d = NextFile THEN [files EXCEPT ![d] = o] ELSE files, ClosedWith(h, o))
    BY <1>1, <1>2, <2>2, TriedAndDestroyed
  <2> QED BY <2>1, <2>2 DEF ConnectFails
<1> QED BY <1>1, <1>2, <1>3, <1>4, TypesAfter

\* A connection that is accepted is like one that is made; or it is the listener's.
LEMMA AcceptTypes ==
  ASSUME TInv, Accept
  PROVE TInv' /\ KeepsOthers
<1> DEFINE d == NextFile
           i == Flowop.id
           ref == Referenced
           datagram == Datagram
<1>1. phase = "run" /\ txn <= Len(work.txns) /\ i \in Nat /\ listener = 1
  BY AtFlowop DEF Accept
<1>2. PICK o \in IF datagram THEN {listener} ELSE New :
             /\ heap' = Added(IF datagram THEN ref ELSE Opened(o, i, d), o)
             /\ files' = IF datagram THEN files ELSE [files EXCEPT ![d] = o]
             /\ cpool' = o
  BY DEF Accept
<1>3. /\ files \in Descriptors /\ heap \in Heap /\ cpool \in Pointer /\ listener \in Object
      /\ conn \in Conns /\ ccache \in Seq(Object) /\ Len(ccache) < CacheSize
  BY <1>1, Types, Constants DEF TInv
<1>4. /\ work' = work /\ ccache' = ccache /\ listener' = listener
      /\ Succeeded(Renewed(at))
  BY DEF Accept
<1>5. /\ ref \in Heap
      /\ \A p \in Object : ref[p].fd = heap[p].fd /\ ref[p].used = heap[p].used
  BY <1>1, <1>3, ReferencedIs
<1> HIDE DEF ref, datagram, i
<1>6. cpool' \in Pointer /\ heap' \in Heap /\ files' \in Descriptors /\ FilesInv' /\ OwnFiles' /\ KeepsOthers
  <2>1. CASE datagram
    <3>1. heap' = Added(ref, o) /\ files' = files /\ o \in Object /\ cpool' = o
      BY <1>2, <1>3, <2>1
    <3>2. heap' \in Heap /\ \A p \in Object : Same(heap'[p], ref[p])
      BY <1>3, <1>5, <3>1, AddedIs
    <3>3. \A p \in Object : heap'[p].fd = heap[p].fd /\ (heap[p].used => heap'[p].used)
      BY <1>5, <3>2 DEF Same
    <3>4. cpool' \in Pointer
      BY <3>1, Constants
    <3> QED BY <1>4, <3>1, <3>2, <3>3, <3>4, FilesKept DEF KeepsOthers
  <2>2. CASE ~datagram
    <3>1. heap' = Added(Opened(o, i, d), o) /\ files' = [files EXCEPT ![d] = o] /\ o \in New /\ cpool' = o
      BY <1>2, <2>2
    <3>2. o \in Object /\ d \in File /\ files[d] = None
      BY <1>3, <3>1, FileForNew DEF TInv, New
    <3> HIDE DEF d
    <3>3. /\ Opened(o, i, d) \in Heap
          /\ \A p \in Object : p # o => Opened(o, i, d)[p] = heap[p]
          /\ Opened(o, i, d)[o].used /\ Opened(o, i, d)[o].fd = d
      BY <1>1, <1>3, <3>2, OpenedIs
    <3>4. heap' \in Heap /\ \A p \in Object : Same(heap'[p], Opened(o, i, d)[p])
      BY <1>3, <3>1, <3>2, <3>3, AddedIs
    <3>5. /\ \A p \in Object : p # o => heap'[p].fd = heap[p].fd /\ heap'[p].used = heap[p].used
          /\ heap'[o].used /\ heap'[o].fd = d
      BY <3>2, <3>3, <3>4 DEF Same
    <3>6. files' \in Descriptors /\ FilesInv' /\ OwnFiles'
      BY <1>4, <3>1, <3>4, <3>5, FileOpened DEF d
    <3>7. KeepsOthers
      BY <1>3, <3>1, <3>2, Constants DEF KeepsOthers, Descriptors
    <3>8. cpool' \in Pointer
      BY <3>1, <3>2, Constants
    <3> QED BY <3>4, <3>6, <3>7, <3>8
  <2> QED BY <2>1, <2>2
<1>7. Renewed(at) \in Conns
  BY <1>3, RenewedIs
<1>8. TInv'
  BY <1>1, <1>3, <1>4, <1>6, <1>7, TypesAfter
<1> QED BY <1>6, <1>8

\* A connection that is lost: with a descriptor or without.
LEMMA LostTypes ==
  ASSUME TInv, work' = work, SslLost \/ VsockFreed \/ NotReferenced,
         Ssl \/ Stream \/ UNCHANGED <<heap, files>>
  PROVE /\ heap' \in Heap /\ files' \in Descriptors /\ FilesInv' /\ OwnFiles' /\ KeepsOthers
        /\ \A p \in Object : heap[p].used => heap'[p] = heap[p]
<1>1. files \in Descriptors /\ heap \in Heap
  BY Types DEF TInv
<1>2. CASE UNCHANGED <<heap, files>>
  BY <1>1, <1>2, FilesKept DEF KeepsOthers
<1>3. CASE Lost
  <2>1. PICK o \in New : heap' = Opened(o, 0, NoFile) /\ files' = files
    BY <1>3 DEF Lost
  <2>2. o \in Object /\ ~heap[o].used /\ 0 \in Nat /\ NoFile \in File \cup {NoFile}
    BY DEF New
  <2>3. /\ heap' \in Heap
        /\ \A p \in Object : p # o => heap'[p] = heap[p]
        /\ heap'[o].fd = NoFile
    BY <1>1, <2>1, <2>2, OpenedIs
  <2> QED BY <2>1, <2>2, <2>3, FilesKeptWithNew DEF KeepsOthers
<1>4. CASE \E o \in New : heap' = Opened(o, 0, NextFile) /\ files' = [files EXCEPT ![NextFile] = o]
  <2> DEFINE d == NextFile
  <2>1. PICK o \in New : heap' = Opened(o, 0, d) /\ files' = [files EXCEPT ![d] = o]
    BY <1>4
  <2>2. o \in Object /\ ~heap[o].used /\ 0 \in Nat /\ d \in File /\ files[d] = None
    BY <1>1, FileForNew DEF New, TInv
  <2> HIDE DEF d
  <2>3. /\ heap' \in Heap
        /\ \A p \in Object : p # o => heap'[p] = heap[p]
        /\ heap'[o].fd = d /\ heap'[o].used
    BY <1>1, <2>1, <2>2, OpenedIs
  <2>4. files' \in Descriptors /\ FilesInv' /\ OwnFiles'
    BY <2>1, <2>3, FileOpened DEF d
  <2>5. KeepsOthers
    BY <1>1, <2>1, <2>2, Constants DEF KeepsOthers, Descriptors
  <2> QED BY <2>2, <2>3, <2>4, <2>5
<1> QED BY <1>2, <1>3, <1>4 DEF SslLost, VsockFreed, NotReferenced

LEMMA AcceptFailsTypes ==
  ASSUME TInv, AcceptFails
  PROVE TInv' /\ KeepsOthers
<1>1. phase = "run" /\ txn <= Len(work.txns) /\ Flowop.id \in Nat
  BY AtFlowop DEF AcceptFails
<1>2. /\ Failed(conn)
      /\ work' = work /\ cpool' = cpool /\ ccache' = ccache /\ listener' = listener
  BY DEF AcceptFails
<1>3. /\ conn \in Conns /\ heap \in Heap /\ cpool \in Pointer /\ ccache \in Seq(Object) /\ Len(ccache) < CacheSize
      /\ work \in Profiles
  BY Types DEF TInv
<1>4. /\ SslLost \/ VsockFreed \/ NotReferenced
      /\ Ssl \/ Stream \/ UNCHANGED <<heap, files>>
  <2>1. CASE Ssl
    BY <2>1 DEF AcceptFails
  <2>2. CASE ~Ssl /\ Datagram
    BY <2>2 DEF AcceptFails, NotReferenced, Datagram
  <2>3. CASE ~Ssl /\ ~Datagram
    BY <1>3, <2>3, OneOfThem DEF AcceptFails, SslLost
  <2> QED BY <2>1, <2>2, <2>3
<1>5. heap' \in Heap /\ files' \in Descriptors /\ FilesInv' /\ OwnFiles' /\ KeepsOthers
  BY <1>2, <1>4, LostTypes
<1> QED BY <1>1, <1>2, <1>3, <1>5, TypesAfter

\* A disconnect closes the descriptor of the connection, which then has none; SSL's keeps
\* the number.
LEMMA DisconnectTypes ==
  ASSUME TInv, Disconnect
  PROVE TInv' /\ KeepsOthers
<1> DEFINE c == GetConnection(Flowop.id)
           g == Disconnected(heap, c)
<1>1. phase = "run" /\ txn <= Len(work.txns)
  BY AtFlowop DEF Disconnect
<1>2. /\ work' = work /\ cpool' = cpool /\ ccache' = ccache /\ listener' = listener
      /\ \/ c = None /\ Interrupted /\ UNCHANGED <<heap, files>>
         \/ /\ c # None /\ heap' = g
            /\ files' = IF Datagram THEN files ELSE Close(files, {heap[c].fd})
            /\ phase' = "delete" /\ UNCHANGED <<txn, iteration, at, conn>>
  BY DEF Disconnect
<1>3. /\ conn \in Conns /\ heap \in Heap /\ cpool \in Pointer /\ ccache \in Seq(Object) /\ Len(ccache) < CacheSize
      /\ work \in Profiles
  BY Types DEF TInv
<1>4. c \in Pointer
  BY <1>3, SearchTypes
<1> HIDE DEF c, g
<1>5. CASE c = None /\ Interrupted /\ UNCHANGED <<heap, files>>
  <2>1. files' \in Descriptors /\ FilesInv' /\ OwnFiles'
    BY <1>2, <1>5, FilesKept
  <2>2. TInv'
    BY <1>1, <1>2, <1>3, <1>5, <2>1, TypesAfter DEF Succeeded
  <2> QED BY <1>5, <2>2 DEF KeepsOthers
<1>6. CASE /\ c # None /\ heap' = g
           /\ files' = IF Datagram THEN files ELSE Close(files, {heap[c].fd})
           /\ phase' = "delete" /\ UNCHANGED <<txn, iteration, at, conn>>
  <2>1. c \in Object
    BY <1>4, <1>6 DEF Pointer
  <2>2. /\ heap' \in Heap
        /\ \A p \in Object : heap'[p].used = heap[p].used
        /\ \A p \in Object : heap'[p].fd = IF p = c /\ Stream THEN NoFile ELSE heap[p].fd
    BY <1>3, <1>6, <2>1, DisconnectedIs DEF g
  <2>3. files' \in Descriptors /\ FilesInv' /\ OwnFiles' /\ KeepsOthers
    <3>1. CASE Datagram
      <4>1. files' = files /\ \A p \in Object : heap'[p].fd = heap[p].fd /\ (heap[p].used => heap'[p].used)
        BY <1>3, <1>6, <2>2, <3>1, OneOfThem
      <4> QED BY <1>2, <4>1, FilesKept DEF KeepsOthers
    <3>2. CASE ~Datagram
      <4> DEFINE ds == {heap[c].fd}
      <4>1. files' = Close(files, ds)
        BY <1>6, <3>2
      <4>2. ASSUME NEW e \in File, files[e] \in Object, e \notin ds
            PROVE heap'[files[e]].used /\ heap'[files[e]].fd = e
        <5>1. heap[files[e]].used /\ heap[files[e]].fd = e
          BY <4>2 DEF TInv, FilesInv
        <5>2. files[e] # c
          BY <4>2, <5>1
        <5> QED BY <2>2, <4>2, <5>1, <5>2
      <4>3. ASSUME ~Ssl
            PROVE /\ \A e \in ds \cap File : files[e] \in Object \cup {None}
                  /\ \A p \in Object : heap'[p].fd > 0 => heap'[p].fd = heap[p].fd /\ heap[p].fd \notin ds
                  /\ Stream => \A p \in Object : heap'[p].fd # 0
        <5>1. Stream
          BY <1>3, <3>2, <4>3, OneOfThem
        <5>2. /\ \A p \in Object : heap[p].fd > 0 => files[heap[p].fd] = p
              /\ \A p \in Object : heap[p].fd # 0
              /\ \A p \in Object : heap[p].fd \in File \cup {NoFile}
          BY <1>3, <4>3, <5>1 DEF TInv, OwnFiles, Heap, Protocol
        <5>3. ASSUME NEW e \in ds \cap File PROVE files[e] = c
          <6>1. e = heap[c].fd /\ heap[c].fd # 0 /\ e \in Nat
            BY <2>1, <5>2, Constants
          <6>2. heap[c].fd > 0
            BY <6>1
          <6> QED BY <2>1, <5>2, <6>1, <6>2
        <5>4. ASSUME NEW p \in Object, heap'[p].fd > 0 PROVE heap'[p].fd = heap[p].fd /\ heap[p].fd \notin ds
          <6>1. p # c
            BY <2>2, <5>1, <5>4 DEF NoFile
          <6>2. heap'[p].fd = heap[p].fd
            BY <2>2, <6>1
          <6> QED BY <2>1, <5>2, <5>4, <6>1, <6>2
        <5>5. \A p \in Object : heap'[p].fd # 0
          BY <2>2, <5>2 DEF NoFile
        <5> QED BY <2>1, <5>3, <5>4, <5>5
      <4> HIDE DEF ds
      <4> QED BY <1>2, <2>2, <4>1, <4>2, <4>3, FilesClosed
    <3> QED BY <3>1, <3>2
  <2>4. TypeOK' /\ Position'
    BY <1>2, <1>3, <1>6, <2>2, <2>3 DEF TInv, TypeOK, Position, Heap, Descriptors
  <2>5. Places'
    BY <1>1, <1>2, <1>6 DEF TInv, Places, Accepts
  <2> QED BY <2>3, <2>4, <2>5 DEF TInv
<1> QED BY <1>2, <1>5, <1>6

\* Objects that are destroyed: what they close is theirs.
LEMMA FilesDestroyed ==
  ASSUME TInv, work' = work, NEW gone \in SUBSET Object, heap' \in Heap,
         files' = Close(files, UNION {ClosedWith(heap, p) : p \in gone}),
         \A p \in gone : IsFreed(heap, p) => heap'[p] = Unused,
         \A p \in Object : p \notin gone \/ ~IsFreed(heap, p) => heap'[p].used = heap[p].used /\ heap'[p].fd = heap[p].fd
  PROVE files' \in Descriptors /\ FilesInv' /\ OwnFiles' /\ KeepsOthers
<1> DEFINE ds == UNION {ClosedWith(heap, p) : p \in gone}
<1>1. files \in Descriptors /\ heap \in Heap /\ work \in Profiles
  BY Types DEF TInv
<1>2. \A e : e \in ds <=> \E p \in gone : IsFreed(heap, p) /\ (Ssl \/ heap[p].fd > 0) /\ e = heap[p].fd
  BY ClosedIs
<1>3. files' = Close(files, ds)
  OBVIOUS
<1> HIDE DEF ds
<1>4. ASSUME NEW e \in File, files[e] \in Object, e \notin ds
      PROVE heap'[files[e]].used /\ heap'[files[e]].fd = e
  <2>1. heap[files[e]].used /\ heap[files[e]].fd = e
    BY <1>4 DEF TInv, FilesInv
  <2>2. ASSUME files[e] \in gone, IsFreed(heap, files[e]) PROVE FALSE
    <3>1. ~Ssl /\ e = 0
      BY <1>2, <1>4, <2>1, <2>2, Constants
    <3> QED BY <1>4, <3>1, Constants DEF TInv, OwnFiles
  <2> QED BY <1>4, <2>1, <2>2
<1>5. ASSUME ~Ssl
      PROVE /\ \A e \in ds \cap File : files[e] \in Object \cup {None}
            /\ \A p \in Object : heap'[p].fd > 0 => heap'[p].fd = heap[p].fd /\ heap[p].fd \notin ds
            /\ Stream => \A p \in Object : heap'[p].fd # 0
  <2>1. \A p \in Object : heap[p].fd > 0 => files[heap[p].fd] = p
    BY <1>5 DEF TInv, OwnFiles
  <2>2. \A e \in ds : \E p \in gone : IsFreed(heap, p) /\ heap[p].fd > 0 /\ e = heap[p].fd /\ files[e] = p
    BY <1>2, <1>5, <2>1
  <2>3. ASSUME NEW p \in Object, heap'[p].fd > 0 PROVE heap'[p].fd = heap[p].fd /\ heap[p].fd \notin ds
    <3>1. ~(p \in gone /\ IsFreed(heap, p))
      BY <2>3 DEF Unused, NoFile
    <3>2. heap'[p].fd = heap[p].fd
      BY <3>1
    <3> QED BY <2>1, <2>2, <2>3, <3>1, <3>2
  <2>4. ASSUME Stream, NEW p \in Object PROVE heap'[p].fd # 0
    <3>1. heap[p].fd # 0
      BY <1>5, <2>4 DEF TInv, OwnFiles
    <3>2. CASE p \in gone /\ IsFreed(heap, p)
      BY <3>2 DEF Unused, NoFile
    <3>3. CASE ~(p \in gone /\ IsFreed(heap, p))
      BY <3>1, <3>3
    <3> QED BY <3>2, <3>3
  <2> QED BY <2>2, <2>3, <2>4
<1> QED BY <1>1, <1>3, <1>4, <1>5, FilesClosed

\* The first connection with the id is taken out of the list and destroyed.
LEMMA DeleteTypes ==
  ASSUME TInv, Delete
  PROVE TInv' /\ KeepsOthers
<1> DEFINE o == First(Flowop.id)
           h == Unlinked(heap, o)
<1>1. phase = "delete" /\ txn <= Len(work.txns)
  BY DEF Delete, TInv, Places
<1>2. /\ o # None /\ heap' = Destroyed(h, o) /\ files' = Close(files, ClosedWith(h, o))
      /\ cpool' = IF o = cpool THEN heap[o].next ELSE cpool
      /\ ccache' = <<>> /\ Succeeded(Renewed(at)) /\ work' = work /\ listener' = listener
  BY DEF Delete, FlushCache
<1>3. conn \in Conns /\ heap \in Heap /\ cpool \in Pointer /\ ccache \in Seq(Object)
  BY Types DEF TInv
<1>4. o \in Object
  BY <1>2, <1>3, SearchTypes DEF Pointer
<1> HIDE DEF o
<1>5. h \in Heap /\ \A p \in Object : Same(h[p], heap[p])
  BY <1>3, <1>4, UnlinkedIs
<1>6. ClosedWith(h, o) = ClosedWith(heap, o) /\ (IsFreed(h, o) <=> IsFreed(heap, o))
  BY <1>4, <1>5 DEF Same, IsFreed, ClosedWith
<1> HIDE DEF h
<1>7. /\ heap' \in Heap
      /\ \A p \in Object : p # o => heap'[p] = h[p]
      /\ IsFreed(heap, o) => heap'[o] = Unused
      /\ ~IsFreed(heap, o) => heap' = h
  BY <1>2, <1>4, <1>5, <1>6, DestroyedIs
<1>8. files' \in Descriptors /\ FilesInv' /\ OwnFiles' /\ KeepsOthers
  <2> DEFINE gone == {o}
  <2>1. files' = Close(files, UNION {ClosedWith(heap, p) : p \in gone})
    <3> DEFINE ds == ClosedWith(heap, o)
    <3>1. UNION {ClosedWith(heap, p) : p \in gone} = ds
      OBVIOUS
    <3> QED BY <1>2, <1>6, <3>1
  <2>2. gone \in SUBSET Object /\ \A p \in gone : IsFreed(heap, p) => heap'[p] = Unused
    BY <1>4, <1>7
  <2>3. ASSUME NEW p \in Object, p \notin gone \/ ~IsFreed(heap, p)
        PROVE heap'[p].used = heap[p].used /\ heap'[p].fd = heap[p].fd
    <3>1. heap'[p] = h[p]
      BY <1>7, <2>3
    <3> QED BY <1>5, <3>1 DEF Same
  <2> HIDE DEF gone
  <2> QED BY <1>2, <1>7, <2>1, <2>2, <2>3, FilesDestroyed
<1>9. cpool' \in Pointer
  BY <1>2, <1>3, <1>4 DEF Heap, Protocol
<1>10. ccache' \in Seq(Object) /\ Len(ccache') < CacheSize
  BY <1>2, Constants
<1>11. TInv'
  BY <1>1, <1>2, <1>3, <1>7, <1>8, <1>9, <1>10, RenewedIs, TypesAfter
<1> QED BY <1>8, <1>11

\* The cache keeps connections.
LEMMA FillCacheTypes ==
  ASSUME TInv, NEW id, FillCache(id)
  PROVE /\ ccache' \in Seq(Object) /\ Len(ccache') < CacheSize
        /\ \A n \in DOMAIN ccache' : (n \in DOMAIN ccache /\ ccache'[n] = ccache[n]) \/ (First(id) # None /\ ccache'[n] = First(id))
<1> DEFINE o == First(id)
<1>1. ccache \in Seq(Object) /\ Len(ccache) < CacheSize /\ cpool \in Pointer /\ heap \in Heap
  BY Types DEF TInv
<1>2. o \in Pointer
  BY <1>1, SearchTypes
<1>3. CASE UNCHANGED ccache
  BY <1>1, <1>3
<1>4. CASE ~UNCHANGED ccache
  <2>1. /\ o # None
        /\ \/ \E n \in DOMAIN ccache : ccache' = [ccache EXCEPT ![n] = o]
           \/ Len(ccache) # CacheSize - 1 /\ ccache' = Append(ccache, o)
    BY <1>4 DEF FillCache, Full
  <2>2. o \in Object
    BY <1>2, <2>1 DEF Pointer
  <2> HIDE DEF o
  <2>3. CASE \E n \in DOMAIN ccache : ccache' = [ccache EXCEPT ![n] = o]
    BY <1>1, <2>1, <2>2, <2>3 DEF o
  <2>4. CASE Len(ccache) # CacheSize - 1 /\ ccache' = Append(ccache, o)
    <3>1. /\ ccache' \in Seq(Object) /\ Len(ccache') = Len(ccache) + 1
          /\ \A n \in 1 .. Len(ccache) : ccache'[n] = ccache[n]
          /\ ccache'[Len(ccache) + 1] = o
      BY <1>1, <2>2, <2>4
    <3>2. Len(ccache') < CacheSize
      BY <1>1, <2>4, <3>1, Constants
    <3>3. DOMAIN ccache' = 1 .. Len(ccache) + 1 /\ DOMAIN ccache = 1 .. Len(ccache) /\ Len(ccache) \in Nat
      BY <1>1, <3>1
    <3>4. ASSUME NEW n \in DOMAIN ccache'
          PROVE (n \in DOMAIN ccache /\ ccache'[n] = ccache[n]) \/ ccache'[n] = o
      BY <3>1, <3>3
    <3> QED BY <2>1, <3>1, <3>2, <3>4 DEF o
  <2> QED BY <2>1, <2>3, <2>4
<1> QED BY <1>3, <1>4

LEMMA ReadWriteTypes ==
  ASSUME TInv, ReadWrite
  PROVE TInv' /\ KeepsOthers
<1> DEFINE o == GetConnection(Flowop.id)
           c == [conn EXCEPT ![at] = o]
<1>1. phase = "run" /\ txn <= Len(work.txns)
  BY AtFlowop DEF ReadWrite
<1>2. /\ \/ FillCache(Flowop.id) /\ (Failed(c) \/ Succeeded(c))
         \/ UNCHANGED ccache /\ (Failed(conn) \/ Succeeded(conn))
      /\ UNCHANGED <<work, heap, files, cpool, listener>>
  BY DEF ReadWrite
<1>3. conn \in Conns /\ heap \in Heap /\ cpool \in Pointer /\ ccache \in Seq(Object) /\ Len(ccache) < CacheSize
  BY Types DEF TInv
<1>4. o \in Pointer
  BY <1>3, SearchTypes
<1> HIDE DEF o
<1>5. c \in Conns
  BY <1>3, <1>4 DEF Conns
<1> HIDE DEF c
<1>6. ccache' \in Seq(Object) /\ Len(ccache') < CacheSize
  BY <1>2, <1>3, FillCacheTypes
<1>7. files' \in Descriptors /\ FilesInv' /\ OwnFiles'
  BY <1>2, FilesKept
<1>8. TInv'
  BY <1>1, <1>2, <1>3, <1>5, <1>6, <1>7, TypesAfter
<1> QED BY <1>2, <1>8 DEF KeepsOthers

\* What the strand closes at its end.
LEMMA FiniTypes ==
  ASSUME TInv, Fini
  PROVE TInv' /\ KeepsOthers
<1> DEFINE gone == Closes
<1>1. /\ phase = "fini" /\ phase' = "done"
      /\ heap' = [o \in Object |-> IF o \in gone THEN Destroyed(heap, o)[o] ELSE heap[o]]
      /\ files' = Close(files, UNION {ClosedWith(heap, o) : o \in gone})
      /\ UNCHANGED <<work, txn, iteration, at, conn, cpool, ccache, listener>>
  BY DEF Fini
<1>2. heap \in Heap /\ cpool \in Pointer /\ listener \in Pointer
  BY Types DEF TInv
<1>3. gone \in SUBSET Object
  BY <1>2, NodesArePointers DEF Closes, Linked, Pointer
<1> HIDE DEF gone
<1>4. \A o \in Object : heap'[o] = IF o \in gone THEN Destroyed(heap, o)[o] ELSE heap[o]
  BY <1>1
<1>5. /\ \A o \in Object : Destroyed(heap, o)[o] \in Protocol
      /\ \A o \in Object : Destroyed(heap, o)[o] = IF IsFreed(heap, o) THEN Unused ELSE heap[o]
  BY <1>2, DestroyedIs DEF Heap
<1>6. heap' \in Heap
  BY <1>1, <1>2, <1>5 DEF Heap
<1>7. /\ \A o \in gone : IsFreed(heap, o) => heap'[o] = Unused
      /\ \A o \in Object : o \notin gone \/ ~IsFreed(heap, o) => heap'[o].used = heap[o].used /\ heap'[o].fd = heap[o].fd
  BY <1>3, <1>4, <1>5
<1>8. files' \in Descriptors /\ FilesInv' /\ OwnFiles' /\ KeepsOthers
  BY <1>1, <1>3, <1>6, <1>7, FilesDestroyed
<1>9. TypeOK' /\ Position'
  BY <1>1, <1>6, <1>8 DEF TInv, TypeOK, Position, Heap, Descriptors
<1>10. Places'
  BY <1>1 DEF TInv, Places, Accepts
<1> QED BY <1>8, <1>9, <1>10 DEF TInv

LEMMA OtherOpensTypes ==
  ASSUME TInv, OtherOpens
  PROVE TInv' /\ KeepsOthers
<1> DEFINE d == NextFile
<1>1. /\ files' = [files EXCEPT ![d] = OtherSocket] /\ \A e \in File : files[e] # OtherSocket
      /\ UNCHANGED <<work, txn, iteration, at, phase, conn, heap, cpool, ccache, listener>>
  BY DEF OtherOpens, posVars, listVars
<1>2. files \in Descriptors /\ heap \in Heap
  BY Types DEF TInv
<1>3. d \in File /\ files[d] = None
  BY <1>1, <1>2, FileIsFree, NextFileIs DEF TInv
<1> HIDE DEF d
<1>4. files' \in Descriptors /\ \A e \in File : files'[e] = IF e = d THEN OtherSocket ELSE files[e]
  BY <1>1, <1>2, <1>3 DEF Descriptors
<1>5. FilesInv'
  BY <1>1, <1>4, Constants DEF TInv, FilesInv
<1>6. OwnFiles'
  <2>1. SUFFICES ASSUME ~Ssl
                 PROVE files'[0] = StandardInput /\ \A p \in Object : heap[p].fd > 0 => files'[heap[p].fd] = p
    BY <1>1 DEF TInv, OwnFiles, Ssl, Stream
  <2>2. ASSUME NEW p \in Object, heap[p].fd > 0 PROVE files'[heap[p].fd] = p
    <3>1. files[heap[p].fd] = p /\ heap[p].fd \in File
      BY <1>2, <2>1, <2>2, Constants DEF TInv, OwnFiles, Heap, Protocol, NoFile
    <3> QED BY <1>3, <1>4, <3>1, Constants
  <2> QED BY <1>3, <1>4, <2>1, <2>2, Constants DEF TInv, OwnFiles
<1>7. KeepsOthers
  BY <1>3, <1>4, Constants DEF KeepsOthers
<1>8. TypeOK' /\ Position' /\ Places'
  BY <1>1, <1>4 DEF TInv, TypeOK, Position, Places, Descriptors, Accepts
<1> QED BY <1>5, <1>6, <1>7, <1>8 DEF TInv

\* Only what was another strand's is closed.
LEMMA OtherClosesTypes ==
  ASSUME TInv, OtherCloses
  PROVE TInv'
<1>1. PICK d \in File : files[d] = OtherSocket /\ files' = Close(files, {d})
  BY DEF OtherCloses
<1>2. UNCHANGED <<work, txn, iteration, at, phase, conn, heap, cpool, ccache, listener>>
  BY DEF OtherCloses, posVars, listVars
<1>3. files \in Descriptors /\ heap \in Heap
  BY Types DEF TInv
<1>4. files' \in Descriptors /\ \A e \in File : files'[e] = IF e = d THEN None ELSE files[e]
  BY <1>1, <1>3, Constants DEF Close, Descriptors
<1>5. FilesInv'
  BY <1>2, <1>4, Constants DEF TInv, FilesInv
<1>6. OwnFiles'
  <2>1. SUFFICES ASSUME ~Ssl
                 PROVE files'[0] = StandardInput /\ \A p \in Object : heap[p].fd > 0 => files'[heap[p].fd] = p
    BY <1>2 DEF TInv, OwnFiles, Ssl, Stream
  <2>2. ASSUME NEW p \in Object, heap[p].fd > 0 PROVE files'[heap[p].fd] = p
    <3>1. files[heap[p].fd] = p /\ heap[p].fd \in File
      BY <1>3, <2>1, <2>2, Constants DEF TInv, OwnFiles, Heap, Protocol, NoFile
    <3> QED BY <1>1, <1>4, <3>1, Constants
  <2> QED BY <1>1, <1>4, <2>1, <2>2, Constants DEF TInv, OwnFiles
<1>7. TypeOK' /\ Position' /\ Places'
  BY <1>2, <1>4 DEF TInv, TypeOK, Position, Places, Descriptors, Accepts
<1> QED BY <1>5, <1>6, <1>7 DEF TInv

LEMMA NextTypes ==
  ASSUME TInv, [Next]_cVars
  PROVE TInv' /\ (OtherCloses \/ KeepsOthers)
<1>1. CASE UNCHANGED cVars
  <2>1. UNCHANGED <<work, txn, iteration, at, phase, conn, heap, cpool, ccache, files, listener>>
    BY <1>1 DEF cVars, posVars, listVars
  <2>2. TypeOK' /\ Position' /\ Places'
    BY <2>1 DEF TInv, TypeOK, Position, Places, Accepts
  <2>3. FilesInv' /\ OwnFiles'
    BY <2>1, FilesKept
  <2> QED BY <2>1, <2>2, <2>3 DEF TInv, KeepsOthers
<1>2. CASE Terminated
  BY <1>1, <1>2 DEF Terminated
<1>3. CASE OtherCloses
  BY <1>3, OtherClosesTypes
<1> QED
  BY <1>1, <1>2, <1>3, ListenTypes, ExitTypes, ConnectTypes, ConnectFailsTypes, AcceptTypes, AcceptFailsTypes,
     DisconnectTypes, DeleteTypes, ReadWriteTypes, FiniTypes, OtherOpensTypes DEF Next

\* The types, where the strand is and what its descriptors are open for are an invariant.
LEMMA TInvIsInvariant == Spec => []TInv
<1>1. Init => TInv
  BY InitTypes
<1>2. TInv /\ [Next]_cVars => TInv'
  BY NextTypes
<1> QED BY <1>1, <1>2, PTL DEF Spec

\* The variables have their types: pointers are to objects of the heap, the cache is never
\* filled in its last place (strand_put_connection_in_cache), and there is always a
\* descriptor for a socket that is opened.
THEOREM ConnectionTypes == Spec => []TypeOK
<1>1. TInv => TypeOK
  BY DEF TInv
<1> QED BY <1>1, TInvIsInvariant, PTL

\* A strand never closes what another one has opened, nor standard input: what it closes is
\* its own (generic_disconnect, generic_fini, udp_fini, rds_fini), whatever is interrupted or
\* fails and however the descriptors are used again.
THEOREM StrandsCloseTheirOwn == Spec => ClosesItsOwn
<1>1. TInv /\ [Next]_cVars
        => [~Ssl => OtherCloses \/ \A d \in File : files[d] \in {OtherSocket, StandardInput} => files'[d] = files[d]]_cVars
  BY NextTypes DEF KeepsOthers
<1> QED BY <1>1, TInvIsInvariant, PTL DEF Spec, ClosesItsOwn

-----------------------------------------------------------------------------
(* The list                                                                *)

\* n different connections, linked both ways, of which c is the first.
List(n, s, c, h) ==
  /\ \A i, j \in 1 .. n : s[i] = s[j] => i = j
  /\ c = IF n = 0 THEN None ELSE s[1]
  /\ \A i \in 1 .. n : /\ h[s[i]].used
                       /\ h[s[i]].next = IF i < n THEN s[i + 1] ELSE None
                       /\ h[s[i]].prev = IF i > 1 THEN s[i - 1] ELSE None

\* There are no more of them than objects.
LEMMA ListIsShort ==
  ASSUME NEW n \in Nat, NEW s \in [1 .. n -> Object], \A i, j \in 1 .. n : s[i] = s[j] => i = j
  PROVE n <= NObject
<1> DEFINE S == 1 .. n
<1>1. NObject \in Nat /\ IsFiniteSet(Object) /\ Cardinality(Object) = NObject
  <2>1. NObject \in Nat
    BY Constants
  <2> QED BY <2>1, FS_Interval DEF Object
<1>2. IsFiniteSet(S) /\ Cardinality(S) = n
  BY FS_Interval
<1>3. s \in [S -> Object] /\ \A i, j \in S : s[i] = s[j] => i = j
  OBVIOUS
<1> HIDE DEF S
<1>4. ASSUME Cardinality(Object) < Cardinality(S) PROVE FALSE
  <2>1. \E i, j \in S : i # j /\ s[i] = s[j]
    BY <1>1, <1>2, <1>3, <1>4, FS_PigeonHole
  <2> QED BY <1>3, <2>1
<1> QED BY <1>1, <1>2, <1>4

\* A walk through it goes from each to the next, and comes to its end.
LEMMA ListIsWalked ==
  ASSUME NEW n \in Nat, NEW s \in [1 .. n -> Object], NEW c, NEW h, List(n, s, c, h)
  PROVE [k \in 0 .. NObject |-> IF k < n THEN s[k + 1] ELSE None] \in Walk(NObject, c, h)
<1> DEFINE f == [k \in 0 .. NObject |-> IF k < n THEN s[k + 1] ELSE None]
<1>1. NObject \in Nat /\ None \notin Object /\ None \in Pointer /\ Object \subseteq Pointer
  BY Constants
<1>2. \A k \in 0 .. NObject : f[k] = IF k < n THEN s[k + 1] ELSE None
  OBVIOUS
<1>3. \A k \in 0 .. NObject : k < n => k + 1 \in 1 .. n
  BY <1>1
<1>4. f \in [0 .. NObject -> Pointer]
  BY <1>1, <1>3
<1> HIDE DEF f
<1>5. ASSUME NEW k \in 0 .. NObject
      PROVE f[k] = IF k = 0 THEN c ELSE IF f[k - 1] = None THEN None ELSE h[f[k - 1]].next
  <2>1. CASE k = 0
    BY <1>1, <1>2, <2>1 DEF List
  <2>2. CASE k # 0 /\ k - 1 < n
    <3>1. k - 1 \in 0 .. NObject /\ k \in 1 .. n
      BY <1>1, <2>2
    <3>2. f[k - 1] = s[k] /\ s[k] # None
      BY <1>1, <1>2, <2>2, <3>1
    <3>3. h[s[k]].next = IF k < n THEN s[k + 1] ELSE None
      BY <3>1 DEF List
    <3> QED BY <1>2, <2>2, <3>2, <3>3
  <2>3. CASE k # 0 /\ ~(k - 1 < n)
    <3>1. k - 1 \in 0 .. NObject /\ ~(k < n)
      BY <1>1, <2>3
    <3>2. f[k - 1] = None /\ f[k] = None
      BY <1>2, <2>3, <3>1
    <3> QED BY <2>3, <3>2
  <2> QED BY <2>1, <2>2, <2>3
<1> QED BY <1>4, <1>5 DEF Walk, Steps, f

\* What it goes through are the connections of the list, and then it is at its end.
LEMMA ListIsWhole ==
  ASSUME NEW n \in Nat, NEW s \in [1 .. n -> Object], NEW c, NEW h, List(n, s, c, h), NEW f,
         f = [k \in 0 .. NObject |-> IF k < n THEN s[k + 1] ELSE None]
  PROVE {f[k] : k \in 0 .. NObject} \ {None} = {s[i] : i \in 1 .. n} /\ f[NObject] = None
<1>1. NObject \in Nat /\ None \notin Object /\ n <= NObject
  BY Constants, ListIsShort DEF List
<1>2. \A k \in 0 .. NObject : f[k] = IF k < n THEN s[k + 1] ELSE None
  OBVIOUS
<1>3. ASSUME NEW k \in 0 .. NObject, f[k] # None PROVE \E i \in 1 .. n : f[k] = s[i]
  <2>1. k < n /\ k + 1 \in 1 .. n /\ f[k] = s[k + 1]
    BY <1>1, <1>2, <1>3
  <2> QED BY <2>1
<1>4. ASSUME NEW i \in 1 .. n PROVE s[i] # None /\ \E k \in 0 .. NObject : f[k] = s[i]
  <2>1. i - 1 \in 0 .. NObject /\ i - 1 < n /\ (i - 1) + 1 = i
    BY <1>1
  <2>2. f[i - 1] = s[i]
    BY <1>2, <2>1
  <2> QED BY <1>1, <2>1, <2>2
<1>5. f[NObject] = None
  BY <1>1, <1>2
<1>6. {f[k] : k \in 0 .. NObject} \ {None} = {s[i] : i \in 1 .. n}
  <2> DEFINE A == 0 .. NObject
             B == 1 .. n
  <2>1. (\A k \in A : f[k] # None => \E i \in B : f[k] = s[i]) /\ \A i \in B : s[i] # None /\ \E k \in A : f[k] = s[i]
    BY <1>3, <1>4
  <2> HIDE DEF A, B
  <2>2. {f[k] : k \in A} \ {None} = {s[i] : i \in B}
    BY ONLY <2>1
  <2> QED BY <2>2 DEF A, B
<1> QED BY <1>5, <1>6

\* What is linked is what the list has, and it is not a circle.
LEMMA LinkedIs ==
  ASSUME NEW n \in Nat, NEW s \in [1 .. n -> Object], List(n, s, cpool, heap)
  PROVE Linked = {s[i] : i \in 1 .. n} /\ ~Circular
<1> DEFINE f == [k \in 0 .. NObject |-> IF k < n THEN s[k + 1] ELSE None]
<1>1. Node = f
  BY ListIsWalked, NodeIsWalk
<1>2. {f[k] : k \in 0 .. NObject} \ {None} = {s[i] : i \in 1 .. n} /\ f[NObject] = None
  BY ListIsWhole
<1> HIDE DEF f
<1> QED BY <1>1, <1>2 DEF Linked, Circular

\* The same of the next state.
LEMMA LinkedNext ==
  ASSUME NEW n \in Nat, NEW s \in [1 .. n -> Object], List(n, s, cpool', heap')
  PROVE Linked' = {s[i] : i \in 1 .. n}
<1> DEFINE f == [k \in 0 .. NObject |-> IF k < n THEN s[k + 1] ELSE None]
<1>1. Node' = f
  <2>1. f \in Walk(NObject, cpool', heap')
    BY ListIsWalked
  <2>2. \A g \in Walk(NObject, cpool', heap') : Node' = g
    BY NodeWalksNext DEF Walked
  <2> HIDE DEF f
  <2> QED BY <2>1, <2>2
<1>2. {f[k] : k \in 0 .. NObject} \ {None} = {s[i] : i \in 1 .. n}
  BY ListIsWhole
<1> HIDE DEF f
<1> QED BY <1>1, <1>2 DEF Linked

\* A list depends on its own links only.
LEMMA ListStays ==
  ASSUME NEW n \in Nat, NEW s, NEW c, NEW h, NEW g, List(n, s, c, h),
         \A i \in 1 .. n : g[s[i]].used /\ g[s[i]].next = h[s[i]].next /\ g[s[i]].prev = h[s[i]].prev
  PROVE List(n, s, c, g)
BY DEF List

\* strand_add_connection: one more in front.
LEMMA ListAdded ==
  ASSUME NEW n \in Nat, NEW s \in [1 .. n -> Object], NEW h \in Heap, List(n, s, cpool, h), cpool \in Pointer,
         NEW o \in Object, h[o].used, h[o].prev = None, \A i \in 1 .. n : s[i] # o
  PROVE LET longer == [i \in 1 .. n + 1 |-> IF i = 1 THEN o ELSE s[i - 1]]
        IN longer \in [1 .. n + 1 -> Object] /\ List(n + 1, longer, o, Added(h, o))
<1> DEFINE r == [i \in 1 .. n + 1 |-> IF i = 1 THEN o ELSE s[i - 1]]
           g == Added(h, o)
<1>1. /\ \A p \in Object : g[p].used = h[p].used
      /\ \A p \in Object : g[p].next = IF p = o THEN cpool ELSE h[p].next
      /\ \A p \in Object : g[p].prev = IF p = cpool THEN o ELSE h[p].prev
  BY AddedIs DEF Same
<1>2. \A i \in 1 .. n + 1 : i # 1 => i - 1 \in 1 .. n
  OBVIOUS
<1>3. r \in [1 .. n + 1 -> Object] /\ \A i \in 1 .. n + 1 : r[i] = IF i = 1 THEN o ELSE s[i - 1]
  BY <1>2
<1> HIDE DEF r, g
<1>4. ASSUME NEW i \in 1 .. n + 1, NEW j \in 1 .. n + 1, r[i] = r[j] PROVE i = j
  <2>1. CASE i = 1
    BY <1>2, <1>3, <1>4, <2>1
  <2>2. CASE j = 1
    BY <1>2, <1>3, <1>4, <2>2
  <2>3. CASE i # 1 /\ j # 1
    <3>1. i - 1 \in 1 .. n /\ j - 1 \in 1 .. n /\ s[i - 1] = s[j - 1]
      BY <1>2, <1>3, <1>4, <2>3
    <3>2. i - 1 = j - 1
      BY <3>1 DEF List
    <3> QED BY <3>2
  <2> QED BY <2>1, <2>2, <2>3
<1>5. ASSUME NEW i \in 1 .. n + 1
      PROVE /\ g[r[i]].used
            /\ g[r[i]].next = IF i < n + 1 THEN r[i + 1] ELSE None
            /\ g[r[i]].prev = IF i > 1 THEN r[i - 1] ELSE None
  <2>1. CASE i = 1
    <3>1. r[i] = o /\ g[o].used /\ g[o].next = cpool
      BY <1>1, <1>3, <2>1
    <3>2. cpool = IF n = 0 THEN None ELSE s[1]
      BY DEF List
    <3>3. cpool # o
      <4>1. CASE n = 0
        BY <3>2, <4>1, Constants
      <4>2. CASE n # 0
        BY <3>2, <4>2
      <4> QED BY <4>1, <4>2
    <3>4. g[o].prev = None
      BY <1>1, <3>3
    <3>5. n # 0 => r[2] = s[1]
      BY <1>3
    <3> QED BY <2>1, <3>1, <3>2, <3>4, <3>5
  <2>2. CASE i # 1
    <3> DEFINE k == i - 1
    <3>1. k \in 1 .. n /\ i = k + 1 /\ r[i] = s[k] /\ s[k] \in Object /\ s[k] # o /\ n # 0
      BY <1>2, <1>3, <2>2
    <3> HIDE DEF k
    <3>2. /\ h[s[k]].used
          /\ h[s[k]].next = IF k < n THEN s[k + 1] ELSE None
          /\ h[s[k]].prev = IF k > 1 THEN s[k - 1] ELSE None
          /\ cpool = s[1] /\ (s[k] = s[1] => k = 1)
      BY <3>1 DEF List
    <3>3. g[s[k]].used /\ g[s[k]].next = h[s[k]].next
      BY <1>1, <3>1, <3>2
    <3>4. k < n => r[i + 1] = s[k + 1]
      BY <1>3, <3>1
    <3>5. g[s[k]].prev = IF k = 1 THEN o ELSE s[k - 1]
      BY <1>1, <3>1, <3>2
    <3>6. r[i - 1] = IF k = 1 THEN o ELSE s[k - 1]
      BY <1>3, <3>1
    <3> QED BY <2>2, <3>1, <3>2, <3>3, <3>4, <3>5, <3>6
  <2> QED BY <2>1, <2>2
<1>6. r[1] = o /\ n + 1 # 0
  BY <1>3
<1>7. List(n + 1, r, o, g)
  BY <1>4, <1>5, <1>6 DEF List
<1> QED BY <1>3, <1>7 DEF r, g

\* strand_delete_connection: one less, wherever it was.
LEMMA ListUnlinked ==
  ASSUME NEW n \in Nat, NEW s \in [1 .. n -> Object], heap \in Heap, List(n, s, cpool, heap), NEW k \in 1 .. n
  PROVE LET shorter == [i \in 1 .. n - 1 |-> IF i < k THEN s[i] ELSE s[i + 1]]
        IN /\ shorter \in [1 .. n - 1 -> Object]
           /\ List(n - 1, shorter, IF s[k] = cpool THEN heap[s[k]].next ELSE cpool, Unlinked(heap, s[k]))
<1> DEFINE r == [i \in 1 .. n - 1 |-> IF i < k THEN s[i] ELSE s[i + 1]]
           o == s[k]
           c == IF o = cpool THEN heap[o].next ELSE cpool
           h == Unlinked(heap, o)
<1>1. r \in [1 .. n - 1 -> Object] /\ \A i \in 1 .. n - 1 : r[i] = IF i < k THEN s[i] ELSE s[i + 1]
  OBVIOUS
<1>2. /\ o \in Object /\ None \notin Object
      /\ heap[o].next = (IF k < n THEN s[k + 1] ELSE None)
      /\ heap[o].prev = (IF k > 1 THEN s[k - 1] ELSE None)
  BY Constants DEF List
<1>3. /\ \A p \in Object : h[p].used = heap[p].used
      /\ \A p \in Object : h[p].next = IF p = heap[o].prev THEN heap[o].next ELSE heap[p].next
      /\ \A p \in Object : h[p].prev = IF p = heap[o].next THEN heap[o].prev ELSE heap[p].prev
  <2>1. \A p \in Object : Same(h[p], heap[p])
    BY <1>2, UnlinkedIs
  <2>2. /\ \A p \in Object : h[p].next = IF p = heap[o].prev THEN heap[o].next ELSE heap[p].next
        /\ \A p \in Object : h[p].prev = IF p = heap[o].next THEN heap[o].prev ELSE heap[p].prev
    BY <1>2, UnlinkedIs
  <2> HIDE DEF h
  <2> QED BY <2>1, <2>2 DEF Same
<1> HIDE DEF r, h
<1>4. ASSUME NEW i \in 1 .. n - 1, NEW j \in 1 .. n - 1, r[i] = r[j] PROVE i = j
  <2> DEFINE a == IF i < k THEN i ELSE i + 1
             b == IF j < k THEN j ELSE j + 1
  <2>1. a \in 1 .. n /\ b \in 1 .. n /\ s[a] = s[b]
    BY <1>1, <1>4
  <2>2. a = b
    <3> HIDE DEF a, b
    <3> QED BY <2>1 DEF List
  <2> QED BY <2>2
<1>5. ASSUME NEW i \in 1 .. n - 1
      PROVE /\ h[r[i]].used
            /\ h[r[i]].next = IF i < n - 1 THEN r[i + 1] ELSE None
            /\ h[r[i]].prev = IF i > 1 THEN r[i - 1] ELSE None
  <2> DEFINE a == IF i < k THEN i ELSE i + 1
  <2>1. a \in 1 .. n /\ a # k /\ r[i] = s[a] /\ s[a] \in Object
    BY <1>1
  <2> HIDE DEF a
  <2>2. /\ heap[s[a]].used
        /\ heap[s[a]].next = (IF a < n THEN s[a + 1] ELSE None)
        /\ heap[s[a]].prev = (IF a > 1 THEN s[a - 1] ELSE None)
    BY <2>1 DEF List
  <2>3. h[s[a]].used
    BY <1>3, <2>1, <2>2
  <2>4. s[a] = heap[o].prev <=> a + 1 = k
    <3>1. CASE k > 1
      <4>1. k - 1 \in 1 .. n
        BY <3>1
      <4>2. s[a] = s[k - 1] <=> a = k - 1
        BY <2>1, <4>1 DEF List
      <4> QED BY <1>2, <2>1, <3>1, <4>2
    <3>2. CASE ~(k > 1)
      BY <1>2, <2>1, <3>2
    <3> QED BY <3>1, <3>2
  <2>5. s[a] = heap[o].next <=> a = k + 1
    <3>1. CASE k < n
      <4>1. k + 1 \in 1 .. n
        BY <3>1
      <4>2. s[a] = s[k + 1] <=> a = k + 1
        BY <2>1, <4>1 DEF List
      <4> QED BY <1>2, <3>1, <4>2
    <3>2. CASE ~(k < n)
      BY <1>2, <2>1, <3>2
    <3> QED BY <3>1, <3>2
  <2>6. h[s[a]].next = IF a + 1 = k THEN heap[o].next ELSE heap[s[a]].next
    BY <1>3, <2>1, <2>4
  <2>7. h[s[a]].prev = IF a = k + 1 THEN heap[o].prev ELSE heap[s[a]].prev
    BY <1>3, <2>1, <2>5
  <2>8. h[s[a]].next = IF i < n - 1 THEN r[i + 1] ELSE None
    <3>1. CASE i < n - 1
      <4>1. r[i + 1] = IF i + 1 < k THEN s[i + 1] ELSE s[(i + 1) + 1]
        BY <1>1, <3>1
      <4>2. CASE i + 1 < k
        BY <2>2, <2>6, <3>1, <4>1, <4>2 DEF a
      <4>3. CASE i + 1 = k
        BY <1>2, <2>6, <3>1, <4>1, <4>3 DEF a
      <4>4. CASE i >= k
        BY <2>2, <2>6, <3>1, <4>1, <4>4 DEF a
      <4> QED BY <4>2, <4>3, <4>4
    <3>2. CASE i = n - 1
      <4>1. CASE i < k
        BY <1>2, <2>6, <3>2, <4>1 DEF a
      <4>2. CASE i >= k
        BY <2>2, <2>6, <3>2, <4>2 DEF a
      <4> QED BY <4>1, <4>2
    <3> QED BY <3>1, <3>2
  <2>9. h[s[a]].prev = IF i > 1 THEN r[i - 1] ELSE None
    <3>1. CASE i > 1
      <4>1. r[i - 1] = IF i - 1 < k THEN s[i - 1] ELSE s[(i - 1) + 1]
        BY <1>1, <3>1
      <4>2. CASE i < k
        BY <2>2, <2>7, <3>1, <4>1, <4>2 DEF a
      <4>3. CASE i = k
        BY <1>2, <2>7, <3>1, <4>1, <4>3 DEF a
      <4>4. CASE i > k
        BY <2>2, <2>7, <3>1, <4>1, <4>4 DEF a
      <4> QED BY <4>2, <4>3, <4>4
    <3>2. CASE i = 1
      <4>1. CASE i < k
        BY <2>2, <2>7, <3>2, <4>1 DEF a
      <4>2. CASE i >= k
        BY <1>2, <2>7, <3>2, <4>2 DEF a
      <4> QED BY <4>1, <4>2
    <3> QED BY <3>1, <3>2
  <2> QED BY <2>1, <2>3, <2>8, <2>9
<1>6. c = IF n - 1 = 0 THEN None ELSE r[1]
  <2>1. cpool = s[1] /\ 1 \in 1 .. n
    BY DEF List
  <2>2. o = cpool <=> k = 1
    BY <2>1 DEF List
  <2>3. CASE k = 1
    <3>1. n - 1 # 0 => r[1] = s[1 + 1]
      BY <1>1, <2>3
    <3> QED BY <1>2, <2>2, <2>3, <3>1
  <2>4. CASE k # 1
    <3>1. n - 1 # 0 /\ r[1] = s[1]
      BY <1>1, <2>4
    <3> QED BY <2>1, <2>2, <2>4, <3>1
  <2> QED BY <2>3, <2>4
<1> HIDE DEF o, c
<1>7. List(n - 1, r, c, h)
  BY <1>4, <1>5, <1>6 DEF List
<1> QED BY <1>1, <1>7 DEF r, h, o, c

-----------------------------------------------------------------------------
(* The list as the flowops change it                                       *)

\* UDP and RDS accept with the listener itself, and put it into the list again each time.
\* Here a strand does that once: at most one accept in the profile, and no iterations of it.
Accepting(t, i) == work.txns[t].flowops[i].type = "accept"
AcceptsOnce ==
  Datagram =>
    \A t, u \in DOMAIN work.txns : \A i \in DOMAIN work.txns[t].flowops, j \in DOMAIN work.txns[u].flowops :
      Accepting(t, i) /\ Accepting(u, j) => t = u /\ i = j /\ work.txns[t].iter = 1

\* The accept is still to come.
NotYet == \E t \in DOMAIN work.txns : \E i \in DOMAIN work.txns[t].flowops :
            Accepting(t, i) /\ (txn < t \/ (txn = t /\ at <= i))

\* The list has the cached connections and those with a socket, and not yet a datagram
\* listener that is still to be accepted with.
HasList(n, s) ==
  /\ List(n, s, cpool, heap)
  /\ \A m \in DOMAIN ccache : \E i \in 1 .. n : s[i] = ccache[m]
  /\ Stream => \A d \in File : files[d] \in Object => files[d] = listener \/ \E i \in 1 .. n : s[i] = files[d]
  /\ Datagram /\ NotYet /\ listener # None =>
       heap[listener].used /\ heap[listener].prev = None /\ \A i \in 1 .. n : s[i] # listener

ListInv == AcceptsOnce /\ phase # "done" => \E n \in Nat : \E s \in [1 .. n -> Object] : HasList(n, s)

\* At its end the strand has no socket.
NoSocketsInv == Stream /\ phase = "done" => \A d \in File : files[d] \notin Object

\* What is still to come was to come before, and later than the flowop that ended.
LEMMA NotYetMoves ==
  ASSUME Position, txn <= Len(work.txns), work' = work, AcceptsOnce, Datagram, NextFlowop \/ NextTxn, NotYet'
  PROVE \E t \in DOMAIN work.txns : \E i \in DOMAIN work.txns[t].flowops :
          Accepting(t, i) /\ (txn < t \/ (txn = t /\ at < i))
<1>1. PICK t \in DOMAIN work.txns : \E i \in DOMAIN work.txns[t].flowops :
             Accepting(t, i) /\ (txn' < t \/ (txn' = t /\ at' <= i))
  BY DEF NotYet, Accepting
<1> PICK i \in DOMAIN work.txns[t].flowops : Accepting(t, i) /\ (txn' < t \/ (txn' = t /\ at' <= i))
  BY <1>1
<1>2. /\ DOMAIN work.txns = 1 .. Len(work.txns) /\ Len(work.txns) \in Nat /\ txn \in Nat /\ at \in Nat /\ iteration \in Nat \ {0}
      /\ DOMAIN work.txns[t].flowops = 1 .. Len(work.txns[t].flowops) /\ Len(work.txns[t].flowops) \in 1 .. MaxFlowop
      /\ MaxFlowop \in Nat
  BY <1>1, TxnIs, ProfilesAssumption, BoundsAssumption DEF Position
<1>3. t \in Nat /\ i \in Nat
  BY <1>1, <1>2
<1>4. \/ txn' = txn /\ at' = at + 1
      \/ txn' = txn /\ at' = 1 /\ iteration < work.txns[txn].iter
      \/ txn' = txn + 1
  BY NextFlowopMoves, NextTxnMoves
<1>5. ~(txn' = txn /\ iteration < work.txns[txn].iter /\ txn = t)
  BY <1>2 DEF AcceptsOnce
<1>6. txn < t \/ (txn = t /\ at < i)
  BY <1>2, <1>3, <1>4, <1>5
<1> QED BY <1>6

LEMMA NotYetAfter ==
  ASSUME TInv, txn <= Len(work.txns), work' = work, AcceptsOnce, Datagram, NEW c, Succeeded(c) \/ Failed(c), NotYet'
  PROVE NotYet
<1>1. CASE NextFlowop \/ NextTxn
  <2>1. PICK t \in DOMAIN work.txns : \E i \in DOMAIN work.txns[t].flowops :
               Accepting(t, i) /\ (txn < t \/ (txn = t /\ at < i))
    BY <1>1, NotYetMoves DEF TInv
  <2>2. at \in Nat /\ \A i \in DOMAIN work.txns[t].flowops : i \in Nat
    BY ProfilesAssumption, BoundsAssumption DEF TInv, Position
  <2> QED BY <2>1, <2>2 DEF NotYet
<1>2. CASE UNCHANGED <<txn, at>>
  BY <1>2 DEF NotYet, Accepting
<1> QED BY <1>1, <1>2 DEF Succeeded, Failed, Continue, Interrupted

\* After the accept there is none to come.
LEMMA AcceptedNow ==
  ASSUME TInv, At("accept"), work' = work, AcceptsOnce, Datagram, NEW c, Succeeded(c)
  PROVE ~NotYet'
<1>1. SUFFICES ASSUME NotYet' PROVE FALSE
  OBVIOUS
<1>2. /\ txn <= Len(work.txns) /\ Flowop.type = "accept" /\ txn \in DOMAIN work.txns /\ txn \in Nat
      /\ at \in DOMAIN work.txns[txn].flowops /\ Flowops = work.txns[txn].flowops /\ at \in Nat
  BY AtFlowop, TxnIs, BoundsAssumption DEF TInv, Position
<1>3. NextFlowop \/ NextTxn
  BY DEF Succeeded, Continue, Interrupted
<1>4. PICK t \in DOMAIN work.txns : \E i \in DOMAIN work.txns[t].flowops :
             Accepting(t, i) /\ (txn < t \/ (txn = t /\ at < i))
  BY <1>1, <1>2, <1>3, NotYetMoves DEF TInv
<1> PICK i \in DOMAIN work.txns[t].flowops : Accepting(t, i) /\ (txn < t \/ (txn = t /\ at < i))
  BY <1>4
<1>5. Accepting(txn, at)
  BY <1>2 DEF Accepting, Flowop
<1>6. t = txn /\ i = at
  BY <1>2, <1>5 DEF AcceptsOnce
<1> QED BY <1>2, <1>6

\* What is in the list stays in it, for the same id.
Grows == Linked \subseteq Linked' /\ \A p \in Linked : heap'[p].id = heap[p].id

\* In phase "listen" there is neither a connection nor a socket.
LEMMA NothingYet ==
  ASSUME TInv, phase = "listen"
  PROVE cpool = None /\ listener = None /\ \A d \in File : files[d] \notin Object
BY DEF TInv, Places, FilesInv, Unused

\* The list stays: what is in it keeps its links, and the cache gets none that is not.
LEMMA ListKept ==
  ASSUME TInv, ListInv, phase # "done", work' = work, cpool' = cpool, listener' = listener,
         \A p \in Object : heap[p].used => /\ heap'[p].used /\ heap'[p].next = heap[p].next
                                          /\ heap'[p].prev = heap[p].prev /\ heap'[p].id = heap[p].id,
         \A m \in DOMAIN ccache' : (m \in DOMAIN ccache /\ ccache'[m] = ccache[m]) \/ ccache'[m] \in Linked,
         Stream => \A d \in File : files'[d] \in Object => files'[d] = files[d],
         AcceptsOnce /\ Datagram /\ NotYet' => NotYet
  PROVE ListInv' /\ (AcceptsOnce => Grows)
<1>1. SUFFICES ASSUME AcceptsOnce
               PROVE Grows /\ \E n \in Nat : \E s \in [1 .. n -> Object] : HasList(n, s)'
  BY DEF ListInv, AcceptsOnce, Datagram, Accepting
<1>2. PICK n \in Nat : \E s \in [1 .. n -> Object] : HasList(n, s)
  BY <1>1 DEF ListInv
<1>3. PICK s \in [1 .. n -> Object] : HasList(n, s)
  BY <1>2
<1>4. List(n, s, cpool, heap) /\ \A i \in 1 .. n : s[i] \in Object /\ heap[s[i]].used
  BY <1>3 DEF HasList, List
<1>5. List(n, s, cpool', heap')
  BY <1>4, ListStays
<1>6. Linked = {s[i] : i \in 1 .. n}
  BY <1>4, LinkedIs
<1>7. \A m \in DOMAIN ccache' : \E i \in 1 .. n : s[i] = ccache'[m]
  BY <1>3, <1>6 DEF HasList
<1>8. ASSUME Stream PROVE \A d \in File : files'[d] \in Object => files'[d] = listener' \/ \E i \in 1 .. n : s[i] = files'[d]
  BY <1>3, <1>8 DEF HasList
<1>9. ASSUME Datagram, NotYet', listener' # None
      PROVE heap'[listener'].used /\ heap'[listener'].prev = None /\ \A i \in 1 .. n : s[i] # listener'
  <2>1. NotYet /\ listener \in Object
    BY <1>1, <1>9, Types DEF TInv, Pointer
  <2> QED BY <1>3, <1>9, <2>1 DEF HasList
<1>10. HasList(n, s)'
  BY <1>5, <1>7, <1>8, <1>9 DEF HasList, Stream, Datagram
<1>11. Grows
  <2>1. Linked' = {s[i] : i \in 1 .. n}
    BY <1>5, LinkedNext
  <2> QED BY <1>4, <1>6, <2>1 DEF Grows
<1> QED BY <1>10, <1>11

LEMMA InitList == Init => ListInv /\ NoSocketsInv
<1> SUFFICES ASSUME Init PROVE ListInv /\ NoSocketsInv
  OBVIOUS
<1> DEFINE s == [i \in 1 .. 0 |-> 1]
<1>1. s \in [1 .. 0 -> Object] /\ \A i : i \notin 1 .. 0
  BY Constants
<1>2. /\ cpool = None /\ ccache = <<>> /\ listener = None /\ phase # "done"
      /\ \A d \in File : files[d] \notin Object
  BY Constants DEF Init
<1> HIDE DEF s
<1>3. HasList(0, s)
  BY <1>1, <1>2 DEF HasList, List
<1> QED BY <1>1, <1>2, <1>3 DEF ListInv, NoSocketsInv

LEMMA ListenList ==
  ASSUME TInv, ListInv, Listen
  PROVE ListInv'
<1> DEFINE d == NextFile
<1>1. /\ phase = "listen" /\ cpool' = None /\ listener' = 1 /\ ccache' = ccache /\ work' = work
      /\ heap' = Opened(1, 0, d) /\ files' = [files EXCEPT ![d] = 1]
      /\ \A e \in File : files[e] \notin Object
  BY NothingYet DEF Listen
<1>2. d \in File /\ heap \in Heap /\ files \in Descriptors /\ 1 \in Object
  <2>1. 1 \in New
    BY <1>1, Constants DEF TInv, Places, New, Unused
  <2> QED BY <2>1, FileForNew, Types DEF TInv, New
<1>3. SUFFICES ASSUME AcceptsOnce, phase # "done"
               PROVE \E n \in Nat : \E s \in [1 .. n -> Object] : HasList(n, s)'
  BY <1>1 DEF ListInv, AcceptsOnce, Datagram, Accepting
<1>4. PICK n \in Nat : \E s \in [1 .. n -> Object] : HasList(n, s)
  BY <1>3 DEF ListInv
<1>5. PICK s \in [1 .. n -> Object] : HasList(n, s)
  BY <1>4
<1>6. n = 0
  <2>1. cpool = None
    BY NothingYet, <1>1
  <2> QED BY <1>5, <2>1, Constants DEF HasList, List
<1> HIDE DEF d
<1>7. heap'[1].used /\ heap'[1].prev = None
  BY <1>1, <1>2, OpenedIs
<1>8. \A e \in File : files'[e] \in Object => files'[e] = 1
  BY <1>1, <1>2 DEF Descriptors
<1>9. \A i : i \notin 1 .. n
  BY <1>6
<1>10. List(n, s, cpool', heap')
  BY <1>1, <1>6, <1>9 DEF List
<1>11. HasList(n, s)'
  BY <1>1, <1>5, <1>7, <1>8, <1>9, <1>10 DEF HasList
<1> QED BY <1>11

\* A connection that is added, of a peer or of the listener.
LEMMA AddedList ==
  ASSUME TInv, NEW n \in Nat, NEW s \in [1 .. n -> Object], HasList(n, s), NEW h \in Heap, NEW o \in Object,
         h[o].used, h[o].prev = None, \A i \in 1 .. n : s[i] # o,
         \A i \in 1 .. n : /\ h[s[i]].used /\ h[s[i]].next = heap[s[i]].next /\ h[s[i]].prev = heap[s[i]].prev
                           /\ h[s[i]].id = heap[s[i]].id,
         heap' = Added(h, o), cpool' = o, ccache' = ccache, work' = work, listener' = listener,
         \A d \in File : files'[d] = files[d] \/ files'[d] = o,
         Datagram /\ NotYet' /\ listener # None =>
           h[listener].used /\ h[listener].prev = None /\ listener # o /\ \A i \in 1 .. n : s[i] # listener
  PROVE Grows /\ \E m \in Nat : \E r \in [1 .. m -> Object] : HasList(m, r)'
<1> DEFINE r == [i \in 1 .. n + 1 |-> IF i = 1 THEN o ELSE s[i - 1]]
<1>1. cpool \in Pointer /\ listener \in Pointer
  BY Types DEF TInv
<1>2. List(n, s, cpool, h)
  BY ListStays DEF HasList
<1>3. r \in [1 .. n + 1 -> Object] /\ List(n + 1, r, cpool', heap')
  BY <1>1, <1>2, ListAdded
<1>4. /\ r[1] = o /\ 1 \in 1 .. n + 1 /\ n + 1 \in Nat
      /\ \A i \in 1 .. n : i + 1 \in 1 .. n + 1 /\ r[i + 1] = s[i]
      /\ \A i \in 1 .. n + 1 : r[i] = o \/ \E j \in 1 .. n : r[i] = s[j]
  <2>1. \A i \in 1 .. n + 1 : r[i] = IF i = 1 THEN o ELSE s[i - 1]
    OBVIOUS
  <2> HIDE DEF r
  <2>2. \A i \in 1 .. n + 1 : i = 1 \/ i - 1 \in 1 .. n
    OBVIOUS
  <2> QED BY <2>1, <2>2
<1> HIDE DEF r
<1>5. ASSUME NEW m \in DOMAIN ccache' PROVE \E i \in 1 .. n + 1 : r[i] = ccache'[m]
  <2>1. PICK j \in 1 .. n : s[j] = ccache[m]
    BY <1>5 DEF HasList
  <2>2. j + 1 \in 1 .. n + 1 /\ r[j + 1] = s[j]
    BY <1>4
  <2> QED BY <2>1, <2>2
<1>6. ASSUME Stream, NEW d \in File, files'[d] \in Object, files'[d] # listener
      PROVE \E i \in 1 .. n + 1 : r[i] = files'[d]
  <2>1. CASE files'[d] = o
    BY <1>4, <2>1
  <2>2. CASE files'[d] = files[d]
    <3>1. PICK j \in 1 .. n : s[j] = files[d]
      BY <1>6, <2>2 DEF HasList
    <3>2. j + 1 \in 1 .. n + 1 /\ r[j + 1] = s[j]
      BY <1>4
    <3> QED BY <2>2, <3>1, <3>2
  <2> QED BY <2>1, <2>2
<1>7. ASSUME Datagram, NotYet', listener # None
      PROVE heap'[listener].used /\ heap'[listener].prev = None /\ \A i \in 1 .. n + 1 : r[i] # listener
  <2>1. listener \in Object /\ listener # cpool
    <3>1. cpool = IF n = 0 THEN None ELSE s[1]
      BY DEF HasList, List
    <3> QED BY <1>1, <1>7, <3>1 DEF Pointer
  <2>2. heap'[listener].used /\ heap'[listener].prev = h[listener].prev
    BY <1>1, <1>7, <2>1, AddedIs DEF Same
  <2> QED BY <1>4, <1>7, <2>2
<1>8. HasList(n + 1, r)'
  BY <1>3, <1>5, <1>6, <1>7 DEF HasList, Stream, Datagram
<1>9. Grows
  <2>1. Linked = {s[i] : i \in 1 .. n} /\ Linked' = {r[i] : i \in 1 .. n + 1}
    <3>1. Linked = {s[i] : i \in 1 .. n}
      BY LinkedIs DEF HasList
    <3>2. Linked' = {r[i] : i \in 1 .. n + 1}
      BY <1>3, <1>4, LinkedNext
    <3> QED BY <3>1, <3>2
  <2>2. \A q \in Object : heap'[q].id = h[q].id
    <3>1. \A q \in Object : Same(Added(h, o)[q], h[q])
      BY <1>1, AddedIs
    <3> QED BY <3>1 DEF Same
  <2>3. \A i \in 1 .. n : heap'[s[i]].id = heap[s[i]].id
    BY <2>2
  <2> QED BY <1>4, <2>1, <2>3 DEF Grows
<1> QED BY <1>3, <1>4, <1>8, <1>9

LEMMA ConnectList ==
  ASSUME TInv, ListInv, Connect
  PROVE ListInv' /\ (AcceptsOnce => Grows)
<1> DEFINE d == NextFile
           i == Flowop.id
           h(o) == Opened(o, i, d)
<1>1. phase = "run" /\ txn <= Len(work.txns) /\ i \in Nat
  BY AtFlowop DEF Connect
<1>2. PICK o \in New : /\ heap' = Added(h(o), o) /\ cpool' = o
                       /\ files' = [files EXCEPT ![d] = o]
                       /\ Succeeded(Renewed(at))
  BY DEF Connect
<1>3. work' = work /\ ccache' = ccache /\ listener' = listener
  BY DEF Connect
<1>4. SUFFICES ASSUME AcceptsOnce PROVE Grows /\ \E n \in Nat : \E s \in [1 .. n -> Object] : HasList(n, s)'
  BY <1>3 DEF ListInv, AcceptsOnce, Datagram, Accepting
<1>5. PICK n \in Nat : \E s \in [1 .. n -> Object] : HasList(n, s)
  BY <1>1, <1>4 DEF ListInv
<1>6. PICK s \in [1 .. n -> Object] : HasList(n, s)
  BY <1>5
<1>7. o \in Object /\ ~heap[o].used /\ d \in File /\ heap \in Heap /\ files \in Descriptors /\ listener \in Pointer
  BY FileForNew, Types DEF TInv, New
<1> HIDE DEF d, i
<1> DEFINE g == h(o)
<1>8. g \in Heap /\ g[o].used /\ g[o].prev = None /\ \A p \in Object : p # o => g[p] = heap[p]
  BY <1>1, <1>7, OpenedIs
<1> HIDE DEF g
<1>9. heap' = Added(g, o)
  BY <1>2 DEF g
<1>10. \A k \in 1 .. n : s[k] \in Object /\ heap[s[k]].used
  BY <1>6 DEF HasList, List
<1>11. \A k \in 1 .. n : s[k] # o
  BY <1>7, <1>10
<1>12. \A k \in 1 .. n : g[s[k]].used /\ g[s[k]].next = heap[s[k]].next /\ g[s[k]].prev = heap[s[k]].prev /\ g[s[k]].id = heap[s[k]].id
  BY <1>8, <1>10, <1>11
<1>13. \A e \in File : files'[e] = files[e] \/ files'[e] = o
  BY <1>2, <1>7 DEF Descriptors
<1>14. ASSUME Datagram, NotYet', listener # None
       PROVE g[listener].used /\ g[listener].prev = None /\ listener # o /\ \A k \in 1 .. n : s[k] # listener
  <2>1. NotYet
    BY <1>1, <1>2, <1>3, <1>4, <1>14, NotYetAfter
  <2>2. heap[listener].used /\ heap[listener].prev = None /\ \A k \in 1 .. n : s[k] # listener
    BY <1>6, <1>14, <2>1 DEF HasList
  <2>3. listener \in Object /\ listener # o
    BY <1>7, <1>14, <2>2 DEF Pointer
  <2> QED BY <1>8, <2>2, <2>3
<1> QED BY <1>2, <1>3, <1>6, <1>7, <1>8, <1>9, <1>11, <1>12, <1>13, <1>14, AddedList

LEMMA AcceptList ==
  ASSUME TInv, ListInv, Accept
  PROVE ListInv' /\ (AcceptsOnce => Grows)
<1> DEFINE d == NextFile
           i == Flowop.id
           ref == Referenced
           h(o) == Opened(o, i, d)
           datagram == Datagram
<1>1. phase = "run" /\ txn <= Len(work.txns) /\ i \in Nat /\ listener = 1 /\ At("accept")
  BY AtFlowop DEF Accept
<1>2. PICK o \in IF datagram THEN {listener} ELSE New :
             /\ heap' = Added(IF datagram THEN ref ELSE h(o), o)
             /\ files' = IF datagram THEN files ELSE [files EXCEPT ![d] = o]
             /\ cpool' = o
  BY DEF Accept
<1>3. /\ work' = work /\ ccache' = ccache /\ listener' = listener
      /\ Succeeded(Renewed(at))
  BY DEF Accept
<1>4. SUFFICES ASSUME AcceptsOnce PROVE Grows /\ \E n \in Nat : \E s \in [1 .. n -> Object] : HasList(n, s)'
  BY <1>3 DEF ListInv, AcceptsOnce, Datagram, Accepting
<1>5. PICK n \in Nat : \E s \in [1 .. n -> Object] : HasList(n, s)
  BY <1>1, <1>4 DEF ListInv
<1>6. PICK s \in [1 .. n -> Object] : HasList(n, s)
  BY <1>5
<1>7. heap \in Heap /\ files \in Descriptors /\ listener \in Object /\ listener # None
  BY <1>1, Types, Constants DEF TInv
<1>8. \A k \in 1 .. n : s[k] \in Object /\ heap[s[k]].used
  BY <1>6 DEF HasList, List
<1>9. /\ ref \in Heap
      /\ \A p \in Object : p # listener => ref[p] = heap[p]
      /\ ref[listener].used = heap[listener].used /\ ref[listener].prev = heap[listener].prev
  BY <1>1, <1>7, ReferencedIs
<1> HIDE DEF ref, i
<1>10. CASE datagram
  <2>1. heap' = Added(ref, listener) /\ files' = files /\ cpool' = listener
    BY <1>2, <1>10
  <2>2. NotYet
    <3>1. /\ txn \in DOMAIN work.txns /\ txn \in Nat /\ at \in DOMAIN Flowops /\ Flowops = work.txns[txn].flowops
          /\ Flowop.type = "accept" /\ at \in Nat
      BY <1>1, AtFlowop, TxnIs, BoundsAssumption DEF TInv, Position
    <3>2. Accepting(txn, at) /\ at <= at
      BY <3>1 DEF Accepting, Flowop
    <3> QED BY <3>1, <3>2 DEF NotYet
  <2>3. heap[listener].used /\ heap[listener].prev = None /\ \A k \in 1 .. n : s[k] # listener
    BY <1>6, <1>7, <1>10, <2>2 DEF HasList
  <2>4. \A k \in 1 .. n : ref[s[k]].used /\ ref[s[k]].next = heap[s[k]].next /\ ref[s[k]].prev = heap[s[k]].prev /\ ref[s[k]].id = heap[s[k]].id
    BY <1>8, <1>9, <2>3
  <2>5. ~NotYet'
    BY <1>1, <1>3, <1>4, <1>10, AcceptedNow
  <2> HIDE DEF datagram
  <2> QED BY <1>3, <1>6, <1>7, <1>9, <2>1, <2>3, <2>4, <2>5, AddedList
<1>11. CASE ~datagram
  <2>1. o \in New /\ heap' = Added(h(o), o) /\ files' = [files EXCEPT ![d] = o] /\ cpool' = o
    BY <1>2, <1>11
  <2>2. o \in Object /\ ~heap[o].used /\ d \in File
    BY <1>7, <2>1, FileForNew DEF TInv, New
  <2> HIDE DEF d
  <2> DEFINE g == h(o)
  <2>3. g \in Heap /\ g[o].used /\ g[o].prev = None /\ \A p \in Object : p # o => g[p] = heap[p]
    BY <1>1, <1>7, <2>2, OpenedIs
  <2> HIDE DEF g
  <2>4. heap' = Added(g, o)
    BY <2>1 DEF g
  <2>5. \A k \in 1 .. n : s[k] # o
    BY <2>2, <1>8
  <2>6. \A k \in 1 .. n : g[s[k]].used /\ g[s[k]].next = heap[s[k]].next /\ g[s[k]].prev = heap[s[k]].prev /\ g[s[k]].id = heap[s[k]].id
    BY <1>8, <2>3, <2>5
  <2>7. \A e \in File : files'[e] = files[e] \/ files'[e] = o
    BY <1>7, <2>1, <2>2 DEF Descriptors
  <2> QED BY <1>3, <1>6, <1>11, <2>1, <2>2, <2>3, <2>4, <2>5, <2>6, <2>7, AddedList
<1> QED BY <1>10, <1>11

\* The flowops that fail, those of other strands, and the steps that leave the list alone.
LEMMA ConnectFailsList ==
  ASSUME TInv, ListInv, ConnectFails
  PROVE ListInv' /\ (AcceptsOnce => Grows)
<1>1. phase = "run" /\ txn <= Len(work.txns) /\ Flowop.id \in Nat
  BY AtFlowop DEF ConnectFails
<1>2. Failed(conn) /\ work' = work /\ cpool' = cpool /\ ccache' = ccache /\ listener' = listener
  BY DEF ConnectFails
<1>3. /\ \A p \in Object : heap[p].used => heap'[p] = heap[p]
      /\ Stream => \A e \in File : files'[e] \in Object => files'[e] = files[e]
  <2>1. CASE UNCHANGED <<heap, files>>
    BY <2>1
  <2>2. CASE \E o \in New, d \in Tried :
               LET h == Opened(o, Flowop.id, d)
               IN /\ heap' = Destroyed(h, o)
                  /\ files' = Close(IF d = NextFile THEN [files EXCEPT ![d] = o] ELSE files, ClosedWith(h, o))
    <3>1. PICK o \in New, d \in Tried :
                 /\ heap' = Destroyed(Opened(o, Flowop.id, d), o)
                 /\ files' = Close(IF d = NextFile THEN [files EXCEPT ![d] = o] ELSE files, ClosedWith(Opened(o, Flowop.id, d), o))
      BY <2>2
    <3>2. \A p \in Object : p # o => heap'[p] = heap[p]
      BY <1>1, <1>2, <3>1, TriedAndDestroyed
    <3>3. Stream => \A e \in File : files'[e] \in Object => files'[e] = files[e]
      BY <1>1, <1>2, <3>1, TriedAndDestroyed
    <3> QED BY <3>2, <3>3 DEF New
  <2> QED BY <2>1, <2>2 DEF ConnectFails
<1>4. ASSUME AcceptsOnce, Datagram, NotYet' PROVE NotYet
  BY <1>1, <1>2, <1>4, NotYetAfter
<1> QED BY <1>1, <1>2, <1>3, <1>4, ListKept

LEMMA AcceptFailsList ==
  ASSUME TInv, ListInv, AcceptFails
  PROVE ListInv' /\ (AcceptsOnce => Grows)
<1>1. phase = "run" /\ txn <= Len(work.txns) /\ Flowop.id \in Nat
  BY AtFlowop DEF AcceptFails
<1>2. Failed(conn) /\ work' = work /\ cpool' = cpool /\ ccache' = ccache /\ listener' = listener /\ work \in Profiles
  BY Types DEF AcceptFails, TInv
<1>3. /\ SslLost \/ VsockFreed \/ NotReferenced
      /\ Ssl \/ Stream \/ UNCHANGED <<heap, files>>
      /\ Stream => UNCHANGED files
  <2>1. CASE Ssl
    BY <1>2, <2>1, OneOfThem DEF AcceptFails
  <2>2. CASE ~Ssl /\ Datagram
    BY <2>2 DEF AcceptFails, NotReferenced, Datagram
  <2>3. CASE ~Ssl /\ ~Datagram
    BY <1>2, <2>3, OneOfThem DEF AcceptFails, SslLost, Lost, VsockFreed
  <2> QED BY <2>1, <2>2, <2>3
<1>4. \A p \in Object : heap[p].used => heap'[p] = heap[p]
  BY <1>2, <1>3, LostTypes
<1>5. ASSUME AcceptsOnce, Datagram, NotYet' PROVE NotYet
  BY <1>1, <1>2, <1>5, NotYetAfter
<1> QED BY <1>1, <1>2, <1>3, <1>4, <1>5, ListKept

LEMMA ExitList ==
  ASSUME TInv, ListInv, phase # "done", ListenFails \/ ConnectExits
  PROVE ListInv' /\ (AcceptsOnce => Grows)
<1>1. UNCHANGED <<work, txn, iteration, at, conn, heap, cpool, ccache, files, listener>>
  BY DEF ListenFails, ConnectExits, listVars
<1>2. NotYet' => NotYet
  BY <1>1 DEF NotYet, Accepting
<1> QED BY <1>1, <1>2, ListKept

LEMMA OthersList ==
  ASSUME TInv, ListInv, phase # "done", OtherOpens \/ OtherCloses \/ UNCHANGED cVars
  PROVE ListInv' /\ (AcceptsOnce => Grows)
<1>1. UNCHANGED <<work, txn, iteration, at, phase, conn, heap, cpool, ccache, listener>>
  BY DEF OtherOpens, OtherCloses, cVars, posVars, listVars
<1>2. NotYet' => NotYet
  BY <1>1 DEF NotYet, Accepting
<1>3. files \in Descriptors
  BY Types DEF TInv
<1>4. \A e \in File : files'[e] \in Object => files'[e] = files[e]
  <2>1. CASE OtherOpens
    <3> DEFINE d == NextFile
    <3>1. files' = [files EXCEPT ![d] = OtherSocket]
      BY <2>1 DEF OtherOpens
    <3> HIDE DEF d
    <3> QED BY <1>3, <3>1, Constants DEF Descriptors
  <2>2. CASE OtherCloses
    BY <2>2, Constants DEF OtherCloses, Close
  <2>3. CASE UNCHANGED cVars
    BY <2>3 DEF cVars
  <2> QED BY <2>1, <2>2, <2>3
<1> QED BY <1>1, <1>2, <1>4, ListKept

LEMMA DisconnectList ==
  ASSUME TInv, ListInv, Disconnect
  PROVE ListInv' /\ (AcceptsOnce => Grows)
<1> DEFINE c == GetConnection(Flowop.id)
           g == Disconnected(heap, c)
<1>1. phase = "run" /\ txn <= Len(work.txns)
  BY AtFlowop DEF Disconnect
<1>2. /\ work' = work /\ cpool' = cpool /\ ccache' = ccache /\ listener' = listener
      /\ \/ c = None /\ Interrupted /\ UNCHANGED <<heap, files>>
         \/ /\ c # None /\ heap' = g
            /\ files' = IF Datagram THEN files ELSE Close(files, {heap[c].fd})
            /\ phase' = "delete" /\ UNCHANGED <<txn, iteration, at, conn>>
  BY DEF Disconnect
<1>3. /\ heap \in Heap /\ cpool \in Pointer /\ ccache \in Seq(Object) /\ work \in Profiles
  BY Types DEF TInv
<1>4. c \in Pointer
  BY <1>3, SearchTypes
<1> HIDE DEF c, g
<1>5. /\ \A p \in Object : heap[p].used => /\ heap'[p].used /\ heap'[p].next = heap[p].next
                                             /\ heap'[p].prev = heap[p].prev /\ heap'[p].id = heap[p].id
      /\ \A e \in File : files'[e] \in Object => files'[e] = files[e]
  <2>1. CASE UNCHANGED <<heap, files>>
    BY <2>1
  <2>2. CASE c # None /\ heap' = g /\ files' = IF Datagram THEN files ELSE Close(files, {heap[c].fd})
    <3>1. c \in Object
      BY <1>4, <2>2 DEF Pointer
    <3>2. \A p \in Object : /\ heap'[p].used = heap[p].used /\ heap'[p].next = heap[p].next
                             /\ heap'[p].prev = heap[p].prev /\ heap'[p].id = heap[p].id
      BY <1>3, <2>2, <3>1, DisconnectedIs DEF g
    <3>3. \A e \in File : files'[e] \in Object => files'[e] = files[e]
      BY <2>2, Constants DEF Close
    <3> QED BY <3>2, <3>3
  <2> QED BY <1>2, <2>1, <2>2
<1>6. ASSUME AcceptsOnce, Datagram, NotYet' PROVE NotYet
  <2>1. CASE Interrupted
    BY <1>1, <1>2, <1>6, <2>1, NotYetAfter DEF Succeeded
  <2>2. CASE UNCHANGED <<txn, at>>
    BY <1>2, <1>6, <2>2 DEF NotYet, Accepting
  <2> QED BY <1>2, <2>1, <2>2
<1> QED BY <1>1, <1>2, <1>5, <1>6, ListKept

LEMMA ReadWriteList ==
  ASSUME TInv, ListInv, ReadWrite
  PROVE ListInv' /\ (AcceptsOnce => Grows)
<1> DEFINE i == Flowop.id
           o == GetConnection(i)
           c == [conn EXCEPT ![at] = o]
<1>1. phase = "run" /\ txn <= Len(work.txns)
  BY AtFlowop DEF ReadWrite
<1>2. /\ \/ FillCache(i) /\ (Failed(c) \/ Succeeded(c))
         \/ UNCHANGED ccache /\ (Failed(conn) \/ Succeeded(conn))
      /\ UNCHANGED <<work, heap, files, cpool, listener>>
  BY DEF ReadWrite
<1>3. First(i) = None \/ First(i) \in Linked
  BY FirstIs DEF Linked
<1>4. \A m \in DOMAIN ccache' : (m \in DOMAIN ccache /\ ccache'[m] = ccache[m]) \/ ccache'[m] \in Linked
  BY <1>2, <1>3, FillCacheTypes
<1> HIDE DEF c
<1>5. ASSUME AcceptsOnce, Datagram, NotYet' PROVE NotYet
  BY <1>1, <1>2, <1>5, NotYetAfter
<1> QED BY <1>1, <1>2, <1>4, <1>5, ListKept

LEMMA DeleteList ==
  ASSUME TInv, ListInv, Delete
  PROVE ListInv'
<1> DEFINE id == Flowop.id
           o == First(id)
           h == Unlinked(heap, o)
<1>1. phase = "delete" /\ txn <= Len(work.txns)
  BY DEF Delete, TInv, Places
<1>2. /\ o # None /\ heap' = Destroyed(h, o) /\ files' = Close(files, ClosedWith(h, o))
      /\ cpool' = IF o = cpool THEN heap[o].next ELSE cpool
      /\ ccache' = <<>> /\ Succeeded(Renewed(at)) /\ work' = work /\ listener' = listener
  BY DEF Delete, FlushCache
<1>3. SUFFICES ASSUME AcceptsOnce PROVE \E n \in Nat : \E s \in [1 .. n -> Object] : HasList(n, s)'
  BY <1>2 DEF ListInv, AcceptsOnce, Datagram, Accepting
<1>4. PICK n \in Nat : \E s \in [1 .. n -> Object] : HasList(n, s)
  BY <1>1, <1>3 DEF ListInv
<1>5. PICK s \in [1 .. n -> Object] : HasList(n, s)
  BY <1>4
<1>6. heap \in Heap /\ files \in Descriptors /\ listener \in Pointer /\ work \in Profiles
  BY Types DEF TInv
<1>7. List(n, s, cpool, heap)
  BY <1>5 DEF HasList
<1>8. o \in Linked
  BY <1>2, FirstIs DEF Linked
<1> HIDE DEF o
<1>9. PICK k \in 1 .. n : o = s[k]
  BY <1>7, <1>8, LinkedIs
<1> DEFINE r == [i \in 1 .. n - 1 |-> IF i < k THEN s[i] ELSE s[i + 1]]
<1>10. r \in [1 .. n - 1 -> Object] /\ List(n - 1, r, cpool', h)
  BY <1>2, <1>6, <1>7, <1>9, ListUnlinked
<1>11. /\ n - 1 \in Nat /\ o \in Object
       /\ \A i \in 1 .. n - 1 : r[i] # o /\ \E j \in 1 .. n : r[i] = s[j]
       /\ \A j \in 1 .. n : s[j] = o \/ \E i \in 1 .. n - 1 : r[i] = s[j]
  <2>1. \A i, j \in 1 .. n : s[i] = s[j] => i = j
    BY <1>7 DEF List
  <2>2. \A i \in 1 .. n - 1 : r[i] = IF i < k THEN s[i] ELSE s[i + 1]
    OBVIOUS
  <2> HIDE DEF r
  <2>3. ASSUME NEW i \in 1 .. n - 1 PROVE r[i] # o /\ \E j \in 1 .. n : r[i] = s[j]
    <3>1. CASE i < k
      BY <1>9, <2>1, <2>2, <3>1
    <3>2. CASE ~(i < k)
      <4>1. i + 1 \in 1 .. n /\ i + 1 # k /\ r[i] = s[i + 1]
        BY <2>2, <3>2
      <4> QED BY <1>9, <2>1, <4>1
    <3> QED BY <3>1, <3>2
  <2>4. ASSUME NEW j \in 1 .. n, s[j] # o PROVE \E i \in 1 .. n - 1 : r[i] = s[j]
    <3>1. CASE j < k
      <4>1. j \in 1 .. n - 1 /\ r[j] = s[j]
        BY <2>2, <3>1
      <4> QED BY <4>1
    <3>2. CASE j > k
      <4>1. j - 1 \in 1 .. n - 1 /\ r[j - 1] = s[j]
        BY <2>2, <3>2
      <4> QED BY <4>1
    <3> QED BY <1>9, <2>4, <3>1, <3>2
  <2> QED BY <1>9, <2>3, <2>4
<1> HIDE DEF r
<1>12. /\ h \in Heap /\ \A p \in Object : Same(h[p], heap[p])
       /\ \A p \in Object : h[p].prev = IF p = heap[o].next THEN heap[o].prev ELSE heap[p].prev
  BY <1>6, <1>11, UnlinkedIs
<1>13. ClosedWith(h, o) = ClosedWith(heap, o)
  BY <1>11, <1>12 DEF Same, IsFreed, ClosedWith
<1> HIDE DEF h
<1>14. \A p \in Object : p # o => heap'[p] = h[p]
  BY <1>2, <1>11, <1>12, DestroyedIs
<1>15. List(n - 1, r, cpool', heap')
  <2>1. \A i \in 1 .. n - 1 : r[i] \in Object /\ heap'[r[i]] = h[r[i]]
    BY <1>10, <1>11, <1>14
  <2>2. \A i \in 1 .. n - 1 : h[r[i]].used
    BY <1>10 DEF List
  <2> QED BY <1>10, <1>11, <2>1, <2>2, ListStays
<1>16. ASSUME Stream, NEW d \in File, files'[d] \in Object, files'[d] # listener
       PROVE \E i \in 1 .. n - 1 : r[i] = files'[d]
  <2>1. files'[d] = files[d] /\ d \notin ClosedWith(heap, o)
    BY <1>2, <1>13, <1>16, Constants DEF Close
  <2>2. ASSUME files[d] = o PROVE FALSE
    <3>1. ~Ssl /\ ~Datagram
      BY <1>6, <1>16, OneOfThem
    <3>2. heap[o].fd = d /\ heap[o].fd # 0 /\ d \in Nat
      BY <1>11, <1>16, <2>2, <3>1, Constants DEF TInv, FilesInv, OwnFiles
    <3>3. heap[o].fd > 0 /\ IsFreed(heap, o)
      BY <3>1, <3>2 DEF IsFreed
    <3> QED BY <2>1, <3>2, <3>3, ClosedIs
  <2>3. PICK j \in 1 .. n : s[j] = files[d]
    BY <1>5, <1>16, <2>1 DEF HasList
  <2>4. s[j] # o
    BY <2>2, <2>3
  <2> QED BY <1>11, <2>1, <2>3, <2>4
<1>17. ASSUME Datagram, NotYet', listener # None
       PROVE heap'[listener].used /\ heap'[listener].prev = None /\ \A i \in 1 .. n - 1 : r[i] # listener
  <2>1. NotYet
    BY <1>1, <1>2, <1>3, <1>17, NotYetAfter
  <2>2. heap[listener].used /\ heap[listener].prev = None /\ \A i \in 1 .. n : s[i] # listener
    BY <1>5, <1>17, <2>1 DEF HasList
  <2>3. listener \in Object /\ listener # o /\ \A i \in 1 .. n - 1 : r[i] # listener
    BY <1>6, <1>9, <1>11, <1>17, <2>2 DEF Pointer
  <2>4. listener # heap[o].next
    <3>1. heap[o].next = IF k < n THEN s[k + 1] ELSE None
      BY <1>7, <1>9 DEF List
    <3>2. k < n => k + 1 \in 1 .. n
      OBVIOUS
    <3> QED BY <1>17, <2>2, <3>1, <3>2
  <2>5. heap'[listener] = h[listener] /\ h[listener].used = heap[listener].used /\ h[listener].prev = heap[listener].prev
    BY <1>12, <1>14, <2>3, <2>4 DEF Same
  <2> QED BY <2>2, <2>3, <2>5
<1>18. HasList(n - 1, r)'
  BY <1>2, <1>15, <1>16, <1>17 DEF HasList, Stream, Datagram
<1> QED BY <1>10, <1>11, <1>18

\* What is found at the end is all that has a socket.
LEMMA FiniSockets ==
  ASSUME TInv, ListInv, Fini
  PROVE NoSocketsInv'
<1>1. /\ phase = "fini" /\ work' = work
      /\ files' = Close(files, UNION {ClosedWith(heap, o) : o \in Closes})
  BY DEF Fini
<1>2. SUFFICES ASSUME Stream, NEW d \in File, files'[d] \in Object PROVE FALSE
  BY <1>1 DEF NoSocketsInv, Stream
<1>3. ~Ssl /\ ~Datagram
  BY <1>2, OneOfThem, Types DEF TInv
<1>4. PICK n \in Nat : \E s \in [1 .. n -> Object] : HasList(n, s)
  BY <1>1, <1>3 DEF ListInv, AcceptsOnce
<1>5. PICK s \in [1 .. n -> Object] : HasList(n, s)
  BY <1>4
<1> DEFINE o == files[d]
<1>6. files'[d] = o /\ o \in Object /\ \A p \in Closes : d \notin ClosedWith(heap, p)
  BY <1>1, <1>2, Constants DEF Close
<1>7. heap[o].fd = d /\ heap[o].fd # 0 /\ d \in Nat
  BY <1>2, <1>3, <1>6, Constants DEF TInv, FilesInv, OwnFiles
<1>8. o = listener \/ o \in Linked
  <2>1. Linked = {s[i] : i \in 1 .. n}
    BY <1>5, LinkedIs DEF HasList
  <2>2. o = listener \/ \E i \in 1 .. n : s[i] = o
    BY <1>2, <1>5, <1>6 DEF HasList
  <2> QED BY <2>1, <2>2
<1>9. o \in Closes
  BY <1>6, <1>8, Constants DEF Closes
<1>10. ClosedWith(heap, o) = {d}
  BY <1>3, <1>7, ClosedIs DEF IsFreed
<1> QED BY <1>6, <1>9, <1>10

LInv == TInv /\ ListInv /\ NoSocketsInv

\* Only the end of the strand ends it.
LEMMA StillRuns ==
  ASSUME TInv, phase \in {"listen", "run", "delete", "fini"}, Next, ~Fini
  PROVE phase' # "done"
<1>1. ASSUME phase \in {"run", "delete"}, txn <= Len(work.txns), work' = work, NEW c, Succeeded(c) \/ Failed(c)
      PROVE phase' \in {"run", "fini"}
  BY <1>1, NextFlowopMoves, NextTxnMoves DEF TInv, Succeeded, Failed, Continue, Interrupted
<1>2. CASE Connect \/ ConnectFails \/ Accept \/ AcceptFails \/ ReadWrite
  <2>1. phase = "run" /\ txn <= Len(work.txns) /\ work' = work
    BY <1>2 DEF Connect, ConnectFails, Accept, AcceptFails, ReadWrite, At
  <2>2. \E c : Succeeded(c) \/ Failed(c)
    BY <1>2 DEF Connect, ConnectFails, Accept, AcceptFails, ReadWrite
  <2> QED BY <1>1, <2>1, <2>2
<1>3. CASE Disconnect
  <2>1. phase = "run" /\ txn <= Len(work.txns) /\ work' = work /\ (Interrupted \/ phase' = "delete")
    BY <1>3 DEF Disconnect, At
  <2> QED BY <2>1, NextTxnMoves DEF TInv, Interrupted
<1>4. CASE Delete
  <2>1. phase = "delete" /\ txn <= Len(work.txns) /\ work' = work /\ Succeeded(Renewed(at))
    BY <1>4 DEF Delete, TInv, Places
  <2> QED BY <1>1, <2>1
<1>5. CASE Listen \/ ListenFails \/ ConnectExits
  BY <1>5 DEF Listen, ListenFails, ConnectExits
<1>6. CASE OtherOpens \/ OtherCloses \/ Terminated
  BY <1>6 DEF OtherOpens, OtherCloses, Terminated, posVars
<1> QED BY <1>2, <1>3, <1>4, <1>5, <1>6 DEF Next

LEMMA NextList ==
  ASSUME LInv, [Next]_cVars
  PROVE LInv'
<1>1. TInv /\ ListInv /\ NoSocketsInv /\ TInv'
  BY NextTypes DEF LInv
<1>2. CASE OtherOpens \/ OtherCloses \/ UNCHANGED cVars
  <2>1. phase' = phase /\ work' = work
    BY <1>2 DEF OtherOpens, OtherCloses, cVars, posVars
  <2>2. CASE phase # "done"
    BY <1>1, <1>2, <2>1, <2>2, OthersList DEF LInv, NoSocketsInv
  <2>3. CASE phase = "done"
    <3>1. ListInv'
      BY <2>1, <2>3 DEF ListInv
    <3>2. \A d \in File : files'[d] \in Object => files'[d] = files[d]
      <4>1. OtherCloses \/ UNCHANGED files
        BY <1>2, <2>3 DEF OtherOpens, cVars
      <4> QED BY <4>1, Constants DEF OtherCloses, Close
    <3>3. NoSocketsInv'
      BY <1>1, <2>1, <2>3, <3>2 DEF NoSocketsInv, Stream
    <3> QED BY <1>1, <3>1, <3>3 DEF LInv
  <2> QED BY <2>2, <2>3
<1>3. CASE Terminated
  BY <1>2, <1>3 DEF Terminated
<1>4. CASE Fini
  <2>1. phase' = "done"
    BY <1>4 DEF Fini
  <2> QED BY <1>1, <1>4, <2>1, FiniSockets DEF LInv, ListInv
<1>5. CASE Next /\ ~(OtherOpens \/ OtherCloses \/ Terminated \/ Fini)
  <2>1. /\ phase \in {"listen", "run", "delete"}
        /\ Listen \/ ListenFails \/ Connect \/ ConnectFails \/ ConnectExits \/ Accept \/ AcceptFails \/ Disconnect
             \/ Delete \/ ReadWrite
    BY <1>5 DEF Next, Listen, ListenFails, Connect, ConnectFails, ConnectExits, Accept, AcceptFails, Disconnect,
                Delete, ReadWrite, At
  <2>2. ListInv'
    BY <1>1, <2>1, ListenList, ExitList, ConnectList, ConnectFailsList, AcceptList, AcceptFailsList, DisconnectList,
       DeleteList, ReadWriteList
  <2>3. phase' # "done"
    BY <1>1, <1>5, <2>1, StillRuns
  <2> QED BY <1>1, <2>2, <2>3 DEF LInv, NoSocketsInv
<1> QED BY <1>2, <1>3, <1>4, <1>5

LEMMA LInvIsInvariant == Spec => []LInv
<1>1. Init => LInv
  BY InitTypes, InitList DEF LInv
<1>2. LInv /\ [Next]_cVars => LInv'
  BY NextList
<1> QED BY <1>1, <1>2, PTL DEF Spec

\* What the list says of the properties.
LEMMA ListSays ==
  ASSUME LInv
  PROVE /\ AcceptsOnce => PoolIsList /\ CacheIsLive
        /\ SocketsAreClosed
<1>1. ASSUME AcceptsOnce, phase # "done"
      PROVE \E n \in Nat : \E s \in [1 .. n -> Object] : HasList(n, s)
  BY <1>1 DEF LInv, ListInv
<1>2. ASSUME AcceptsOnce, phase = "run" PROVE PoolIsList /\ CacheIsLive
  <2>1. PICK n \in Nat : \E s \in [1 .. n -> Object] : HasList(n, s)
    BY <1>1, <1>2
  <2>2. PICK s \in [1 .. n -> Object] : HasList(n, s)
    BY <2>1
  <2>3. List(n, s, cpool, heap) /\ Linked = {s[i] : i \in 1 .. n} /\ ~Circular
    BY <2>2, LinkedIs DEF HasList
  <2>4. cpool # None => heap[cpool].prev = None
    BY <2>3 DEF List
  <2>5. ASSUME NEW i \in 1 .. n
        PROVE heap[s[i]].used /\ (heap[s[i]].next # None => heap[heap[s[i]].next].prev = s[i])
    <3>1. heap[s[i]].used /\ heap[s[i]].next = IF i < n THEN s[i + 1] ELSE None
      BY <2>3 DEF List
    <3>2. CASE i < n
      <4>1. i + 1 \in 1 .. n /\ i + 1 > 1 /\ (i + 1) - 1 = i
        BY <3>2
      <4>2. heap[s[i + 1]].prev = s[i]
        BY <2>3, <4>1 DEF List
      <4> QED BY <3>1, <3>2, <4>2
    <3> QED BY <3>1, <3>2
  <2>6. PoolIsList
    BY <2>3, <2>4, <2>5 DEF PoolIsList
  <2>7. CacheIsLive
    BY <2>2, <2>3 DEF HasList, CacheIsLive
  <2> QED BY <2>6, <2>7
<1>3. ASSUME Stream, phase # "exited", NEW d \in File, files[d] \in Object
      PROVE phase # "done" /\ files[d] \in Linked \cup {listener} /\ heap[files[d]].fd = d
  <2>1. phase # "done" /\ heap[files[d]].fd = d
    BY <1>3 DEF LInv, NoSocketsInv, TInv, FilesInv
  <2>2. AcceptsOnce
    BY <1>3, OneOfThem, Types DEF AcceptsOnce, LInv, TInv
  <2>3. PICK n \in Nat : \E s \in [1 .. n -> Object] : HasList(n, s)
    BY <1>1, <2>1, <2>2
  <2>4. PICK s \in [1 .. n -> Object] : HasList(n, s)
    BY <2>3
  <2>5. Linked = {s[i] : i \in 1 .. n}
    BY <2>4, LinkedIs DEF HasList
  <2>6. files[d] = listener \/ \E i \in 1 .. n : s[i] = files[d]
    BY <1>3, <2>4 DEF HasList
  <2> QED BY <2>1, <2>5, <2>6
<1> QED BY <1>2, <1>3 DEF PoolIsList, CacheIsLive, SocketsAreClosed

\* The connections are a list with an end, linked both ways, wherever one is added or taken
\* out (strand_add_connection, strand_delete_connection) and whatever fails, if a datagram
\* listener is accepted with once.
THEOREM TheConnectionsAreAList == Spec => [](AcceptsOnce => PoolIsList)
BY LInvIsInvariant, ListSays, PTL

\* The cache has connections of the list only (strand_put_connection_in_cache,
\* strand_delete_connection), under the same condition.
THEOREM TheCacheIsLive == Spec => [](AcceptsOnce => CacheIsLive)
BY LInvIsInvariant, ListSays, PTL

\* With connections of their own, every socket can still be found, and the end of the strand
\* (strand_fini) leaves none open.
THEOREM SocketsAreAllClosed == Spec => []SocketsAreClosed
BY LInvIsInvariant, ListSays, PTL

-----------------------------------------------------------------------------
(* The connections that the flowops keep                                   *)

\* A transaction that never disconnects, or one that looks for its connections again whenever
\* it starts over: it has one iteration, or its first flowop, which is not a read or a write,
\* gets them renewed or ends the strand.
Keeps(f) == \A i \in DOMAIN f : f[i].type # "disconnect"
Begins(t) ==
  \/ t.iter = 1
  \/ t.flowops[1].type # "rw" /\ \A i \in DOMAIN t.flowops : t.flowops[i].canfail => t.flowops[i].type = "rw"

LooksAgain == \A t \in DOMAIN work.txns : Keeps(work.txns[t].flowops) \/ Begins(work.txns[t])

\* What a flowop keeps is in the list and has its id, if nothing is taken out of it; or it
\* has not kept anything yet when it is its turn.
Live(c) == \A j \in DOMAIN Flowops : c[j] # None => c[j] \in Linked /\ heap[c[j]].id = Flowops[j].id
Empty(c, i) == \A j \in i .. MaxFlowop : c[j] = None

Kept ==
  /\ iteration = 1 \/ iteration <= work.txns[txn].iter
  /\ \/ Keeps(Flowops) /\ Live(conn)
     \/ Begins(work.txns[txn]) /\ (at > 1 \/ iteration = 1 => Empty(conn, at))
  /\ phase = "listen" => Empty(conn, 1)
  /\ phase = "delete" => ~Keeps(Flowops)

ConnInv ==
  AcceptsOnce /\ LooksAgain /\ phase \in {"listen", "run", "delete"} /\ txn <= Len(work.txns) => Kept

\* What is passed on to the flowop that follows.
Passes(c) ==
  \/ Keeps(Flowops) /\ \A j \in DOMAIN Flowops : c[j] # None => c[j] \in Linked' /\ heap'[c[j]].id = Flowops[j].id
  \/ Begins(work.txns[txn]) /\ Empty(c, at + 1)

LEMMA KeptAnew ==
  ASSUME TInv, LooksAgain, txn <= Len(work.txns), work' = work, NextTxn, conn' = [i \in DOMAIN conn |-> None]
  PROVE ConnInv'
<1>1. SUFFICES ASSUME txn' <= Len(work.txns) PROVE Kept'
  BY DEF ConnInv
<1>2. /\ txn' = txn + 1 /\ at' = 1 /\ iteration' = 1 /\ phase' \in {"run", "fini"} /\ txn \in DOMAIN work.txns
      /\ DOMAIN work.txns = 1 .. Len(work.txns) /\ Len(work.txns) \in Nat /\ MaxFlowop \in Nat
  BY NextTxnMoves, TxnIs, ProfilesAssumption, Constants DEF TInv, Position
<1>3. txn' \in DOMAIN work.txns
  BY <1>1, <1>2
<1>4. Flowops' = work.txns[txn'].flowops
  BY <1>1 DEF Flowops
<1>5. /\ DOMAIN work.txns[txn'].flowops = 1 .. Len(work.txns[txn'].flowops)
      /\ Len(work.txns[txn'].flowops) \in 1 .. MaxFlowop
  BY <1>3, ProfilesAssumption, Types DEF TInv
<1>6. \A j \in 1 .. MaxFlowop : conn'[j] = None
  <2>1. conn \in Conns
    BY Types DEF TInv
  <2> QED BY <2>1 DEF Conns
<1>7. Live(conn)'
  BY <1>2, <1>4, <1>5, <1>6 DEF Live
<1>8. Empty(conn, at)'
  BY <1>2, <1>6 DEF Empty
<1>9. Keeps(Flowops)' \/ Begins(work.txns[txn])'
  BY <1>3, <1>4 DEF LooksAgain, Keeps, Begins
<1> QED BY <1>2, <1>7, <1>8, <1>9 DEF Kept

LEMMA KeptAfter ==
  ASSUME TInv, Kept, LooksAgain, txn <= Len(work.txns), work' = work, NEW c \in Conns,
         Interrupted \/ phase' = "fini" \/ (Continue(c) /\ Passes(c))
  PROVE ConnInv'
<1>1. CASE Interrupted
  BY <1>1, KeptAnew DEF Interrupted
<1>2. CASE phase' = "fini"
  BY <1>2 DEF ConnInv
<1>3. CASE Continue(c) /\ Passes(c) /\ NextTxn
  <2>1. txn' # txn
    BY <1>3, NextTxnMoves, BoundsAssumption DEF TInv, Position
  <2> QED BY <1>3, <2>1, KeptAnew DEF Continue
<1>4. CASE Continue(c) /\ Passes(c) /\ ~NextTxn
  <2>1. /\ txn' = txn /\ phase' = "run"
        /\ \/ at' = at + 1 /\ iteration' = iteration
           \/ at' = 1 /\ iteration' = iteration + 1 /\ iteration < work.txns[txn].iter
    BY <1>4 DEF Continue, NextFlowop
  <2>2. conn' = c /\ Flowops' = Flowops
    BY <1>4, <2>1 DEF Continue, Flowops
  <2>3. at \in Nat /\ at >= 1 /\ iteration \in Nat /\ iteration >= 1 /\ work.txns[txn].iter \in Nat
    BY TxnIs, Constants DEF TInv, Position
  <2>4. iteration' = 1 \/ iteration' <= work'.txns[txn'].iter
    BY <2>1, <2>3 DEF Kept
  <2>5. CASE Keeps(Flowops) /\ \A j \in DOMAIN Flowops : c[j] # None => c[j] \in Linked' /\ heap'[c[j]].id = Flowops[j].id
    <3>1. Live(conn)' /\ Keeps(Flowops)'
      BY <2>2, <2>5 DEF Live, Keeps
    <3> QED BY <2>1, <2>4, <3>1 DEF Kept, ConnInv
  <2>6. CASE Begins(work.txns[txn]) /\ Empty(c, at + 1)
    <3>1. Begins(work.txns[txn])'
      BY <2>1, <2>6 DEF Begins
    <3>2. at' > 1 \/ iteration' = 1 => at' = at + 1
      BY <2>1, <2>3
    <3>3. at' > 1 \/ iteration' = 1 => Empty(conn, at)'
      BY <2>2, <2>6, <3>2 DEF Empty
    <3> QED BY <2>1, <2>4, <3>1, <3>3 DEF Kept, ConnInv
  <2> QED BY <1>4, <2>5, <2>6 DEF Passes
<1> QED BY <1>1, <1>2, <1>3, <1>4

\* A connection is made or accepted: what follows looks for its own again.
LEMMA RenewedPasses ==
  ASSUME TInv, Kept, phase = "run", txn <= Len(work.txns), Grows
  PROVE Passes(Renewed(at))
<1> DEFINE c == Renewed(at)
<1>1. /\ conn \in Conns /\ at \in Nat /\ MaxFlowop \in Nat /\ Len(Flowops) \in 1 .. MaxFlowop
      /\ DOMAIN Flowops = 1 .. Len(Flowops)
  BY Types, TxnIs, Constants DEF TInv, Position
<1>2. \A j \in 1 .. MaxFlowop : c[j] = IF j >= at THEN None ELSE conn[j]
  BY <1>1 DEF Renewed, Conns
<1> HIDE DEF c
<1>3. CASE Keeps(Flowops) /\ Live(conn)
  <2>1. ASSUME NEW j \in DOMAIN Flowops, c[j] # None PROVE c[j] \in Linked' /\ heap'[c[j]].id = Flowops[j].id
    <3>1. c[j] = conn[j]
      BY <1>1, <1>2, <2>1
    <3>2. c[j] \in Linked /\ heap[c[j]].id = Flowops[j].id
      BY <1>3, <2>1, <3>1 DEF Live
    <3> QED BY <3>2 DEF Grows
  <2> QED BY <1>3, <2>1 DEF Passes, c
<1>4. CASE Begins(work.txns[txn])
  <2>1. Empty(c, at + 1)
    BY <1>1, <1>2 DEF Empty
  <2> QED BY <1>4, <2>1 DEF Passes, c
<1> QED BY <1>3, <1>4 DEF Kept

\* A flowop that may fail, or one that does not change what is kept.
LEMMA ConnPasses ==
  ASSUME TInv, Kept, phase = "run", txn <= Len(work.txns), Grows, Flowop.canfail \/ Flowop.type = "rw"
  PROVE Passes(conn)
<1>1. CASE Keeps(Flowops) /\ Live(conn)
  BY <1>1 DEF Passes, Live, Grows
<1>2. CASE Begins(work.txns[txn]) /\ (at > 1 \/ iteration = 1 => Empty(conn, at))
  <2>1. /\ at \in Nat /\ at >= 1 /\ at \in DOMAIN Flowops /\ Flowops = work.txns[txn].flowops
        /\ iteration \in Nat /\ iteration >= 1 /\ work.txns[txn].iter \in Nat /\ MaxFlowop \in Nat
    BY TxnIs, Constants DEF TInv, Position
  <2>2. ASSUME at = 1 PROVE iteration = 1
    <3>1. CASE work.txns[txn].iter = 1
      BY <2>1, <3>1 DEF Kept
    <3>2. CASE /\ work.txns[txn].flowops[1].type # "rw"
               /\ \A i \in DOMAIN work.txns[txn].flowops : work.txns[txn].flowops[i].canfail => work.txns[txn].flowops[i].type = "rw"
      BY <2>1, <2>2, <3>2 DEF Flowop
    <3> QED BY <1>2, <3>1, <3>2 DEF Begins
  <2>3. Empty(conn, at)
    BY <1>2, <2>1, <2>2
  <2>4. Empty(conn, at + 1)
    BY <2>1, <2>3 DEF Empty
  <2> QED BY <1>2, <2>4 DEF Passes
<1> QED BY <1>1, <1>2 DEF Kept

LEMMA FailedPasses ==
  ASSUME TInv, Kept, LooksAgain, phase = "run", txn <= Len(work.txns), Grows, work' = work, Failed(conn)
  PROVE ConnInv'
<1>1. Interrupted \/ phase' = "fini" \/ (Continue(conn) /\ Flowop.canfail)
  BY DEF Failed
<1>2. conn \in Conns
  BY Types DEF TInv
<1> QED BY <1>1, <1>2, ConnPasses, KeptAfter

LEMMA FlowopsKeep ==
  ASSUME LInv, ConnInv, Connect \/ ConnectFails \/ Accept \/ AcceptFails
  PROVE ConnInv'
<1>1. TInv /\ ListInv /\ phase = "run" /\ txn <= Len(work.txns) /\ work' = work
  BY DEF LInv, Connect, ConnectFails, Accept, AcceptFails, At
<1>2. SUFFICES ASSUME AcceptsOnce, LooksAgain PROVE ConnInv'
  BY <1>1 DEF ConnInv, AcceptsOnce, Datagram, Accepting, LooksAgain
<1>3. Kept
  BY <1>1, <1>2 DEF ConnInv
<1>4. Grows
  BY <1>1, <1>2, ConnectList, ConnectFailsList, AcceptList, AcceptFailsList
<1>5. CASE Connect \/ Accept
  <2>1. Interrupted \/ Continue(Renewed(at))
    BY <1>5 DEF Connect, Accept, Succeeded
  <2>2. Renewed(at) \in Conns
    BY <1>1, RenewedIs, Types DEF TInv
  <2> QED BY <1>1, <1>2, <1>3, <1>4, <2>1, <2>2, RenewedPasses, KeptAfter
<1>6. CASE ConnectFails \/ AcceptFails
  <2>1. Failed(conn)
    BY <1>6 DEF ConnectFails, AcceptFails
  <2> QED BY <1>1, <1>2, <1>3, <1>4, <2>1, FailedPasses
<1> QED BY <1>5, <1>6

\* What a search finds is in the list and has the id.
LEMMA FoundIsLive ==
  ASSUME LInv, AcceptsOnce, phase # "done", NEW id
  PROVE GetConnection(id) # None => GetConnection(id) \in Linked /\ heap[GetConnection(id)].id = id
<1>1. PICK n \in Nat : \E s \in [1 .. n -> Object] : HasList(n, s)
  BY DEF LInv, ListInv
<1>2. PICK s \in [1 .. n -> Object] : HasList(n, s)
  BY <1>1
<1>3. Linked = {s[i] : i \in 1 .. n}
  BY <1>2, LinkedIs DEF HasList
<1>4. ccache \in Seq(Object) /\ cpool \in Pointer /\ heap \in Heap
  BY Types DEF LInv, TInv
<1>5. Cached(id) = None \/ Cached(id) \in Linked
  <2>1. \A m \in 1 .. Len(ccache) : ccache[m] \in Linked
    BY <1>2, <1>3, <1>4 DEF HasList
  <2> QED BY <1>4, <2>1, CachedIs
<1>6. First(id) = None \/ First(id) \in Linked
  BY FirstIs DEF Linked
<1>7. GetConnection(id) = None \/ GetConnection(id) \in Linked
  BY <1>5, <1>6 DEF GetConnection
<1> QED BY <1>4, <1>7, SearchTypes

LEMMA ReadWriteKeeps ==
  ASSUME LInv, ConnInv, ReadWrite
  PROVE ConnInv'
<1> DEFINE o == GetConnection(Flowop.id)
           c == [conn EXCEPT ![at] = o]
<1>1. /\ TInv /\ ListInv /\ phase = "run" /\ txn <= Len(work.txns) /\ work' = work /\ heap' = heap
      /\ Flowop.type = "rw"
  BY DEF LInv, ReadWrite, At
<1>2. SUFFICES ASSUME AcceptsOnce, LooksAgain PROVE ConnInv'
  BY <1>1 DEF ConnInv, AcceptsOnce, Datagram, Accepting, LooksAgain
<1>3. Kept
  BY <1>1, <1>2 DEF ConnInv
<1>4. Grows
  BY <1>1, <1>2, ReadWriteList
<1>5. Passes(conn)
  BY <1>1, <1>3, <1>4, ConnPasses
<1>6. conn \in Conns /\ cpool \in Pointer /\ heap \in Heap /\ ccache \in Seq(Object)
  BY <1>1, Types DEF TInv
<1>7. CASE Failed(conn) \/ Succeeded(conn)
  BY <1>1, <1>2, <1>3, <1>5, <1>6, <1>7, KeptAfter DEF Failed, Succeeded
<1>8. CASE Failed(c) \/ Succeeded(c)
  <2>1. o \in Pointer
    BY <1>6, SearchTypes
  <2>2. o # None => o \in Linked /\ heap[o].id = Flowop.id
    BY <1>1, <1>2, FoundIsLive
  <2>3. at \in Nat /\ at \in 1 .. MaxFlowop /\ DOMAIN Flowops = 1 .. Len(Flowops) /\ Len(Flowops) \in 1 .. MaxFlowop
        /\ MaxFlowop \in Nat
    BY <1>1, TxnIs, Constants DEF TInv, Position
  <2> HIDE DEF o
  <2>4. c \in Conns /\ \A j \in 1 .. MaxFlowop : c[j] = IF j = at THEN o ELSE conn[j]
    BY <1>6, <2>1 DEF Conns
  <2> HIDE DEF c
  <2>5. Passes(c)
    <3>1. CASE Keeps(Flowops) /\ \A j \in DOMAIN Flowops : conn[j] # None => conn[j] \in Linked' /\ heap'[conn[j]].id = Flowops[j].id
      <4>1. ASSUME NEW j \in DOMAIN Flowops, c[j] # None PROVE c[j] \in Linked' /\ heap'[c[j]].id = Flowops[j].id
        <5>1. CASE j = at
          BY <1>1, <1>4, <2>2, <2>3, <2>4, <4>1, <5>1 DEF Grows, Flowop
        <5>2. CASE j # at
          <6>1. c[j] = conn[j]
            BY <2>3, <2>4, <5>2
          <6> QED BY <3>1, <4>1, <6>1
        <5> QED BY <5>1, <5>2
      <4> QED BY <3>1, <4>1 DEF Passes
    <3>2. CASE Begins(work.txns[txn]) /\ Empty(conn, at + 1)
      <4>1. Empty(c, at + 1)
        BY <2>3, <2>4, <3>2 DEF Empty
      <4> QED BY <3>2, <4>1 DEF Passes
    <3> QED BY <1>5, <3>1, <3>2 DEF Passes
  <2> QED BY <1>1, <1>2, <1>3, <1>8, <2>4, <2>5, KeptAfter DEF Failed, Succeeded
<1> QED BY <1>7, <1>8 DEF ReadWrite

LEMMA DisconnectKeeps ==
  ASSUME LInv, ConnInv, Disconnect
  PROVE ConnInv'
<1>1. /\ TInv /\ phase = "run" /\ txn <= Len(work.txns) /\ work' = work /\ Flowop.type = "disconnect"
      /\ Interrupted \/ (phase' = "delete" /\ UNCHANGED <<txn, iteration, at, conn>>)
  BY DEF LInv, Disconnect, At
<1>2. SUFFICES ASSUME AcceptsOnce, LooksAgain PROVE ConnInv'
  BY <1>1 DEF ConnInv, AcceptsOnce, Datagram, Accepting, LooksAgain
<1>3. Kept
  BY <1>1, <1>2 DEF ConnInv
<1>4. ~Keeps(Flowops)
  BY <1>1, TxnIs DEF TInv, Keeps, Flowop
<1>5. CASE Interrupted
  BY <1>1, <1>2, <1>5, KeptAnew DEF Interrupted
<1>6. CASE phase' = "delete" /\ UNCHANGED <<txn, iteration, at, conn>>
  <2>1. Begins(work.txns[txn]) /\ (at > 1 \/ iteration = 1 => Empty(conn, at)) /\ (iteration = 1 \/ iteration <= work.txns[txn].iter)
    BY <1>3, <1>4 DEF Kept
  <2>2. Flowops' = Flowops
    BY <1>1, <1>6 DEF Flowops
  <2>3. Kept'
    BY <1>1, <1>4, <1>6, <2>1, <2>2 DEF Kept, Begins, Empty, Keeps
  <2> QED BY <2>3 DEF ConnInv
<1> QED BY <1>1, <1>5, <1>6

LEMMA DeleteKeeps ==
  ASSUME LInv, ConnInv, Delete
  PROVE ConnInv'
<1>1. TInv /\ phase = "delete" /\ txn <= Len(work.txns) /\ work' = work /\ (Interrupted \/ Continue(Renewed(at)))
  BY DEF LInv, TInv, Places, Delete, Succeeded
<1>2. SUFFICES ASSUME AcceptsOnce, LooksAgain PROVE ConnInv'
  BY <1>1 DEF ConnInv, AcceptsOnce, Datagram, Accepting, LooksAgain
<1>3. Kept
  BY <1>1, <1>2 DEF ConnInv
<1>4. Begins(work.txns[txn])
  BY <1>1, <1>3 DEF Kept
<1>5. conn \in Conns /\ at \in Nat /\ MaxFlowop \in Nat
  BY <1>1, Types, Constants DEF TInv, Position
<1>6. Empty(Renewed(at), at + 1)
  BY <1>5 DEF Empty, Renewed, Conns
<1>7. Renewed(at) \in Conns
  BY <1>5, RenewedIs
<1> QED BY <1>1, <1>2, <1>3, <1>4, <1>6, <1>7, KeptAfter DEF Passes

LEMMA ListenKeeps ==
  ASSUME LInv, ConnInv, Listen
  PROVE ConnInv'
<1>1. /\ TInv /\ phase = "listen" /\ phase' = "run" /\ work' = work /\ UNCHANGED <<txn, iteration, at, conn>>
  BY DEF LInv, Listen
<1>2. SUFFICES ASSUME AcceptsOnce, LooksAgain, txn <= Len(work.txns) PROVE Kept'
  BY <1>1 DEF ConnInv, AcceptsOnce, Datagram, Accepting, LooksAgain
<1>3. Kept /\ Empty(conn, 1)
  BY <1>1, <1>2 DEF ConnInv, Kept
<1>4. /\ DOMAIN Flowops = 1 .. Len(Flowops) /\ Len(Flowops) \in 1 .. MaxFlowop /\ MaxFlowop \in Nat
      /\ at \in 1 .. MaxFlowop /\ Flowops' = Flowops
  BY <1>1, <1>2, TxnIs, Constants DEF TInv, Position, Flowops
<1>5. Live(conn)'
  BY <1>1, <1>3, <1>4 DEF Live, Empty
<1>6. Empty(conn, at)'
  BY <1>1, <1>3, <1>4 DEF Empty
<1> QED BY <1>1, <1>3, <1>4, <1>5, <1>6 DEF Kept, Keeps, Begins

LEMMA OthersKeep ==
  ASSUME LInv, ConnInv, OtherOpens \/ OtherCloses \/ UNCHANGED cVars
  PROVE ConnInv'
<1>1. TInv /\ ListInv /\ UNCHANGED <<work, txn, iteration, at, phase, conn, heap, cpool, ccache, listener>>
  BY DEF LInv, OtherOpens, OtherCloses, cVars, posVars, listVars
<1>2. SUFFICES ASSUME AcceptsOnce, LooksAgain, phase \in {"listen", "run", "delete"}, txn <= Len(work.txns) PROVE Kept'
  BY <1>1 DEF ConnInv, AcceptsOnce, Datagram, Accepting, LooksAgain
<1>3. Kept
  BY <1>2 DEF ConnInv
<1>4. Grows
  BY <1>1, <1>2, OthersList
<1>5. Flowops' = Flowops
  BY <1>1 DEF Flowops
<1>6. Live(conn) => Live(conn)'
  BY <1>1, <1>4, <1>5 DEF Live, Grows
<1> QED BY <1>1, <1>3, <1>5, <1>6 DEF Kept, Keeps, Begins, Empty

LEMMA InitKeeps == Init => ConnInv
<1> SUFFICES ASSUME Init, LooksAgain, txn <= Len(work.txns) PROVE Kept
  BY DEF ConnInv
<1>1. TInv /\ txn = 1 /\ iteration = 1 /\ at = 1 /\ phase \in {"listen", "run"} /\ \A j \in 1 .. MaxFlowop : conn[j] = None
  BY InitTypes DEF Init
<1>2. txn \in DOMAIN work.txns /\ Flowops = work.txns[txn].flowops /\ DOMAIN Flowops = 1 .. Len(Flowops)
      /\ Len(Flowops) \in 1 .. MaxFlowop /\ MaxFlowop \in Nat
  BY <1>1, TxnIs, Constants DEF TInv
<1>3. Live(conn) /\ Empty(conn, 1)
  BY <1>1, <1>2 DEF Live, Empty
<1>4. Keeps(Flowops) \/ Begins(work.txns[txn])
  BY <1>2 DEF LooksAgain
<1> QED BY <1>1, <1>3, <1>4 DEF Kept

LEMMA NextKeeps ==
  ASSUME LInv, ConnInv, [Next]_cVars
  PROVE ConnInv'
<1>1. CASE ListenFails \/ ConnectExits \/ Fini
  BY <1>1 DEF ConnInv, ListenFails, ConnectExits, Fini
<1>2. CASE Terminated
  BY <1>2, OthersKeep DEF Terminated
<1> QED
  BY <1>1, <1>2, FlowopsKeep, ReadWriteKeeps, DisconnectKeeps, DeleteKeeps, ListenKeeps, OthersKeep DEF Next

\* What is kept is live when it is used.
LEMMA KeptIsLive ==
  ASSUME LInv, ConnInv, AcceptsOnce, LooksAgain
  PROVE UsesLiveConnection
<1>1. SUFFICES ASSUME At("rw"), conn[at] # None PROVE conn[at] \in Linked /\ heap[conn[at]].id = Flowop.id
  BY DEF UsesLiveConnection
<1>2. phase = "run" /\ txn <= Len(work.txns) /\ Flowop.type = "rw"
  BY <1>1 DEF At
<1>3. Kept
  BY <1>2 DEF ConnInv
<1>4. /\ at \in Nat /\ at >= 1 /\ at \in 1 .. MaxFlowop /\ at \in DOMAIN Flowops /\ Flowops = work.txns[txn].flowops
      /\ iteration \in Nat /\ iteration >= 1 /\ MaxFlowop \in Nat
  BY <1>2, TxnIs, Constants DEF LInv, TInv, Position
<1>5. CASE Keeps(Flowops) /\ Live(conn)
  BY <1>1, <1>4, <1>5 DEF Live, Flowop
<1>6. CASE Begins(work.txns[txn]) /\ (at > 1 \/ iteration = 1 => Empty(conn, at))
  <2>1. ~Empty(conn, at)
    BY <1>1, <1>4 DEF Empty
  <2>2. at = 1 /\ iteration # 1
    BY <1>4, <1>6, <2>1
  <2>3. Flowop.type # "rw"
    BY <1>3, <1>4, <1>6, <2>2 DEF Begins, Flowop, Kept
  <2> QED BY <1>2, <2>3
<1> QED BY <1>3, <1>5, <1>6 DEF Kept

\* A read or write works on a connection of the list that has its id, never on one that was
\* destroyed since the flowop looked (flowop_rw keeps f->connection), if the profile has the
\* flowops look again before they start over: what its connects, accepts and disconnects
\* reset is what follows them only.
THEOREM FlowopsUseLiveConnections == Spec => [](AcceptsOnce /\ LooksAgain => UsesLiveConnection)
<1>1. Init => LInv /\ ConnInv
  BY InitTypes, InitList, InitKeeps DEF LInv
<1>2. LInv /\ ConnInv /\ [Next]_cVars => (LInv /\ ConnInv)'
  BY NextList, NextKeeps
<1>3. LInv /\ ConnInv => (AcceptsOnce /\ LooksAgain => UsesLiveConnection)
  BY KeptIsLive
<1> QED BY <1>1, <1>2, <1>3, PTL DEF Spec
=============================================================================
