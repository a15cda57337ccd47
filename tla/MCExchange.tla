----------------------------- MODULE MCExchange -----------------------------
(***************************************************************************)
(* Profiles for Exchange.                                                   *)
(***************************************************************************)
EXTENDS Exchange

Do(type, size) ==
  [type |-> type, size |-> size, rsize |-> 0, random |-> FALSE, min |-> 0, max |-> 0, count |-> 1,
   repeat |-> 1, batch |-> 1, nonblocking |-> FALSE, timeout |-> FALSE, canfail |-> FALSE]
Run(proto, iter, fl) == [proto |-> proto, iter |-> iter, flowops |-> fl]

\* Lists of one or two of the flowops in set F.
Lists(F) == {<<f>> : f \in F} \cup {<<f, g>> : f \in F, g \in F}

Times(f, n) == [f EXCEPT !.count = n]

\* Streams: sizes of one to three, counts, larger reads of the slave, files, and the end of the
\* connection while the peer still reads or writes.
Plain == {Do("read", 2), Do("write", 3), Times(Do("write", 1), 2)}
Larger == [Times(Do("write", 1), 4) EXCEPT !.rsize = 2]
Patient(f) == [f EXCEPT !.timeout = TRUE, !.canfail = TRUE]
File(n) == Do("sendfile", n)
Streams ==
  {Run(p, i, fl) : p \in {"tcp", "ssl"}, i \in {1, 2}, fl \in Lists(Plain \cup {Larger})}
  \cup {Run(p, 1, <<f, Do("disconnect", 0)>>) :
          p \in {"tcp", "ssl"},
          f \in {Patient(Do("read", 2)), Patient(File(2)), File(0), [Do("write", 1) EXCEPT !.rsize = 3]}}
  \cup {Run("tcp", 2, <<Do("read", 1), Do("disconnect", 0), Do("nop", 0)>>)}
  \cup {Run("tcp", 2, fl) : fl \in Lists({Do("send", 2), Do("recv", 1)})}
  \cup {Run("tcp", i, <<File(3)>>) : i \in {1, 2}}

\* Messages: repetitions, batches, sizes drawn at random, time limits.
Drawn(type) == [Do(type, 0) EXCEPT !.random = TRUE, !.min = 1, !.max = 2]
Message(type, r, b, nb, to, cf) ==
  [Do(type, 2) EXCEPT !.repeat = r, !.batch = b, !.nonblocking = nb, !.timeout = to, !.canfail = cf]
Datagrams ==
  {Run("udp", 1, <<Message(t, r, 1, nb, to, cf), Message(u, 1, 1, nb, to, cf)>>) :
     t \in {"read", "write"}, u \in {"read", "write"}, r \in {1, 2}, nb \in BOOLEAN, to \in BOOLEAN,
     cf \in BOOLEAN}
  \cup {Run("udp", 1, fl) : fl \in Lists({Drawn("write"), Do("read", 2)})}
Associations ==
  {Run("sctp", 1, <<Message(t, r, b, FALSE, to, FALSE), Message(u, 1, 1, FALSE, to, FALSE)>>) :
     t \in {"read", "write"}, u \in {"read", "write"}, r \in {1, 2}, b \in {1, 2}, to \in BOOLEAN}
  \cup {Run("sctp", i, <<Larger>>) : i \in {1, 2}}
  \cup {Run("sctp", 1, <<Do("send", 2)>>)}

AllProfiles == Streams \cup Datagrams \cup Associations
=============================================================================
