--------------------------- MODULE ExchangeProofs ---------------------------
(***************************************************************************)
(* Theorems about Exchange: the types of its variables, that no call leaves *)
(* the strand's buffer, that what is counted was moved, and that nothing is *)
(* left between two sides that both come to the end.                        *)
(*                                                                         *)
(* Each has hypotheses about the profiles, named here.                      *)
(***************************************************************************)
EXTENDS Exchange, Extrema

\* What moves data is given a size (options of a flowop, size=0 is an error; the default of 0 bytes
\* is left out).
SizesAreGiven ==
  \A p \in Profiles : \A i \in DOMAIN p.flowops :
    LET f == p.flowops[i]
    IN f.type \in Transmits \cup {"read", "recv"} =>
         IF f.random THEN f.min > 0 /\ f.max > 0 ELSE f.type = "sendfile" \/ f.size > 0

\* A size that is drawn is not larger than the default buffer, since group_max_dto_size looks at the
\* fixed sizes only; and a socket that does not block has a byte to spare in it, since a read that
\* would have blocked asks for one byte more.
BufferIsEnough ==
  \A p \in Profiles : \A i \in DOMAIN p.flowops :
    LET f == p.flowops[i]
    IN /\ f.random => f.max <= DefaultSize
       /\ p.proto = "udp" /\ f.nonblocking =>
            f.type # "sendfile" /\ \A n \in {f.size, f.rsize, f.max} : n < DefaultSize

-----------------------------------------------------------------------------
(* Maxima and minima                                                        *)

\* The larger of two numbers.
LEMMA MaxOfTwo ==
  ASSUME NEW a \in Nat, NEW b \in Nat
  PROVE  Max({a, b}) \in {a, b} /\ Max({a, b}) >= a /\ Max({a, b}) >= b
<1>1. \E m \in {a, b} : \A y \in {a, b} : m >= y
  <2>1. CASE a >= b
    BY <2>1
  <2>2. CASE ~(a >= b)
    BY <2>2
  <2> QED BY <2>1, <2>2
<1> QED BY <1>1 DEF Max

\* The smaller of two numbers.
LEMMA MinOfTwo ==
  ASSUME NEW a \in Nat, NEW b \in Nat
  PROVE  Min({a, b}) \in {a, b} /\ Min({a, b}) <= a /\ Min({a, b}) <= b
<1>1. \E m \in {a, b} : \A y \in {a, b} : m <= y
  <2>1. CASE a <= b
    BY <2>1
  <2>2. CASE ~(a <= b)
    BY <2>2
  <2> QED BY <2>1, <2>2
<1> QED BY <1>1 DEF Min

\* The smallest of three.
LEMMA MinOfThree ==
  ASSUME NEW a \in Nat, NEW b \in Nat, NEW c \in Nat
  PROVE  Min({a, b, c}) \in {a, b, c} /\ Min({a, b, c}) <= a /\ Min({a, b, c}) <= b /\ Min({a, b, c}) <= c
<1>1. \E m \in {a, b, c} : \A y \in {a, b, c} : m <= y
  <2>1. CASE a <= b /\ a <= c
    BY <2>1
  <2>2. CASE b <= a /\ b <= c
    BY <2>2
  <2>3. CASE c <= a /\ c <= b
    BY <2>3
  <2> QED BY <2>1, <2>2, <2>3
<1> QED BY <1>1 DEF Min

\* The largest index of a set of some of a sequence.
LEMMA MaxOfIndices ==
  ASSUME NEW n \in Nat, NEW S, S \subseteq 1 .. n, S # {}
  PROVE  Max(S) \in S
<1>1. S \subseteq Nat /\ \A m \in S : m <= n
  OBVIOUS
<1>2. \E x \in S : \A y \in S : y <= x
  BY <1>1, Largest
<1>3. \E x \in S : \A y \in S : x >= y
  <2>1. PICK x \in S : \A y \in S : y <= x
    BY <1>2
  <2>2. \A y \in S : x >= y
    BY <2>1, <1>1
  <2> QED BY <2>2
<1> QED BY <1>3 DEF Max

-----------------------------------------------------------------------------
(* The two transactions                                                     *)

\* What a flowop may be.
LEMMA FlowopFields ==
  ASSUME NEW f \in Flowop
  PROVE  /\ f.type \in FlowopType /\ f.size \in Nat /\ f.rsize \in Nat /\ f.random \in BOOLEAN
         /\ f.min \in Nat /\ f.max \in Nat /\ f.count \in Nat /\ f.repeat \in Nat \ {0}
         /\ f.batch \in Nat \ {0} /\ f.nonblocking \in BOOLEAN /\ f.timeout \in BOOLEAN
         /\ f.canfail \in BOOLEAN
BY DEF Flowop

\* What the flowops of the slave are.
LEMMA MirroredFields ==
  ASSUME NEW f \in Flowop
  PROVE  /\ Mirrored(f) \in Flowop
         /\ Mirrored(f).type = Opposite(f.type)
         /\ Mirrored(f).size = IF f.type = "sendfile" THEN SlaveRead ELSE f.size
         /\ Mirrored(f).rsize = f.rsize /\ Mirrored(f).random = f.random /\ Mirrored(f).min = f.min
         /\ Mirrored(f).max = f.max /\ Mirrored(f).count = f.count /\ Mirrored(f).repeat = f.repeat
         /\ Mirrored(f).batch = f.batch /\ Mirrored(f).nonblocking = f.nonblocking
         /\ Mirrored(f).timeout = f.timeout /\ Mirrored(f).canfail = f.canfail
<1>1. SlaveRead \in Nat
  BY ExchangeAssumption
<1>2. Opposite(f.type) \in FlowopType
  BY FlowopFields DEF Opposite, FlowopType, Transmits
<1> QED BY <1>1, <1>2, FlowopFields DEF Mirrored, Flowop

\* The flowops of the slave with larger reads.
LEMMA OptimizedFields ==
  ASSUME NEW f \in Flowop
  PROVE  /\ Optimized(f) \in Flowop
         /\ Optimized(f).type = f.type
         /\ Optimized(f).size = IF f.rsize > f.size THEN f.rsize ELSE f.size
         /\ Optimized(f).rsize = f.rsize /\ Optimized(f).random = f.random /\ Optimized(f).min = f.min
         /\ Optimized(f).max = f.max /\ Optimized(f).repeat = f.repeat
         /\ Optimized(f).batch = f.batch /\ Optimized(f).nonblocking = f.nonblocking
         /\ Optimized(f).timeout = f.timeout /\ Optimized(f).canfail = f.canfail
         /\ Optimized(f).count > 1 => f.count > 1
<1>1. CASE ~Enlarged(f)
  BY <1>1, FlowopFields DEF Optimized, Enlarged
<1>2. CASE Enlarged(f)
  <2> DEFINE c == IF f.count > 1 THEN (f.size * f.count) \div f.rsize ELSE f.count
  <2>1. /\ f.size \in Nat /\ f.count \in Nat /\ f.rsize \in Nat
        /\ f.rsize > f.size
    BY <1>2, FlowopFields DEF Enlarged
  <2>2. f.size * f.count \in Nat
    BY <2>1
  <2>3. (f.size * f.count) \div f.rsize \in Nat
    BY <2>1, <2>2
  <2>4. c \in Nat /\ (c > 1 => f.count > 1)
    BY <2>1, <2>3
  <2>5. Optimized(f) = [f EXCEPT !.count = c, !.size = f.rsize]
    BY <1>2 DEF Optimized, Flowop
  <2> HIDE DEF c
  <2> QED BY <2>1, <2>4, <2>5 DEF Flowop
<1> QED BY <1>1, <1>2

\* What may be run.
LEMMA ProfileFields ==
  ASSUME NEW p \in Profiles
  PROVE  /\ p \in [proto : {"tcp", "ssl", "sctp", "udp"}, iter : Nat \ {0}, flowops : Seq(Flowop) \ {<<>>}]
         /\ p.proto \in {"tcp", "ssl", "sctp", "udp"} /\ p.iter \in Nat \ {0}
         /\ p.flowops \in Seq(Flowop) /\ Len(p.flowops) \in Nat \ {0}
         /\ DOMAIN p.flowops = 1 .. Len(p.flowops)
         /\ \A i \in 1 .. Len(p.flowops) : p.flowops[i] \in Flowop
<1>1. p \in [proto : {"tcp", "ssl", "sctp", "udp"}, iter : Nat \ {0}, flowops : Seq(Flowop) \ {<<>>}]
  BY ExchangeAssumption
<1>2. p.flowops \in Seq(Flowop) /\ p.flowops # <<>>
  BY <1>1
<1>3. Len(p.flowops) \in Nat \ {0}
  BY <1>2
<1> QED BY <1>1, <1>2, <1>3

\* The number of iterations that optimize_txn_for_slave divides by is always 0: a size divided by
\* a larger one.
LEMMA NothingIsDivided ==
  ASSUME NEW fl, NEW n \in Nat, DOMAIN fl = 1 .. n, \A i \in 1 .. n : fl[i] \in Flowop
  PROVE  Divisor(fl) = 0
<1> DEFINE once == {i \in DOMAIN fl : Enlarged(fl[i]) /\ fl[i].count <= 1}
<1>1. CASE once = {}
  BY <1>1 DEF Divisor
<1>2. CASE once # {}
  <2>1. Max(once) \in once
    <3>1. once \subseteq 1 .. n
      OBVIOUS
    <3> HIDE DEF once
    <3> QED BY <1>2, <3>1, MaxOfIndices
  <2>2. PICK m : m = Max(once)
    OBVIOUS
  <2>3. m \in 1 .. n /\ Enlarged(fl[m])
    BY <2>1, <2>2
  <2>4. fl[m].size \in Nat /\ fl[m].rsize \in Nat /\ fl[m].rsize > fl[m].size
    BY <2>3, FlowopFields DEF Enlarged
  <2>5. fl[m].size \div fl[m].rsize = 0
    BY <2>4
  <2>6. Divisor(fl) = fl[m].size \div fl[m].rsize
    BY <1>2, <2>2 DEF Divisor
  <2> QED BY <2>5, <2>6
<1> QED BY <1>1, <1>2

\* The transaction of each side: the slave's is as long as the master's, with as many iterations.
LEMMA TxnFacts ==
  ASSUME profile \in Profiles, NEW x \in Side
  PROVE  /\ Txn(x).iter = profile.iter
         /\ Len(Txn(x).flowops) = Len(profile.flowops)
         /\ DOMAIN Txn(x).flowops = 1 .. Len(profile.flowops)
         /\ \A i \in 1 .. Len(profile.flowops) :
              /\ Txn(x).flowops[i] = IF x = "master" THEN profile.flowops[i]
                                     ELSE Optimized(Mirrored(profile.flowops[i]))
              /\ Txn(x).flowops[i] \in Flowop
<1> DEFINE n == Len(profile.flowops)
           fl == [i \in DOMAIN profile.flowops |-> Mirrored(profile.flowops[i])]
           ol == [i \in DOMAIN fl |-> Optimized(fl[i])]
<1>1. /\ profile \in [proto : {"tcp", "ssl", "sctp", "udp"}, iter : Nat \ {0}, flowops : Seq(Flowop) \ {<<>>}]
      /\ n \in Nat /\ DOMAIN profile.flowops = 1 .. n
      /\ \A i \in 1 .. n : profile.flowops[i] \in Flowop
  BY ProfileFields
<1>2. CASE x = "master"
  BY <1>1, <1>2 DEF Txn
<1>3. CASE x # "master"
  <2>1. DOMAIN fl = 1 .. n /\ \A i \in 1 .. n : fl[i] = Mirrored(profile.flowops[i]) /\ fl[i] \in Flowop
    BY <1>1, MirroredFields
  <2>2. Divisor(fl) = 0
    <3> HIDE DEF fl
    <3> QED BY <1>1, <2>1, NothingIsDivided
  <2>3. DOMAIN ol = 1 .. n /\ \A i \in 1 .. n : ol[i] = Optimized(fl[i])
    <3> HIDE DEF fl
    <3> QED BY <2>1
  <2>4. Txn(x) = [profile EXCEPT !.flowops = ol, !.iter = IF Divisor(fl) = 0 THEN @ ELSE @ \div Divisor(fl)]
    BY <1>3 DEF Txn, GroupOpposite
  <2>5. Txn(x) = [profile EXCEPT !.flowops = ol, !.iter = profile.iter]
    <3> HIDE DEF fl, ol
    <3> QED BY <2>2, <2>4
  <2>6. Txn(x).iter = profile.iter /\ Txn(x).flowops = ol
    <3> HIDE DEF fl, ol, n
    <3> QED BY <1>1, <2>5
  <2>7. Len(ol) = n
    <3> HIDE DEF fl
    <3>1. ol = [i \in 1 .. n |-> Optimized(fl[i])]
      BY <2>1
    <3> QED BY <3>1, <1>1
  <2>8. \A i \in 1 .. n : ol[i] \in Flowop /\ ol[i] = Optimized(Mirrored(profile.flowops[i]))
    <3> HIDE DEF fl, ol
    <3> QED BY <2>1, <2>3, OptimizedFields
  <2> HIDE DEF fl, ol
  <2> QED BY <1>3, <2>3, <2>6, <2>7, <2>8
<1> QED BY <1>2, <1>3

\* The buffer of a strand holds the default size and each fixed size of its flowops.
LEMMA BufferSize ==
  ASSUME profile \in Profiles, NEW x \in Side
  PROVE  /\ GroupMaxDtoSize(x) \in Nat /\ GroupMaxDtoSize(x) >= DefaultSize
         /\ \A i \in 1 .. Len(profile.flowops) : GroupMaxDtoSize(x) >= Txn(x).flowops[i].size
<1> DEFINE n == Len(profile.flowops)
           f == [i \in 1 .. n + 1 |-> IF i = n + 1 THEN DefaultSize ELSE Txn(x).flowops[i].size]
           S == {DefaultSize} \cup {Txn(x).flowops[i].size : i \in DOMAIN Txn(x).flowops}
<1>1. /\ n \in Nat /\ DefaultSize \in Nat
      /\ DOMAIN Txn(x).flowops = 1 .. n
      /\ \A i \in 1 .. n : Txn(x).flowops[i].size \in Nat
  BY ExchangeAssumption, ProfileFields, TxnFacts, FlowopFields
<1>2. n + 1 \in Nat \ {0} /\ \A i \in 1 .. n + 1 : f[i] \in Nat
  BY <1>1
<1>3. PICK i \in 1 .. n + 1 : \A j \in 1 .. n + 1 : f[j] <= f[i]
  <2> HIDE DEF f, n
  <2> QED BY <1>2, LargestOfFinitelyMany
<1>4. \A y \in S : \E j \in 1 .. n + 1 : y = f[j]
  <2> TAKE y \in S
  <2>1. CASE y = DefaultSize
    <3>1. n + 1 \in 1 .. n + 1 /\ f[n + 1] = DefaultSize
      BY <1>1
    <3> HIDE DEF f, n
    <3> QED BY <2>1, <3>1
  <2>2. CASE y # DefaultSize
    <3>1. PICK j \in 1 .. n : y = Txn(x).flowops[j].size
      BY <2>2, <1>1
    <3>2. j \in 1 .. n + 1 /\ f[j] = y
      BY <3>1, <1>1
    <3> HIDE DEF f, n
    <3> QED BY <3>2
  <2> QED BY <2>1, <2>2
<1>5. f[i] \in S /\ \A y \in S : f[i] >= y
  <2>1. f[i] \in S
    <3>1. CASE i = n + 1
      BY <3>1
    <3>2. CASE i # n + 1
      <4>1. i \in 1 .. n /\ f[i] = Txn(x).flowops[i].size
        BY <1>1, <3>2
      <4> HIDE DEF f, n
      <4> QED BY <1>1, <4>1
    <3> QED BY <3>1, <3>2
  <2>2. \A y \in S : f[i] >= y
    <3> SUFFICES ASSUME NEW y \in S PROVE f[i] >= y
      OBVIOUS
    <3>1. PICK j \in 1 .. n + 1 : y = f[j]
      BY <1>4
    <3>2. f[j] \in Nat /\ f[i] \in Nat /\ f[j] <= f[i]
      BY <1>2, <1>3
    <3> QED BY <3>1, <3>2
  <2> QED BY <2>1, <2>2
<1>6. Max(S) \in S /\ \A y \in S : Max(S) >= y
  <2>1. \E m \in S : \A y \in S : m >= y
    BY <1>5
  <2> HIDE DEF S
  <2> QED BY ONLY <2>1 DEF Max
<1>7. GroupMaxDtoSize(x) = Max(S)
  BY DEF GroupMaxDtoSize
<1>8. S \subseteq Nat
  BY <1>1
<1>9. DefaultSize \in S /\ \A j \in 1 .. n : Txn(x).flowops[j].size \in S
  BY <1>1
<1> HIDE DEF S, n, f
<1> QED BY <1>6, <1>7, <1>8, <1>9 DEF n

-----------------------------------------------------------------------------
(* Types                                                                    *)

Moving == {"write", "send", "read", "recv"}

FlowopAt(x, s) == Txn(x).flowops[s.at]

\* A strand at a flowop of its transaction.
Placed(x, s) == s \in Strand /\ s.at \in 1 .. Len(profile.flowops)

InCall(s) == s.result = "running" /\ s.stage # "begin"

\* In a call there is something left to be moved.
Called(x, s) ==
  /\ FlowopAt(x, s).type \in Moving \cup {"sendfile"}
  /\ FlowopAt(x, s).type \in Moving => s.sz < s.size /\ s.left > 0
  /\ FlowopAt(x, s).type = "sendfile" => s.stage = "rest" /\ s.sz < FileSize
  /\ s.stage = "first" => profile.proto = "udp"

StrandOK(x, s) == Placed(x, s) /\ (InCall(s) => Called(x, s))

\* The end of a flowop keeps the types, and leaves the call.
LEMMA FlowopEndsOK ==
  ASSUME profile \in Profiles, NEW x \in Side, NEW s, Placed(x, s), s.result = "running",
         NEW ret \in Int, NEW n \in Nat
  PROVE  /\ StrandOK(x, FlowopEnds(x, s, ret, n))
         /\ FlowopEnds(x, s, ret, n).stage = "begin"
<1> DEFINE c == [Count(s, ret, n) EXCEPT !.n = 0, !.stage = "begin"]
<1>1. c \in Strand /\ c.at = s.at /\ c.stage = "begin" /\ c.result = "running" /\ c.iter \in Nat \ {0}
  <2>1. s \in Strand
    BY DEF Placed
  <2>2. s.counted + ret * n \in Int
    <3>1. s.counted \in Int
      BY <2>1 DEF Strand
    <3> QED BY <3>1
  <2>3. Count(s, ret, n) \in Strand /\ Count(s, ret, n).at = s.at /\ Count(s, ret, n).result = "running"
    BY <2>1, <2>2 DEF Count, Strand
  <2> QED BY <2>3 DEF Strand
<1>2. Len(Txn(x).flowops) = Len(profile.flowops) /\ Len(profile.flowops) \in Nat \ {0}
  BY TxnFacts, ProfileFields
<1>3. s.at \in 1 .. Len(profile.flowops)
  BY DEF Placed
<1> HIDE DEF c
<1>4. NextFlowop(x, c) \in Strand /\ NextFlowop(x, c).stage = "begin"
      /\ NextFlowop(x, c).at \in 1 .. Len(profile.flowops)
  <2>1. CASE c.at < Len(Txn(x).flowops)
    <3>1. NextFlowop(x, c) = [c EXCEPT !.at = @ + 1]
      BY <2>1 DEF NextFlowop
    <3>2. c.at + 1 \in 1 .. Len(profile.flowops)
      BY <1>1, <1>2, <1>3, <2>1
    <3> DEFINE v == c.at + 1
    <3>3. v \in Nat \ {0}
      BY <3>2
    <3> HIDE DEF v
    <3>4. [c EXCEPT !.at = v] \in Strand
      BY <1>1, <3>3 DEF Strand
    <3>5. [c EXCEPT !.at = v].at = v /\ [c EXCEPT !.at = v].stage = "begin"
      BY <1>1 DEF Strand
    <3> QED BY <3>1, <3>2, <3>4, <3>5 DEF v
  <2>2. CASE ~(c.at < Len(Txn(x).flowops)) /\ c.at = Len(Txn(x).flowops) /\ c.iter < Txn(x).iter
    <3>1. NextFlowop(x, c) = [c EXCEPT !.at = 1, !.iter = @ + 1]
      BY <2>2 DEF NextFlowop
    <3>2. 1 \in 1 .. Len(profile.flowops) /\ c.iter + 1 \in Nat \ {0}
      BY <1>1, <1>2
    <3> DEFINE u == 1
               v == c.iter + 1
    <3>3. u \in Nat \ {0} /\ v \in Nat \ {0}
      BY <3>2
    <3> HIDE DEF u, v
    <3>4. [c EXCEPT !.at = u, !.iter = v] \in Strand
      BY <1>1, <3>3 DEF Strand
    <3>5. [c EXCEPT !.at = u, !.iter = v].at = u /\ [c EXCEPT !.at = u, !.iter = v].stage = "begin"
      BY <1>1 DEF Strand
    <3> QED BY <3>1, <3>2, <3>4, <3>5 DEF u, v
  <2>3. CASE ~(c.at < Len(Txn(x).flowops)) /\ ~(c.at = Len(Txn(x).flowops) /\ c.iter < Txn(x).iter)
    <3>1. NextFlowop(x, c) = [c EXCEPT !.result = "success"]
      BY <2>3 DEF NextFlowop
    <3> QED BY <1>1, <1>2, <1>3, <3>1 DEF Strand
  <2> QED BY <2>1, <2>2, <2>3
<1>5. FlowopEnds(x, s, ret, n) \in {[c EXCEPT !.result = "expired"], [c EXCEPT !.result = "failure"], NextFlowop(x, c)}
  BY DEF FlowopEnds, c
<1>6. \A r \in {"expired", "failure"} :
        [c EXCEPT !.result = r] \in Strand /\ [c EXCEPT !.result = r].stage = "begin"
        /\ [c EXCEPT !.result = r].at = s.at
  BY <1>1 DEF Strand
<1> QED BY <1>3, <1>4, <1>5, <1>6 DEF StrandOK, Placed, InCall

\* So does the end of one execution.
LEMMA ExecutedOK ==
  ASSUME profile \in Profiles, NEW x \in Side, NEW s, Placed(x, s), s.result = "running", NEW r \in Int
  PROVE  /\ StrandOK(x, Executed(x, s, r))
         /\ Executed(x, s, r).stage = "begin"
<1> DEFINE ret == IF CurrentFlowop(x).canfail /\ r < 0 THEN 0 ELSE r
<1>1. s \in Strand /\ s.n \in Nat
  BY DEF Placed, Strand
<1>2. ret \in Int /\ s.n + 1 \in Nat
  BY <1>1
<1>3. [s EXCEPT !.n = @ + 1, !.stage = "begin"] \in Strand
      /\ [s EXCEPT !.n = @ + 1, !.stage = "begin"].stage = "begin"
      /\ [s EXCEPT !.n = @ + 1, !.stage = "begin"].at = s.at
  <2>1. \A v \in Nat : LET d == [s EXCEPT !.n = v, !.stage = "begin"]
          IN d \in Strand /\ d.stage = "begin" /\ d.at = s.at
    BY <1>1 DEF Strand
  <2> QED BY <1>2, <2>1
<1>4. Executed(x, s, r) \in {FlowopEnds(x, s, ret, s.n), FlowopEnds(x, s, ret, s.n + 1),
                             [s EXCEPT !.n = @ + 1, !.stage = "begin"]}
  BY <1>2 DEF Executed
<1> HIDE DEF ret
<1>5. StrandOK(x, FlowopEnds(x, s, ret, s.n)) /\ FlowopEnds(x, s, ret, s.n).stage = "begin"
  BY <1>1, <1>2, FlowopEndsOK
<1>6. StrandOK(x, FlowopEnds(x, s, ret, s.n + 1)) /\ FlowopEnds(x, s, ret, s.n + 1).stage = "begin"
  BY <1>1, <1>2, FlowopEndsOK
<1>7. StrandOK(x, [s EXCEPT !.n = @ + 1, !.stage = "begin"])
  BY <1>3 DEF StrandOK, Placed, InCall
<1> QED BY <1>3, <1>4, <1>5, <1>6, <1>7

\* A call begins with something to be moved.
LEMMA CallOK ==
  ASSUME profile \in Profiles, NEW x \in Side, NEW s, Placed(x, s), s.result = "running", s.sz < s.size,
         FlowopAt(x, s).type \in Moving
  PROVE  LET c == Call(s, FlowopAt(x, s))
         IN /\ StrandOK(x, c) /\ c.result = "running" /\ c.stage = FirstStage(FlowopAt(x, s))
            /\ c.at = s.at /\ c.size = s.size /\ c.sz = s.sz /\ c.left = s.size - s.sz
            /\ c.total = 0 /\ c.rep = 0 /\ c.iter = s.iter
            /\ c.n = s.n /\ c.moved = s.moved /\ c.counted = s.counted /\ c.high = s.high /\ c.errno = s.errno
<1> DEFINE zero == 0
           rest == s.size - s.sz
           stage == FirstStage(FlowopAt(x, s))
           c == [s EXCEPT !.rep = zero, !.total = zero, !.left = rest, !.stage = stage]
<1>1. s \in Strand /\ s.size \in Nat /\ s.sz \in Nat /\ s.at \in 1 .. Len(profile.flowops)
  BY DEF Placed, Strand
<1>2. zero \in Nat /\ rest \in Nat /\ rest > 0
  BY <1>1
<1>3. stage \in {"first", "rest"} /\ (stage = "first" => profile.proto = "udp")
  BY DEF FirstStage
<1>4. Call(s, FlowopAt(x, s)) = c
  BY DEF Call
<1>5. zero = 0 /\ rest = s.size - s.sz
  OBVIOUS
<1>6. c \in Strand
  <2> HIDE DEF zero, rest, stage
  <2> QED BY <1>1, <1>2, <1>3 DEF Strand
<1>7. /\ c.rep = zero /\ c.total = zero /\ c.left = rest /\ c.stage = stage /\ c.at = s.at /\ c.size = s.size
      /\ c.sz = s.sz /\ c.result = s.result /\ c.n = s.n /\ c.moved = s.moved /\ c.counted = s.counted
      /\ c.high = s.high /\ c.errno = s.errno /\ c.iter = s.iter
  <2> HIDE DEF zero, rest, stage
  <2> QED BY <1>1 DEF Strand
<1>8. stage = FirstStage(FlowopAt(x, s)) /\ FlowopAt(x, c) = FlowopAt(x, s)
  BY <1>7 DEF FlowopAt
<1> HIDE DEF c, zero, rest, stage
<1>9. Called(x, c)
  BY <1>2, <1>3, <1>7, <1>8 DEF Called, Moving
<1>10. StrandOK(x, c)
  BY <1>1, <1>6, <1>7, <1>9 DEF StrandOK, Placed
<1> QED BY <1>4, <1>5, <1>7, <1>8, <1>10

\* What flowop_rw makes of a result.
LEMMA ReturnedOK ==
  ASSUME profile \in Profiles, NEW x \in Side, NEW s, Placed(x, s), s.result = "running", s.sz < s.size,
         CurrentFlowop(x) = FlowopAt(x, s), FlowopAt(x, s).type \in Moving, NEW n \in Int
  PROVE  StrandOK(x, Returned(x, s, n))
<1>1. s \in Strand /\ s.sz \in Nat /\ s.size \in Nat /\ s.at \in 1 .. Len(profile.flowops)
  BY DEF Placed, Strand
<1>2. CASE n = 0
  <2> DEFINE u == [s EXCEPT !.errno = "EINTR"]
  <2>1. u \in Strand /\ u.at = s.at /\ u.result = "running"
    BY <1>1 DEF Strand
  <2>2. Returned(x, s, n) = Executed(x, u, -1)
    BY <1>2 DEF Returned
  <2> HIDE DEF u
  <2>3. Placed(x, u) /\ -1 \in Int
    BY <1>1, <2>1 DEF Placed
  <2> QED BY <2>1, <2>2, <2>3, ExecutedOK
<1>3. CASE n < 0
  <2>1. Returned(x, s, n) = Executed(x, s, -1) /\ -1 \in Int
    BY <1>3 DEF Returned
  <2> QED BY <2>1, ExecutedOK
<1>4. CASE n > 0
  <2> DEFINE v == s.sz + n
             t == [s EXCEPT !.sz = v]
  <2>1. v \in Nat
    BY <1>1, <1>4
  <2>2. t \in Strand /\ t.sz = v /\ t.at = s.at /\ t.result = "running" /\ t.size = s.size
    <3> HIDE DEF v
    <3> QED BY <1>1, <2>1 DEF Strand
  <2>3. Returned(x, s, n) = IF Loops(FlowopAt(x, s), t) THEN Call(t, FlowopAt(x, s)) ELSE Executed(x, t, t.sz)
    BY <1>4 DEF Returned
  <2> HIDE DEF t
  <2>4. Placed(x, t) /\ t.sz \in Int /\ FlowopAt(x, t) = FlowopAt(x, s)
    BY <1>1, <2>1, <2>2 DEF Placed, FlowopAt
  <2>5. CASE Loops(FlowopAt(x, s), t)
    <3>1. t.sz < t.size
      BY <2>5 DEF Loops
    <3> QED BY <2>2, <2>3, <2>4, <2>5, <3>1, CallOK
  <2>6. CASE ~Loops(FlowopAt(x, s), t)
    <3>1. Returned(x, s, n) = Executed(x, t, t.sz)
      BY <2>3, <2>6
    <3> QED BY <2>2, <2>4, <3>1, ExecutedOK
  <2> QED BY <2>5, <2>6
<1> QED BY <1>2, <1>3, <1>4

\* After one repetition of a call.
LEMMA RepeatOK ==
  ASSUME profile \in Profiles, NEW x \in Side, NEW s, Placed(x, s), s.result = "running", s.sz < s.size,
         CurrentFlowop(x) = FlowopAt(x, s), FlowopAt(x, s).type \in Moving
  PROVE  StrandOK(x, Repeat(x, s))
<1>1. s \in Strand /\ s.sz \in Nat /\ s.size \in Nat /\ s.rep \in Nat /\ s.total \in Int
      /\ s.at \in 1 .. Len(profile.flowops)
  BY DEF Placed, Strand
<1>2. CASE s.rep + 1 < Repeats(CurrentFlowop(x))
  <2> DEFINE rep == s.rep + 1
             rest == s.size - s.sz
             stage == FirstStage(FlowopAt(x, s))
             c == [s EXCEPT !.rep = rep, !.left = rest, !.stage = stage]
  <2>1. rep \in Nat /\ rest \in Nat /\ rest > 0
    BY <1>1
  <2>2. stage \in {"first", "rest"} /\ (stage = "first" => profile.proto = "udp")
    BY DEF FirstStage
  <2>3. Repeat(x, s) = c
    BY <1>2 DEF Repeat
  <2> HIDE DEF rep, rest, stage
  <2>4. c \in Strand
    BY <1>1, <2>1, <2>2 DEF Strand
  <2>5. c.left = rest /\ c.stage = stage /\ c.at = s.at /\ c.size = s.size /\ c.sz = s.sz /\ c.result = s.result
    BY <1>1 DEF Strand
  <2> HIDE DEF c
  <2>6. FlowopAt(x, c) = FlowopAt(x, s)
    BY <2>5 DEF FlowopAt
  <2>7. Called(x, c)
    BY <2>1, <2>2, <2>5, <2>6 DEF Called, Moving
  <2> QED BY <1>1, <2>3, <2>4, <2>5, <2>7 DEF StrandOK, Placed
<1>3. CASE ~(s.rep + 1 < Repeats(CurrentFlowop(x)))
  <2>1. Repeat(x, s) = Returned(x, s, s.total)
    BY <1>3 DEF Repeat
  <2> QED BY <1>1, <2>1, ReturnedOK
<1> QED BY <1>2, <1>3

\* A call is for at least one byte, on both sides.
LEMMA SizesArePositive ==
  ASSUME profile \in Profiles, SizesAreGiven, NEW x \in Side, NEW i \in 1 .. Len(profile.flowops),
         Txn(x).flowops[i].type \in Moving, NEW n \in Sizes(Txn(x).flowops[i])
  PROVE  n \in Nat /\ n > 0
<1> DEFINE p == profile.flowops[i]
           f == Txn(x).flowops[i]
<1>1. p \in Flowop /\ f \in Flowop /\ SlaveRead \in Nat \ {0}
      /\ f = IF x = "master" THEN p ELSE Optimized(Mirrored(p))
  BY ExchangeAssumption, ProfileFields, TxnFacts
<1>2. p.type \in Transmits \cup {"read", "recv"} =>
        IF p.random THEN p.min > 0 /\ p.max > 0 ELSE p.type = "sendfile" \/ p.size > 0
  <2>1. i \in DOMAIN profile.flowops
    BY ProfileFields
  <2> QED BY <2>1 DEF SizesAreGiven
<1>3. f.type \in Moving /\ n \in Sizes(f)
  OBVIOUS
<1>4. /\ p.type \in FlowopType /\ p.size \in Nat /\ p.rsize \in Nat /\ p.min \in Nat /\ p.max \in Nat
      /\ p.random \in BOOLEAN
  BY <1>1, FlowopFields
<1>5. /\ f.random = p.random /\ f.min = p.min /\ f.max = p.max
      /\ p.type \in Transmits \cup {"read", "recv"}
      /\ ~p.random => f.size \in Nat /\ f.size > 0
  <2>1. CASE x = "master"
    BY <1>1, <1>2, <1>3, <1>4, <2>1 DEF Transmits, Moving
  <2>2. CASE x # "master"
    <3> DEFINE m == Mirrored(p)
    <3>1. /\ m \in Flowop /\ m.type = Opposite(p.type)
          /\ m.size = IF p.type = "sendfile" THEN SlaveRead ELSE p.size
          /\ m.rsize = p.rsize /\ m.random = p.random /\ m.min = p.min /\ m.max = p.max
      BY <1>1, MirroredFields
    <3> HIDE DEF m
    <3>2. /\ Optimized(m).type = m.type
          /\ Optimized(m).size = IF m.rsize > m.size THEN m.rsize ELSE m.size
          /\ Optimized(m).random = m.random /\ Optimized(m).min = m.min /\ Optimized(m).max = m.max
      BY <3>1, OptimizedFields
    <3>3. f = Optimized(m)
      BY <1>1, <2>2 DEF m
    <3> HIDE DEF f, p
    <3>4. p.type \in Transmits \cup {"read", "recv"}
      BY <1>3, <1>4, <3>1, <3>2, <3>3 DEF Opposite, Transmits, Moving, FlowopType
    <3>5. ~p.random => m.size \in Nat /\ m.size > 0
      BY <1>1, <1>2, <1>4, <3>1, <3>4
    <3> QED BY <1>4, <3>1, <3>2, <3>3, <3>4, <3>5
  <2> QED BY <2>1, <2>2
<1> HIDE DEF f, p
<1>6. p.random => f.min > 0 /\ f.max > 0 /\ f.min \in Nat /\ f.max \in Nat
  BY <1>2, <1>4, <1>5
<1>7. CASE ~f.random
  <2>1. n = f.size
    BY <1>3, <1>7 DEF Sizes
  <2> QED BY <1>5, <1>7, <2>1
<1>8. CASE f.random
  <2>1. n \in f.min .. f.max \/ n = f.max
    BY <1>3, <1>8 DEF Sizes
  <2>2. f.min > 0 /\ f.max > 0 /\ f.min \in Nat /\ f.max \in Nat
    BY <1>5, <1>6, <1>8
  <2> QED BY <2>1, <2>2
<1> QED BY <1>7, <1>8

TypeInv == TypeOK /\ \A x \in Side : StrandOK(x, st[x])

\* The strand of a side, and the flowop it is at.
LEMMA StrandOfSide ==
  ASSUME TypeInv, NEW x \in Side
  PROVE  /\ profile \in Profiles /\ Placed(x, st[x]) /\ st[x] \in Strand
         /\ CurrentFlowop(x) = FlowopAt(x, st[x]) /\ CurrentFlowop(x) \in Flowop
         /\ InCall(st[x]) => Called(x, st[x])
<1>1. profile \in Profiles /\ Placed(x, st[x]) /\ st[x] \in Strand /\ (InCall(st[x]) => Called(x, st[x]))
  BY DEF TypeInv, TypeOK, StrandOK, Placed
<1>2. st[x].at \in 1 .. Len(profile.flowops)
  BY <1>1 DEF Placed
<1>3. Txn(x).flowops[st[x].at] \in Flowop
  BY <1>1, <1>2, TxnFacts
<1> QED BY <1>1, <1>3 DEF CurrentFlowop, FlowopAt

\* A step of one strand.
LEMMA BecomesOK ==
  ASSUME TypeInv, NEW x \in Side, NEW s, StrandOK(x, s), Becomes(x, s), profile' = profile,
         wire' \in [Side -> Seq(Nat \ {0})], open' \in [Side -> BOOLEAN], lost' \in 0 .. MaxLoss
  PROVE  TypeInv'
<1>1. st \in [Side -> Strand] /\ profile \in Profiles /\ \A y \in Side : StrandOK(y, st[y])
  BY DEF TypeInv, TypeOK
<1>2. s \in Strand
  BY DEF StrandOK, Placed
<1>3. st' \in [Side -> Strand] /\ st'[x] = s /\ \A y \in Side \ {x} : st'[y] = st[y]
  BY <1>1, <1>2 DEF Becomes
<1>4. \A y \in Side : StrandOK(y, st'[y])
  BY <1>1, <1>3
<1>5. \A y \in Side : StrandOK(y, st[y])'
  BY <1>4 DEF StrandOK, Placed, Called, FlowopAt, Txn
<1> QED BY <1>1, <1>3, <1>5 DEF TypeInv, TypeOK

\* The start of an execution.
LEMMA ExecuteOK ==
  ASSUME TypeInv, SizesAreGiven, NEW x \in Side, Execute(x)
  PROVE  TypeInv'
<1> DEFINE s == st[x]
           f == CurrentFlowop(x)
<1>1. /\ profile \in Profiles /\ Placed(x, s) /\ s \in Strand /\ f = FlowopAt(x, s) /\ f \in Flowop
      /\ s.result = "running" /\ s.stage = "begin"
  BY StrandOfSide DEF Execute, Runs
<1>2. /\ wire' \in [Side -> Seq(Nat \ {0})] /\ lost' \in 0 .. MaxLoss /\ profile' = profile
      /\ open \in [Side -> BOOLEAN]
  BY DEF TypeInv, TypeOK, Execute
<1>3. open' \in [Side -> BOOLEAN]
  BY <1>2 DEF Execute
<1>4. \E t : StrandOK(x, t) /\ Becomes(x, t)
  <2>1. CASE f.count = 0
    <3>1. Becomes(x, FlowopEnds(x, s, 0, 0))
      BY <2>1 DEF Execute
    <3>2. StrandOK(x, FlowopEnds(x, s, 0, 0))
      BY <1>1, FlowopEndsOK
    <3> QED BY <3>1, <3>2
  <2>2. CASE f.count # 0 /\ (f.type = "nop" \/ (f.type = "disconnect" /\ open[x]))
    <3>1. Becomes(x, Executed(x, s, 0))
      BY <2>2 DEF Execute
    <3>2. StrandOK(x, Executed(x, s, 0))
      BY <1>1, ExecutedOK
    <3> QED BY <3>1, <3>2
  <2>3. CASE f.count # 0 /\ f.type = "sendfile" /\ open[x]
    <3> DEFINE size == FileSize
               zero == 0
               t == [s EXCEPT !.size = size, !.sz = zero, !.stage = "rest"]
    <3>1. Becomes(x, t)
      BY <2>3 DEF Execute
    <3>2. size \in Nat /\ zero \in Nat /\ zero < FileSize
      BY ExchangeAssumption
    <3>3. t \in Strand /\ t.stage = "rest" /\ t.sz = zero /\ t.at = s.at
      <4> HIDE DEF size, zero
      <4> QED BY <1>1, <3>2 DEF Strand
    <3> HIDE DEF t
    <3>4. FlowopAt(x, t).type = "sendfile"
      BY <1>1, <2>3, <3>3 DEF FlowopAt
    <3>5. StrandOK(x, t)
      BY <1>1, <3>2, <3>3, <3>4 DEF StrandOK, Placed, Called, Moving
    <3> QED BY <3>1, <3>5
  <2>4. CASE f.count # 0 /\ f.type # "nop" /\ ~open[x]
    <3> DEFINE u == [s EXCEPT !.errno = "EINTR"]
    <3>1. Becomes(x, Executed(x, IF f.type = "disconnect" THEN u ELSE s, -1))
      BY <2>4 DEF Execute
    <3>2. StrandOK(x, Executed(x, s, -1))
      BY <1>1, ExecutedOK
    <3>3. u \in Strand /\ u.at = s.at /\ u.result = "running"
      BY <1>1 DEF Strand
    <3> HIDE DEF u
    <3>4. Placed(x, u)
      BY <1>1, <3>3 DEF Placed
    <3>5. StrandOK(x, Executed(x, u, -1))
      BY <1>1, <3>3, <3>4, ExecutedOK
    <3>6. \E t : StrandOK(x, t) /\ t = Executed(x, IF f.type = "disconnect" THEN u ELSE s, -1)
      BY ONLY <3>2, <3>5
    <3> HIDE DEF f, s
    <3> QED BY ONLY <3>1, <3>6
  <2>5. CASE f.count # 0 /\ f.type \notin {"nop", "disconnect", "sendfile"} /\ open[x]
    <3>1. f.type \in Moving
      BY <1>1, <2>5, FlowopFields DEF FlowopType, Transmits, Moving
    <3>2. IF Supported(f) THEN \E n \in Sizes(f) : Becomes(x, Call([s EXCEPT !.size = n, !.sz = 0], f))
          ELSE Becomes(x, Executed(x, s, -1))
      BY <2>5 DEF Execute
    <3>3. CASE Supported(f)
      <4> DEFINE zero == 0
      <4>1. PICK n \in Sizes(f) : Becomes(x, Call([s EXCEPT !.size = n, !.sz = 0], f))
        BY <3>2, <3>3
      <4>2. n \in Nat /\ n > 0
        <5>1. s.at \in 1 .. Len(profile.flowops) /\ f = Txn(x).flowops[s.at]
          BY <1>1 DEF Placed, FlowopAt
        <5> HIDE DEF f, s
        <5> QED BY <1>1, <3>1, <5>1, SizesArePositive
      <4> DEFINE t == [s EXCEPT !.size = n, !.sz = zero]
      <4>3. zero \in Nat /\ zero < n
        BY <4>2
      <4>4. t \in Strand /\ t.size = n /\ t.sz = zero /\ t.at = s.at /\ t.result = "running"
        <5> HIDE DEF zero
        <5> QED BY <1>1, <4>2, <4>3 DEF Strand
      <4>5. Becomes(x, Call(t, f))
        BY <4>1
      <4> HIDE DEF t, zero
      <4>6. Placed(x, t) /\ FlowopAt(x, t) = f /\ t.sz < t.size
        BY <1>1, <4>3, <4>4 DEF Placed, FlowopAt
      <4>7. StrandOK(x, Call(t, f))
        <5> HIDE DEF f
        <5> QED BY <1>1, <3>1, <4>4, <4>6, CallOK
      <4> QED BY <4>5, <4>7
    <3>4. CASE ~Supported(f)
      <4>1. StrandOK(x, Executed(x, s, -1))
        BY <1>1, ExecutedOK
      <4> HIDE DEF f, s
      <4>2. Becomes(x, Executed(x, s, -1))
        BY ONLY <3>2, <3>4
      <4> QED BY ONLY <4>1, <4>2
    <3> QED BY <3>3, <3>4
  <2> QED BY <1>2, <2>1, <2>2, <2>3, <2>4, <2>5
<1> QED BY <1>2, <1>3, <1>4, BecomesOK

\* What a read takes is there, and no more than was asked for.
LEMMA TakesSome ==
  ASSUME NEW w \in Seq(Nat \ {0}), w # <<>>, NEW n \in Nat \ {0}, NEW t \in Takes(w, n)
  PROVE  t.got \in Nat \ {0} /\ t.got <= n /\ t.got <= Head(w) /\ t.rest \in Seq(Nat \ {0})
<1>1. Head(w) \in Nat \ {0} /\ Tail(w) \in Seq(Nat \ {0})
  OBVIOUS
<1> DEFINE h == Head(w)
           m == Min({n, h})
<1>2. m \in Nat \ {0} /\ m <= n /\ m <= h
  BY <1>1, MinOfTwo
<1> HIDE DEF m
<1>3. CASE Stream
  <2>1. Takes(w, n) = {[got |-> k, rest |-> IF k = h THEN <<>> ELSE <<h - k>>] : k \in 1 .. m}
    BY <1>3 DEF Takes, m
  <2>2. \E k \in 1 .. m : t = [got |-> k, rest |-> IF k = h THEN <<>> ELSE <<h - k>>]
    <3> HIDE DEF h
    <3> QED BY ONLY t \in Takes(w, n), <2>1
  <2>3. PICK k \in 1 .. m : t = [got |-> k, rest |-> IF k = h THEN <<>> ELSE <<h - k>>]
    BY <2>2
  <2>4. t.got = k /\ t.rest = IF k = h THEN <<>> ELSE <<h - k>>
    BY <2>3
  <2>5. k # h => h - k \in Nat \ {0}
    BY <1>1, <1>2
  <2>6. <<>> \in Seq(Nat \ {0}) /\ \A j \in Nat \ {0} : <<j>> \in Seq(Nat \ {0})
    OBVIOUS
  <2>7. t.rest \in Seq(Nat \ {0})
    <3> DEFINE j == h - k
    <3>1. t.rest = IF k = h THEN <<>> ELSE <<j>>
      BY <2>4
    <3>2. k # h => j \in Nat \ {0}
      BY <2>5
    <3> HIDE DEF j, h
    <3> QED BY ONLY <2>6, <3>1, <3>2, Zenon
  <2> QED BY <1>1, <1>2, <2>4, <2>7
<1>4. CASE ~Stream
  <2>1. t = [got |-> m, rest |-> IF profile.proto = "sctp" /\ h > n THEN <<h - n>> \o Tail(w) ELSE Tail(w)]
    BY <1>4 DEF Takes, m
  <2>2. t.got = m /\ t.rest = IF profile.proto = "sctp" /\ h > n THEN <<h - n>> \o Tail(w) ELSE Tail(w)
    BY <2>1
  <2>3. h > n => h - n \in Nat \ {0}
    BY <1>1
  <2>4. \A j \in Nat \ {0} : <<j>> \o Tail(w) \in Seq(Nat \ {0})
    BY <1>1
  <2>5. t.rest \in Seq(Nat \ {0})
    BY <1>1, <2>2, <2>3, <2>4
  <2> QED BY <1>1, <1>2, <2>2, <2>5
<1> QED BY <1>3, <1>4

\* The strand after some bytes were moved.
LEMMA MovedFields ==
  ASSUME NEW x \in Side, st[x] \in Strand, NEW n \in Nat
  PROVE  LET s == st[x]
             m == Moved(x, n)
         IN /\ m \in Strand
            /\ m.total = s.total + n /\ m.moved = s.moved + n
            /\ m.high = IF OwnBuffer(CurrentFlowop(x)) THEN s.high ELSE Max({s.high, s.sz + n})
            /\ m.iter = s.iter /\ m.at = s.at /\ m.n = s.n /\ m.size = s.size /\ m.sz = s.sz /\ m.rep = s.rep
            /\ m.left = s.left /\ m.stage = s.stage /\ m.errno = s.errno /\ m.counted = s.counted
            /\ m.result = s.result
<1> DEFINE s == st[x]
           total == s.total + n
           moved == s.moved + n
           high == IF OwnBuffer(CurrentFlowop(x)) THEN s.high ELSE Max({s.high, s.sz + n})
           m == [s EXCEPT !.moved = moved, !.total = total, !.high = high]
<1>1. s \in Strand /\ s.total \in Nat /\ s.moved \in Nat /\ s.high \in Nat /\ s.sz \in Nat
  BY DEF Strand
<1>2. total \in Nat /\ moved \in Nat
  BY <1>1
<1>3. high \in Nat
  <2>1. Max({s.high, s.sz + n}) \in {s.high, s.sz + n}
    BY <1>1, MaxOfTwo
  <2> QED BY <1>1, <2>1
<1>4. Moved(x, n) = m
  BY DEF Moved
<1>5. total = s.total + n /\ moved = s.moved + n
      /\ high = IF OwnBuffer(CurrentFlowop(x)) THEN s.high ELSE Max({s.high, s.sz + n})
  OBVIOUS
<1> HIDE DEF total, moved, high
<1>6. m \in Strand
  BY <1>1, <1>2, <1>3 DEF Strand
<1>7. /\ m.total = total /\ m.moved = moved /\ m.high = high
      /\ m.iter = s.iter /\ m.at = s.at /\ m.n = s.n /\ m.size = s.size /\ m.sz = s.sz /\ m.rep = s.rep
      /\ m.left = s.left /\ m.stage = s.stage /\ m.errno = s.errno /\ m.counted = s.counted
      /\ m.result = s.result
  BY <1>1 DEF Strand
<1> QED BY <1>4, <1>5, <1>6, <1>7

\* What a step within a call knows.
LEMMA WithinCall ==
  ASSUME TypeInv, NEW x \in Side, InCall(st[x]), CurrentFlowop(x).type \in Moving
  PROVE  /\ st[x].sz < st[x].size /\ st[x].left \in Nat \ {0} /\ st[x].sz \in Nat /\ st[x].size \in Nat
         /\ st[x].stage = "first" => profile.proto = "udp"
         /\ \A n \in Nat : /\ Placed(x, Moved(x, n)) /\ Moved(x, n).result = "running"
                           /\ Moved(x, n).sz < Moved(x, n).size
                           /\ FlowopAt(x, Moved(x, n)) = CurrentFlowop(x)
                           /\ StrandOK(x, Repeat(x, Moved(x, n)))
<1>1. /\ profile \in Profiles /\ Placed(x, st[x]) /\ st[x] \in Strand
      /\ CurrentFlowop(x) = FlowopAt(x, st[x]) /\ Called(x, st[x])
  BY StrandOfSide
<1>2. /\ st[x].sz < st[x].size /\ st[x].left \in Nat \ {0} /\ st[x].sz \in Nat /\ st[x].size \in Nat
      /\ st[x].stage = "first" => profile.proto = "udp"
  <2>1. st[x].left \in Nat /\ st[x].sz \in Nat /\ st[x].size \in Nat
    BY <1>1 DEF Strand
  <2> QED BY <1>1, <2>1 DEF Called
<1>3. ASSUME NEW n \in Nat
      PROVE  /\ Placed(x, Moved(x, n)) /\ Moved(x, n).result = "running"
             /\ Moved(x, n).sz < Moved(x, n).size
             /\ FlowopAt(x, Moved(x, n)) = CurrentFlowop(x)
             /\ StrandOK(x, Repeat(x, Moved(x, n)))
  <2> DEFINE m == Moved(x, n)
  <2>1. m \in Strand /\ m.at = st[x].at /\ m.size = st[x].size /\ m.sz = st[x].sz /\ m.result = st[x].result
    BY <1>1, MovedFields
  <2> HIDE DEF m
  <2>2. Placed(x, m) /\ m.result = "running" /\ m.sz < m.size /\ FlowopAt(x, m) = CurrentFlowop(x)
    BY <1>1, <1>2, <2>1 DEF Placed, FlowopAt, InCall
  <2>3. StrandOK(x, Repeat(x, m))
    BY <1>1, <2>2, RepeatOK
  <2> QED BY <2>2, <2>3 DEF m
<1> QED BY <1>2, <1>3

\* What a step of a strand leaves alone.
LEMMA Frame ==
  ASSUME TypeInv, NEW x \in Side
  PROVE  /\ open \in [Side -> BOOLEAN] /\ lost \in 0 .. MaxLoss /\ wire \in [Side -> Seq(Nat \ {0})]
         /\ \A y \in Side : wire[y] \in Seq(Nat \ {0})
         /\ \A y \in Side, w \in Seq(Nat \ {0}) : [wire EXCEPT ![y] = w] \in [Side -> Seq(Nat \ {0})]
         /\ Peer(x) \in Side
<1>1. open \in [Side -> BOOLEAN] /\ lost \in 0 .. MaxLoss /\ wire \in [Side -> Seq(Nat \ {0})]
  BY DEF TypeInv, TypeOK
<1> QED BY <1>1 DEF Peer, Side

\* The first attempt of a read.
LEMMA FirstReadOK ==
  ASSUME TypeInv, NEW x \in Side, FirstRead(x)
  PROVE  TypeInv'
<1> DEFINE s == st[x]
<1>1. /\ s.result = "running" /\ s.stage = "first" /\ IsRead(CurrentFlowop(x))
      /\ profile' = profile /\ open' = open /\ lost' = lost
  BY DEF FirstRead, Runs
<1>2. InCall(s) /\ CurrentFlowop(x).type \in Moving
  BY <1>1 DEF InCall, IsRead, Moving
<1>3. /\ profile \in Profiles /\ Placed(x, s) /\ s \in Strand
      /\ CurrentFlowop(x) = FlowopAt(x, s) /\ Called(x, s)
  BY <1>2, StrandOfSide
<1>4. /\ s.sz < s.size /\ s.left \in Nat \ {0}
      /\ profile.proto = "udp" /\ s.at \in 1 .. Len(profile.flowops)
  BY <1>1, <1>2, <1>3, WithinCall DEF Placed
<1>5. CASE wire[x] = <<>>
  <2> DEFINE left == Left(s.left, -1)
             t == [s EXCEPT !.left = left, !.errno = "EAGAIN", !.stage = "rest"]
  <2>1. Becomes(x, t) /\ wire' = wire
    BY <1>5 DEF FirstRead
  <2>2. left \in Nat /\ left > 0
    BY <1>4 DEF Left
  <2> HIDE DEF left
  <2>3. t \in Strand /\ t.left = left /\ t.stage = "rest" /\ t.at = s.at /\ t.sz = s.sz /\ t.size = s.size
    BY <1>3, <2>2 DEF Strand
  <2> HIDE DEF t
  <2>4. FlowopAt(x, t).type \in Moving
    BY <1>2, <1>3, <2>3 DEF FlowopAt
  <2>5. StrandOK(x, t)
    BY <1>4, <2>2, <2>3, <2>4 DEF StrandOK, Placed, Called, Moving
  <2> QED BY <1>1, <2>1, <2>5, BecomesOK, Frame
<1>6. CASE wire[x] # <<>>
  <2>1. PICK t \in Takes(wire[x], s.left) :
          LET m == [Moved(x, t.got) EXCEPT !.left = Left(@, t.got), !.stage = "rest"]
          IN /\ wire' = [wire EXCEPT ![x] = t.rest]
             /\ Becomes(x, IF m.left > 0 THEN m ELSE Repeat(x, m))
    BY <1>6 DEF FirstRead
  <2>2. t.got \in Nat \ {0} /\ t.got <= s.left /\ t.rest \in Seq(Nat \ {0})
    BY <1>4, <1>6, TakesSome, Frame
  <2> DEFINE v == Moved(x, t.got)
             left == Left(v.left, t.got)
             m == [v EXCEPT !.left = left, !.stage = "rest"]
  <2>3. Becomes(x, IF m.left > 0 THEN m ELSE Repeat(x, m)) /\ wire' = [wire EXCEPT ![x] = t.rest]
    BY <2>1
  <2>4. v \in Strand /\ v.left = s.left /\ v.at = s.at /\ v.sz = s.sz /\ v.size = s.size /\ v.result = "running"
    BY <1>1, <1>3, <2>2, MovedFields
  <2>5. left \in Nat
    BY <1>4, <2>2, <2>4 DEF Left
  <2> HIDE DEF v, left
  <2>6. /\ m \in Strand /\ m.left = left /\ m.stage = "rest" /\ m.at = s.at /\ m.sz = s.sz /\ m.size = s.size
        /\ m.result = "running"
    BY <2>4, <2>5 DEF Strand
  <2> HIDE DEF m
  <2>7. FlowopAt(x, m) = FlowopAt(x, s) /\ Placed(x, m)
    BY <1>4, <2>6 DEF FlowopAt, Placed
  <2>8. StrandOK(x, Repeat(x, m))
    BY <1>2, <1>3, <1>4, <2>6, <2>7, RepeatOK
  <2>9. m.left > 0 => StrandOK(x, m)
    BY <1>2, <1>3, <1>4, <2>6, <2>7 DEF StrandOK, Called, Moving
  <2>10. StrandOK(x, IF m.left > 0 THEN m ELSE Repeat(x, m))
    BY ONLY <2>8, <2>9
  <2>11. wire' \in [Side -> Seq(Nat \ {0})]
    BY <2>2, <2>3, Frame
  <2> QED BY <1>1, <2>3, <2>10, <2>11, BecomesOK, Frame
<1> QED BY <1>5, <1>6

\* The read that waits.
LEMMA ReadOK ==
  ASSUME TypeInv, NEW x \in Side, Read(x)
  PROVE  TypeInv'
<1>1. /\ st[x].result = "running" /\ st[x].stage = "rest" /\ IsRead(CurrentFlowop(x)) /\ wire[x] # <<>>
      /\ profile' = profile /\ open' = open /\ lost' = lost
  BY DEF Read, Runs
<1>2. InCall(st[x]) /\ CurrentFlowop(x).type \in Moving
  BY <1>1 DEF InCall, IsRead, Moving
<1>3. PICK t \in Takes(wire[x], st[x].left) :
        wire' = [wire EXCEPT ![x] = t.rest] /\ Becomes(x, Repeat(x, Moved(x, t.got)))
  BY DEF Read
<1>4. t.got \in Nat \ {0} /\ t.rest \in Seq(Nat \ {0})
  BY <1>1, <1>2, WithinCall, TakesSome, Frame
<1>5. StrandOK(x, Repeat(x, Moved(x, t.got)))
  BY <1>2, <1>4, WithinCall
<1>6. wire' \in [Side -> Seq(Nat \ {0})]
  BY <1>3, <1>4, Frame
<1> QED BY <1>1, <1>3, <1>5, <1>6, BecomesOK, Frame

\* Nothing was moved: the end of the connection, or of the time.
LEMMA HangUpOK ==
  ASSUME TypeInv, NEW x \in Side, HangUp(x)
  PROVE  TypeInv'
<1>1. /\ st[x].result = "running" /\ st[x].stage = "rest" /\ IsRead(CurrentFlowop(x))
      /\ Becomes(x, Returned(x, st[x], st[x].total))
      /\ profile' = profile /\ open' = open /\ lost' = lost /\ wire' = wire
  BY DEF HangUp, Runs
<1>2. InCall(st[x]) /\ CurrentFlowop(x).type \in Moving
  BY <1>1 DEF InCall, IsRead, Moving
<1>3. st[x].total \in Int
  BY StrandOfSide DEF Strand
<1>4. StrandOK(x, Returned(x, st[x], st[x].total))
  BY <1>1, <1>2, <1>3, StrandOfSide, WithinCall, ReturnedOK
<1> QED BY <1>1, <1>4, BecomesOK, Frame

LEMMA GivesUpOK ==
  ASSUME TypeInv, NEW x \in Side, GivesUp(x)
  PROVE  TypeInv'
<1> DEFINE s == st[x]
           u == [s EXCEPT !.errno = "EAGAIN"]
<1>1. /\ s.result = "running" /\ s.stage = "rest" /\ IsRead(CurrentFlowop(x))
      /\ Becomes(x, Returned(x, s, -1)) \/ Becomes(x, Returned(x, u, -1))
      /\ profile' = profile /\ open' = open /\ lost' = lost /\ wire' = wire
  BY DEF GivesUp, Runs
<1>2. InCall(s) /\ CurrentFlowop(x).type \in Moving /\ -1 \in Int
  BY <1>1 DEF InCall, IsRead, Moving
<1>3. /\ profile \in Profiles /\ Placed(x, s) /\ s \in Strand
      /\ CurrentFlowop(x) = FlowopAt(x, s) /\ s.sz < s.size
  BY <1>2, StrandOfSide, WithinCall
<1>4. StrandOK(x, Returned(x, s, -1))
  BY <1>1, <1>2, <1>3, ReturnedOK
<1>5. u \in Strand /\ u.at = s.at /\ u.sz = s.sz /\ u.size = s.size /\ u.result = "running"
  BY <1>1, <1>3 DEF Strand
<1> HIDE DEF u
<1>6. Placed(x, u) /\ FlowopAt(x, u) = FlowopAt(x, s)
  BY <1>3, <1>5 DEF Placed, FlowopAt
<1>7. StrandOK(x, Returned(x, u, -1))
  BY <1>2, <1>3, <1>5, <1>6, ReturnedOK
<1> QED BY <1>1, <1>4, <1>7, BecomesOK, Frame

\* The first attempt of a write.
LEMMA FirstWriteOK ==
  ASSUME TypeInv, NEW x \in Side, FirstWrite(x)
  PROVE  TypeInv'
<1> DEFINE s == st[x]
           t == [s EXCEPT !.errno = "EAGAIN", !.stage = "rest"]
<1>1. /\ s.result = "running" /\ s.stage = "first" /\ CurrentFlowop(x).type = "write"
      /\ profile' = profile /\ open' = open /\ lost' = lost
      /\ \/ /\ wire' = [wire EXCEPT ![Peer(x)] = Append(@, s.left)]
            /\ Becomes(x, Repeat(x, Moved(x, s.left)))
         \/ Becomes(x, t) /\ wire' = wire
  BY DEF FirstWrite, Runs
<1>2. InCall(s) /\ CurrentFlowop(x).type \in Moving
  BY <1>1 DEF InCall, Moving
<1>3. /\ profile \in Profiles /\ Placed(x, s) /\ s \in Strand
      /\ CurrentFlowop(x) = FlowopAt(x, s) /\ Called(x, s) /\ s.left \in Nat \ {0}
      /\ StrandOK(x, Repeat(x, Moved(x, s.left))) /\ s.at \in 1 .. Len(profile.flowops)
  BY <1>2, StrandOfSide, WithinCall DEF Placed
<1>4. StrandOK(x, t)
  <2>1. t \in Strand /\ t.left = s.left /\ t.stage = "rest" /\ t.at = s.at /\ t.sz = s.sz /\ t.size = s.size
    BY <1>3 DEF Strand
  <2> HIDE DEF t
  <2>2. FlowopAt(x, t) = FlowopAt(x, s)
    BY <2>1 DEF FlowopAt
  <2> QED BY <1>1, <1>3, <2>1, <2>2 DEF StrandOK, Placed, Called, Moving
<1> HIDE DEF t
<1>5. [wire EXCEPT ![Peer(x)] = Append(@, s.left)] \in [Side -> Seq(Nat \ {0})]
  <2>1. Append(wire[Peer(x)], s.left) \in Seq(Nat \ {0})
    BY <1>3, Frame
  <2> QED BY <2>1, Frame
<1> QED BY <1>1, <1>3, <1>4, <1>5, BecomesOK, Frame

\* What is put on the wire is of the wire's type.
LEMMA PutOK ==
  ASSUME NEW w \in Seq(Nat \ {0}), NEW n \in Nat \ {0}
  PROVE  Put(w, n) \in Seq(Nat \ {0})
<1>1. CASE Stream /\ w # <<>>
  <2>1. Head(w) + n \in Nat \ {0}
    BY <1>1
  <2>2. \A j \in Nat \ {0} : <<j>> \in Seq(Nat \ {0})
    OBVIOUS
  <2>3. <<Head(w) + n>> \in Seq(Nat \ {0})
    BY <2>1, <2>2
  <2> QED BY <1>1, <2>3 DEF Put
<1>2. CASE ~(Stream /\ w # <<>>)
  BY <1>2 DEF Put
<1> QED BY <1>1, <1>2

\* Where there is room, there is room for a byte.
LEMMA RoomIsNat ==
  ASSUME NEW w \in Seq(Nat \ {0}), Room(w) > 0
  PROVE  Room(w) \in Nat \ {0}
<1>1. Capacity \in Nat
  BY ExchangeAssumption
<1>2. w # <<>> => Head(w) \in Nat
  OBVIOUS
<1> QED BY <1>1, <1>2 DEF Room

\* The write that waits.
LEMMA WriteOK ==
  ASSUME TypeInv, NEW x \in Side, Write(x)
  PROVE  TypeInv'
<1> DEFINE s == st[x]
           room == Room(wire[Peer(x)])
<1>1. /\ s.result = "running" /\ s.stage = "rest" /\ CurrentFlowop(x).type \in {"write", "send"}
      /\ profile' = profile /\ open' = open /\ lost' = lost /\ room > 0
  BY DEF Write, Runs
<1>2. InCall(s) /\ CurrentFlowop(x).type \in Moving
  BY <1>1 DEF InCall, Moving
<1>3. s.left \in Nat \ {0} /\ room \in Nat \ {0} /\ wire[Peer(x)] \in Seq(Nat \ {0})
  BY <1>1, <1>2, WithinCall, RoomIsNat, Frame
<1>4. PICK n \in IF Stream THEN 1 .. Min({s.left, room}) ELSE {s.left} :
        wire' = [wire EXCEPT ![Peer(x)] = Put(@, n)] /\ Becomes(x, Repeat(x, Moved(x, n)))
  BY DEF Write
<1>5. n \in Nat \ {0}
  <2>1. Min({s.left, room}) \in Nat
    BY <1>3, MinOfTwo
  <2> QED BY <1>3, <1>4, <2>1
<1>6. StrandOK(x, Repeat(x, Moved(x, n)))
  BY <1>2, <1>5, WithinCall
<1>7. wire' \in [Side -> Seq(Nat \ {0})]
  BY <1>3, <1>4, <1>5, PutOK, Frame
<1> QED BY <1>1, <1>4, <1>6, <1>7, BecomesOK, Frame

\* A write that fails.
LEMMA WriteFailsOK ==
  ASSUME TypeInv, NEW x \in Side, WriteFails(x)
  PROVE  TypeInv'
<1> DEFINE s == st[x]
           u == [s EXCEPT !.errno = "other"]
           f == CurrentFlowop(x)
<1>1. /\ s.result = "running" /\ s.stage = "rest" /\ f.type \in Transmits
      /\ profile' = profile /\ open' = open /\ lost' = lost /\ wire' = wire
      /\ \/ /\ profile.proto # "udp"
            /\ Becomes(x, IF f.type = "sendfile" THEN Executed(x, u, -1) ELSE Returned(x, u, -1))
         \/ profile.proto = "udp" /\ f.nonblocking /\ Becomes(x, Returned(x, s, -1))
  BY DEF WriteFails, Runs
<1>2. InCall(s)
  BY <1>1 DEF InCall
<1>3. /\ profile \in Profiles /\ Placed(x, s) /\ s \in Strand /\ f = FlowopAt(x, s) /\ Called(x, s)
  BY <1>2, StrandOfSide
<1>4. u \in Strand /\ u.at = s.at /\ u.sz = s.sz /\ u.size = s.size /\ u.result = "running" /\ -1 \in Int
  BY <1>1, <1>3 DEF Strand
<1> HIDE DEF u
<1>5. Placed(x, u) /\ FlowopAt(x, u) = FlowopAt(x, s)
  BY <1>3, <1>4 DEF Placed, FlowopAt
<1>6. CASE f.type = "sendfile" /\ profile.proto # "udp"
  <2>1. StrandOK(x, Executed(x, u, -1))
    BY <1>3, <1>4, <1>5, ExecutedOK
  <2> QED BY <1>1, <1>6, <2>1, BecomesOK, Frame
<1>7. CASE f.type # "sendfile"
  <2>1. f.type \in Moving /\ s.sz < s.size
    BY <1>1, <1>3, <1>7 DEF Transmits, Moving, Called
  <2>2. StrandOK(x, Returned(x, u, -1)) /\ StrandOK(x, Returned(x, s, -1))
    BY <1>1, <1>3, <1>4, <1>5, <2>1, ReturnedOK
  <2> QED BY <1>1, <1>7, <2>2, BecomesOK, Frame
<1>8. CASE f.type = "sendfile" /\ profile.proto = "udp"
  <2>1. Returned(x, s, -1) = Executed(x, s, -1)
    BY DEF Returned
  <2>2. StrandOK(x, Executed(x, s, -1))
    BY <1>1, <1>3, <1>4, ExecutedOK
  <2> QED BY <1>1, <1>8, <2>1, <2>2, BecomesOK, Frame
<1> QED BY <1>6, <1>7, <1>8

\* do_sendfile.
LEMMA SendFileOK ==
  ASSUME TypeInv, NEW x \in Side, SendFile(x)
  PROVE  TypeInv'
<1> DEFINE s == st[x]
           f == CurrentFlowop(x)
           room == Room(wire[Peer(x)])
           chunk == IF f.size = 0 THEN FileSize ELSE f.size
<1>1. /\ s.result = "running" /\ s.stage = "rest" /\ f.type = "sendfile"
      /\ profile' = profile /\ open' = open /\ lost' = lost /\ room > 0
  BY DEF SendFile, Runs
<1>2. InCall(s)
  BY <1>1 DEF InCall
<1>3. /\ profile \in Profiles /\ Placed(x, s) /\ s \in Strand /\ f = FlowopAt(x, s) /\ f \in Flowop
      /\ Called(x, s)
  BY <1>2, StrandOfSide
<1>4. /\ s.sz \in Nat /\ s.moved \in Nat /\ s.sz < FileSize /\ FileSize \in Nat /\ chunk \in Nat
      /\ room \in Nat /\ wire[Peer(x)] \in Seq(Nat \ {0})
  BY <1>1, <1>3, ExchangeAssumption, RoomIsNat, Frame DEF Called, Strand, Flowop
<1>5. PICK n \in 1 .. Min({chunk, FileSize - s.sz, room}) :
        /\ wire' = [wire EXCEPT ![Peer(x)] = Put(@, n)]
        /\ LET t == [s EXCEPT !.sz = @ + n, !.moved = @ + n]
           IN Becomes(x, IF t.sz < FileSize /\ f.size > 0 THEN t ELSE Executed(x, t, t.sz))
  BY DEF SendFile
<1>6. n \in Nat \ {0}
  <2> DEFINE rest == FileSize - s.sz
  <2>1. rest \in Nat /\ n \in 1 .. Min({chunk, rest, room})
    BY <1>4
  <2>2. chunk \in Nat /\ room \in Nat
    BY <1>4
  <2> HIDE DEF rest, chunk, room
  <2>3. Min({chunk, rest, room}) \in Nat
    BY ONLY <2>1, <2>2, MinOfThree
  <2> QED BY ONLY <2>1, <2>3
<1> DEFINE sz == s.sz + n
           moved == s.moved + n
           t == [s EXCEPT !.sz = sz, !.moved = moved]
<1>7. Becomes(x, IF t.sz < FileSize /\ f.size > 0 THEN t ELSE Executed(x, t, t.sz))
  BY <1>5
<1>8. sz \in Nat /\ moved \in Nat
  BY <1>4, <1>6
<1>9. t \in Strand /\ t.sz = sz /\ t.at = s.at /\ t.stage = "rest" /\ t.result = "running"
  <2> HIDE DEF sz, moved
  <2> QED BY <1>1, <1>3, <1>8 DEF Strand
<1> HIDE DEF t, sz, moved
<1>10. Placed(x, t) /\ FlowopAt(x, t) = f /\ t.sz \in Int
  BY <1>3, <1>8, <1>9 DEF Placed, FlowopAt
<1>11. StrandOK(x, Executed(x, t, t.sz))
  BY <1>3, <1>9, <1>10, ExecutedOK
<1>12. t.sz < FileSize => StrandOK(x, t)
  BY <1>1, <1>9, <1>10 DEF StrandOK, Called, Moving
<1>13. wire' \in [Side -> Seq(Nat \ {0})]
  BY <1>4, <1>5, <1>6, PutOK, Frame
<1>14. StrandOK(x, IF t.sz < FileSize /\ f.size > 0 THEN t ELSE Executed(x, t, t.sz))
  BY ONLY <1>11, <1>12
<1> QED BY <1>1, <1>7, <1>13, <1>14, BecomesOK, Frame

\* The network takes a message away, and nothing else.
LEMMA LoseOK ==
  ASSUME TypeInv, NEW x \in Side, Lose(x)
  PROVE  TypeInv' /\ profile' = profile /\ st' = st
<1>1. /\ wire[x] \in Seq(Nat \ {0}) /\ wire[x] # <<>> /\ lost \in 0 .. MaxLoss /\ lost < MaxLoss
      /\ wire' = [wire EXCEPT ![x] = Tail(@)] /\ lost' = lost + 1
      /\ profile' = profile /\ st' = st /\ open' = open
  BY Frame DEF Lose
<1>2. wire' \in [Side -> Seq(Nat \ {0})]
  <2>1. Tail(wire[x]) \in Seq(Nat \ {0})
    BY <1>1
  <2> QED BY <1>1, <2>1, Frame
<1>3. lost' \in 0 .. MaxLoss
  BY <1>1, ExchangeAssumption
<1>4. TypeOK'
  BY <1>1, <1>2, <1>3 DEF TypeInv, TypeOK
<1>5. \A y \in Side : StrandOK(y, st[y])'
  BY <1>1 DEF TypeInv, StrandOK, Placed, Called, FlowopAt, Txn
<1> QED BY <1>1, <1>4, <1>5 DEF TypeInv

\* The strands begin, unless the slave has no iterations.
LEMMA InitOK ==
  ASSUME Init
  PROVE  TypeInv
<1>1. profile \in Profiles /\ lost = 0 /\ open = [x \in Side |-> TRUE] /\ wire = [x \in Side |-> <<>>]
  BY DEF Init
<1>2. 1 \in 1 .. Len(profile.flowops)
  BY <1>1, ProfileFields
<1>3. \A x \in Side : st[x] \in Strand /\ st[x].at = 1 /\ st[x].stage = "begin"
  BY DEF Init, Strand
<1>4. st \in [Side -> Strand]
  <2>1. st = [x \in Side |-> st[x]]
    BY DEF Init
  <2> QED BY <1>3, <2>1
<1>5. \A x \in Side : StrandOK(x, st[x])
  BY <1>2, <1>3 DEF StrandOK, Placed, InCall
<1>6. 0 \in 0 .. MaxLoss
  BY ExchangeAssumption
<1> QED BY <1>1, <1>4, <1>5, <1>6 DEF TypeInv, TypeOK

\* Every step keeps the types.
LEMMA StepOK ==
  ASSUME TypeInv, SizesAreGiven, [Next]_vars
  PROVE  TypeInv'
<1>1. ASSUME UNCHANGED vars PROVE TypeInv'
  BY <1>1 DEF vars, TypeInv, TypeOK, StrandOK, Placed, Called, FlowopAt, Txn
<1>2. ASSUME NEW x \in Side, Step(x) PROVE TypeInv'
  BY <1>2, ExecuteOK, FirstReadOK, ReadOK, HangUpOK, GivesUpOK, FirstWriteOK, WriteOK, WriteFailsOK,
     SendFileOK DEF Step
<1>3. ASSUME NEW x \in Side, Lose(x) PROVE TypeInv'
  BY <1>3, LoseOK
<1> QED BY <1>1, <1>2, <1>3 DEF Next, Stopped

-----------------------------------------------------------------------------
\* Every variable of Exchange keeps its type, and a strand stays at the flowops of its
\* transaction and has something left to move in a call, if what moves data is given a size
\* (flowop_execute, flowop_rw, txn_iterations, and the counts and sizes of group_opposite).
THEOREM ExchangeTypes == SizesAreGiven /\ Spec => []TypeOK
<1>1. Init => TypeInv
  BY InitOK
<1>2. SizesAreGiven /\ TypeInv /\ [Next]_vars => SizesAreGiven' /\ TypeInv'
  BY StepOK DEF SizesAreGiven
<1>3. TypeInv => TypeOK
  BY DEF TypeInv
<1> QED BY <1>1, <1>2, <1>3, PTL DEF Spec

-----------------------------------------------------------------------------
(* The buffer                                                               *)

\* The size of what a strand is called for is within the buffer.
WithinBuffer(x, s) ==
  /\ s.size <= GroupMaxDtoSize(x)
  /\ profile.proto = "udp" /\ FlowopAt(x, s).nonblocking => s.size < GroupMaxDtoSize(x)

\* And so is what it will read or write next.
Buffered(x, s) ==
  /\ s.high <= GroupMaxDtoSize(x)
  /\ InCall(s) /\ FlowopAt(x, s).type \in Moving =>
       /\ WithinBuffer(x, s)
       /\ s.sz + s.left <= GroupMaxDtoSize(x)
       /\ s.stage = "first" => s.left = s.size - s.sz /\ FlowopAt(x, s).nonblocking

\* Every size of a flowop is within the buffer.
LEMMA SizesFit ==
  ASSUME profile \in Profiles, SizesAreGiven, BufferIsEnough, NEW x \in Side,
         NEW i \in 1 .. Len(profile.flowops), Txn(x).flowops[i].type \in Moving,
         NEW n \in Sizes(Txn(x).flowops[i])
  PROVE  /\ n <= GroupMaxDtoSize(x)
         /\ profile.proto = "udp" /\ Txn(x).flowops[i].nonblocking => n < GroupMaxDtoSize(x)
<1> DEFINE p == profile.flowops[i]
           f == Txn(x).flowops[i]
           G == GroupMaxDtoSize(x)
<1>1. /\ p \in Flowop /\ f \in Flowop /\ SlaveRead \in Nat \ {0} /\ DefaultSize \in Nat
      /\ f = IF x = "master" THEN p ELSE Optimized(Mirrored(p))
      /\ G \in Nat /\ G >= DefaultSize /\ G >= f.size
  BY ExchangeAssumption, ProfileFields, TxnFacts, BufferSize
<1>2. /\ p.random => p.max <= DefaultSize
      /\ profile.proto = "udp" /\ p.nonblocking =>
            p.type # "sendfile" /\ \A k \in {p.size, p.rsize, p.max} : k < DefaultSize
  <2>1. i \in DOMAIN profile.flowops
    BY ProfileFields
  <2> QED BY <2>1 DEF BufferIsEnough
<1>3. f.type \in Moving /\ n \in Sizes(f) /\ n \in Nat
  BY SizesArePositive
<1>4. /\ p.type \in FlowopType /\ p.size \in Nat /\ p.rsize \in Nat /\ p.min \in Nat /\ p.max \in Nat
      /\ p.random \in BOOLEAN /\ p.nonblocking \in BOOLEAN
  BY <1>1, FlowopFields
<1>5. /\ f.random = p.random /\ f.min = p.min /\ f.max = p.max /\ f.nonblocking = p.nonblocking
      /\ p.type # "sendfile" => f.size \in {p.size, p.rsize}
  <2>1. CASE x = "master"
    BY <1>1, <2>1
  <2>2. CASE x # "master"
    <3> DEFINE m == Mirrored(p)
    <3>1. /\ m \in Flowop /\ m.size = IF p.type = "sendfile" THEN SlaveRead ELSE p.size
          /\ m.rsize = p.rsize /\ m.random = p.random /\ m.min = p.min /\ m.max = p.max
          /\ m.nonblocking = p.nonblocking
      BY <1>1, MirroredFields
    <3> HIDE DEF m
    <3>2. /\ Optimized(m).size = IF m.rsize > m.size THEN m.rsize ELSE m.size
          /\ Optimized(m).random = m.random /\ Optimized(m).min = m.min /\ Optimized(m).max = m.max
          /\ Optimized(m).nonblocking = m.nonblocking
      BY <3>1, OptimizedFields
    <3>3. f = Optimized(m)
      BY <1>1, <2>2 DEF m
    <3> HIDE DEF f, p
    <3> QED BY <3>1, <3>2, <3>3
  <2> QED BY <2>1, <2>2
<1> HIDE DEF f, p, G
<1>6. CASE ~f.random
  <2>1. n = f.size
    BY <1>3, <1>6 DEF Sizes
  <2>2. profile.proto = "udp" /\ f.nonblocking => f.size < DefaultSize
    BY <1>2, <1>5
  <2> QED BY <1>1, <1>3, <2>1, <2>2 DEF f, G
<1>7. CASE f.random
  <2>1. n \in f.min .. f.max \/ n = f.max
    BY <1>3, <1>7 DEF Sizes
  <2>2. n <= f.max /\ f.max \in Nat /\ f.max <= DefaultSize
    BY <1>2, <1>4, <1>5, <1>7, <2>1
  <2>3. profile.proto = "udp" /\ f.nonblocking => f.max < DefaultSize
    BY <1>2, <1>5
  <2> QED BY <1>1, <1>3, <2>2, <2>3 DEF f, G
<1> QED BY <1>6, <1>7

\* The end of an execution moves nothing.
LEMMA FlowopEndsKeeps ==
  ASSUME NEW x \in Side, NEW s \in Strand, NEW ret \in Int, NEW n \in Nat
  PROVE  FlowopEnds(x, s, ret, n).high = s.high /\ FlowopEnds(x, s, ret, n).moved = s.moved
<1> DEFINE c == [Count(s, ret, n) EXCEPT !.n = 0, !.stage = "begin"]
<1>1. c.high = s.high /\ c.moved = s.moved /\ {"high", "moved"} \subseteq DOMAIN c
  BY DEF Count, Strand
<1>2. FlowopEnds(x, s, ret, n) \in {[c EXCEPT !.result = "expired"], [c EXCEPT !.result = "failure"], NextFlowop(x, c)}
  BY DEF FlowopEnds, c
<1> HIDE DEF c
<1>3. NextFlowop(x, c) \in {[c EXCEPT !.at = @ + 1], [c EXCEPT !.at = 1, !.iter = @ + 1], [c EXCEPT !.result = "success"]}
  BY DEF NextFlowop
<1>4. \A v : [c EXCEPT !.result = v].high = c.high /\ [c EXCEPT !.result = v].moved = c.moved
  BY <1>1
<1>5. NextFlowop(x, c).high = c.high /\ NextFlowop(x, c).moved = c.moved
  <2> DEFINE v == c.at + 1
             u == c.iter + 1
             one == 1
  <2>1. NextFlowop(x, c) \in {[c EXCEPT !.at = v], [c EXCEPT !.at = one, !.iter = u], [c EXCEPT !.result = "success"]}
    BY <1>3
  <2> HIDE DEF v, u, one
  <2>2. CASE NextFlowop(x, c) = [c EXCEPT !.at = v]
    BY ONLY <1>1, <2>2
  <2>3. CASE NextFlowop(x, c) = [c EXCEPT !.at = one, !.iter = u]
    BY ONLY <1>1, <2>3
  <2>4. CASE NextFlowop(x, c) = [c EXCEPT !.result = "success"]
    BY ONLY <1>1, <2>4
  <2> QED BY ONLY <2>1, <2>2, <2>3, <2>4
<1>6. FlowopEnds(x, s, ret, n).high = c.high /\ FlowopEnds(x, s, ret, n).moved = c.moved
  BY <1>2, <1>4, <1>5, Zenon
<1> QED BY <1>1, <1>6

LEMMA ExecutedKeeps ==
  ASSUME NEW x \in Side, NEW s \in Strand, NEW r \in Int
  PROVE  Executed(x, s, r).high = s.high /\ Executed(x, s, r).moved = s.moved
<1> DEFINE ret == IF CurrentFlowop(x).canfail /\ r < 0 THEN 0 ELSE r
           t == [s EXCEPT !.n = @ + 1, !.stage = "begin"]
<1>1. ret \in Int /\ s.n \in Nat /\ s.n + 1 \in Nat
  BY DEF Strand
<1>2. Executed(x, s, r) \in {FlowopEnds(x, s, ret, s.n), FlowopEnds(x, s, ret, s.n + 1), t}
  BY <1>1 DEF Executed
<1>3. t.high = s.high /\ t.moved = s.moved
  BY DEF Strand
<1> HIDE DEF ret, t
<1> QED BY <1>1, <1>2, <1>3, FlowopEndsKeeps

LEMMA ExecutedFits ==
  ASSUME profile \in Profiles, NEW x \in Side, NEW s, Placed(x, s), s.result = "running",
         s.high <= GroupMaxDtoSize(x), NEW r \in Int
  PROVE  Buffered(x, Executed(x, s, r))
<1>1. s \in Strand
  BY DEF Placed
<1>2. Executed(x, s, r).stage = "begin" /\ Executed(x, s, r).high = s.high
  BY <1>1, ExecutedOK, ExecutedKeeps
<1> QED BY <1>2 DEF Buffered, InCall

\* The first call of an execution, and those for the rest of its size.
LEMMA CallFits ==
  ASSUME profile \in Profiles, NEW x \in Side, NEW s, Placed(x, s), s.result = "running", s.sz < s.size,
         FlowopAt(x, s).type \in Moving, WithinBuffer(x, s), s.high <= GroupMaxDtoSize(x)
  PROVE  Buffered(x, Call(s, FlowopAt(x, s)))
<1> DEFINE c == Call(s, FlowopAt(x, s))
<1>1. s.sz \in Nat /\ s.size \in Nat /\ GroupMaxDtoSize(x) \in Nat
  BY BufferSize DEF Placed, Strand
<1>2. /\ c.stage = FirstStage(FlowopAt(x, s)) /\ c.at = s.at /\ c.size = s.size /\ c.sz = s.sz
      /\ c.left = s.size - s.sz /\ c.high = s.high
  BY CallOK
<1> HIDE DEF c
<1>3. FlowopAt(x, c) = FlowopAt(x, s)
  BY <1>2 DEF FlowopAt
<1>4. c.stage = "first" => FlowopAt(x, c).nonblocking
  BY <1>2, <1>3 DEF FirstStage
<1>5. WithinBuffer(x, c)
  BY <1>2, <1>3 DEF WithinBuffer
<1>6. c.sz + c.left <= GroupMaxDtoSize(x)
  BY <1>1, <1>2 DEF WithinBuffer
<1>7. Buffered(x, c)
  BY <1>2, <1>4, <1>5, <1>6 DEF Buffered
<1> QED BY <1>7 DEF c

LEMMA ReturnedFits ==
  ASSUME profile \in Profiles, NEW x \in Side, NEW s, Placed(x, s), s.result = "running", s.sz < s.size,
         CurrentFlowop(x) = FlowopAt(x, s), FlowopAt(x, s).type \in Moving, NEW n \in Int,
         WithinBuffer(x, s), s.high <= GroupMaxDtoSize(x)
  PROVE  Buffered(x, Returned(x, s, n))
<1>1. s \in Strand /\ s.sz \in Nat /\ s.size \in Nat /\ s.at \in 1 .. Len(profile.flowops)
  BY DEF Placed, Strand
<1>2. CASE n = 0
  <2> DEFINE u == [s EXCEPT !.errno = "EINTR"]
  <2>1. u \in Strand /\ u.at = s.at /\ u.result = "running" /\ u.high = s.high
    BY <1>1 DEF Strand
  <2>2. Returned(x, s, n) = Executed(x, u, -1)
    BY <1>2 DEF Returned
  <2> HIDE DEF u
  <2>3. Placed(x, u) /\ -1 \in Int
    BY <1>1, <2>1 DEF Placed
  <2> QED BY <2>1, <2>2, <2>3, ExecutedFits
<1>3. CASE n < 0
  <2>1. Returned(x, s, n) = Executed(x, s, -1) /\ -1 \in Int
    BY <1>3 DEF Returned
  <2> QED BY <2>1, ExecutedFits
<1>4. CASE n > 0
  <2> DEFINE v == s.sz + n
             t == [s EXCEPT !.sz = v]
  <2>1. v \in Nat
    BY <1>1, <1>4
  <2>2. /\ t \in Strand /\ t.sz = v /\ t.at = s.at /\ t.result = "running" /\ t.size = s.size
        /\ t.high = s.high
    <3> HIDE DEF v
    <3> QED BY <1>1, <2>1 DEF Strand
  <2>3. Returned(x, s, n) = IF Loops(FlowopAt(x, s), t) THEN Call(t, FlowopAt(x, s)) ELSE Executed(x, t, t.sz)
    BY <1>4 DEF Returned
  <2> HIDE DEF t
  <2>4. Placed(x, t) /\ t.sz \in Int /\ FlowopAt(x, t) = FlowopAt(x, s)
    BY <1>1, <2>1, <2>2 DEF Placed, FlowopAt
  <2>5. CASE Loops(FlowopAt(x, s), t)
    <3>1. t.sz < t.size
      BY <2>5 DEF Loops
    <3>2. WithinBuffer(x, t)
      BY <2>2, <2>4 DEF WithinBuffer
    <3>3. Returned(x, s, n) = Call(t, FlowopAt(x, t))
      BY <2>3, <2>4, <2>5
    <3> QED BY <2>2, <2>4, <3>1, <3>2, <3>3, CallFits
  <2>6. CASE ~Loops(FlowopAt(x, s), t)
    <3>1. Returned(x, s, n) = Executed(x, t, t.sz)
      BY <2>3, <2>6
    <3> QED BY <2>2, <2>4, <3>1, ExecutedFits
  <2> QED BY <2>5, <2>6
<1> QED BY <1>2, <1>3, <1>4

LEMMA RepeatFits ==
  ASSUME profile \in Profiles, NEW x \in Side, NEW s, Placed(x, s), s.result = "running", s.sz < s.size,
         CurrentFlowop(x) = FlowopAt(x, s), FlowopAt(x, s).type \in Moving,
         WithinBuffer(x, s), s.high <= GroupMaxDtoSize(x)
  PROVE  Buffered(x, Repeat(x, s))
<1>1. s \in Strand /\ s.sz \in Nat /\ s.size \in Nat /\ s.rep \in Nat /\ s.total \in Int
      /\ s.at \in 1 .. Len(profile.flowops) /\ GroupMaxDtoSize(x) \in Nat
  BY BufferSize DEF Placed, Strand
<1>2. CASE s.rep + 1 < Repeats(CurrentFlowop(x))
  <2> DEFINE rep == s.rep + 1
             rest == s.size - s.sz
             stage == FirstStage(FlowopAt(x, s))
             c == [s EXCEPT !.rep = rep, !.left = rest, !.stage = stage]
  <2>1. Repeat(x, s) = c
    BY <1>2 DEF Repeat
  <2>2. rest = s.size - s.sz /\ (stage = "first" => FlowopAt(x, s).nonblocking)
    BY DEF FirstStage
  <2> HIDE DEF rep, rest, stage
  <2>3. /\ c.left = rest /\ c.stage = stage /\ c.at = s.at /\ c.size = s.size /\ c.sz = s.sz
        /\ c.high = s.high
    BY <1>1 DEF Strand
  <2> HIDE DEF c
  <2>4. FlowopAt(x, c) = FlowopAt(x, s)
    BY <2>3 DEF FlowopAt
  <2>5. WithinBuffer(x, c)
    BY <2>3, <2>4 DEF WithinBuffer
  <2>6. c.sz + c.left <= GroupMaxDtoSize(x)
    BY <1>1, <2>2, <2>3 DEF WithinBuffer
  <2> QED BY <2>1, <2>2, <2>3, <2>4, <2>5, <2>6 DEF Buffered
<1>3. CASE ~(s.rep + 1 < Repeats(CurrentFlowop(x)))
  <2>1. Repeat(x, s) = Returned(x, s, s.total)
    BY <1>3 DEF Repeat
  <2> QED BY <1>1, <2>1, ReturnedFits
<1> QED BY <1>2, <1>3

BufferInv == TypeInv /\ \A x \in Side : Buffered(x, st[x])

\* A call that moved no more than was left has stayed within the buffer.
LEMMA MovedFits ==
  ASSUME BufferInv, NEW x \in Side, InCall(st[x]), CurrentFlowop(x).type \in Moving,
         NEW n \in Nat, n <= st[x].left
  PROVE  /\ WithinBuffer(x, Moved(x, n)) /\ Moved(x, n).high <= GroupMaxDtoSize(x)
         /\ Buffered(x, Repeat(x, Moved(x, n)))
<1> DEFINE s == st[x]
           m == Moved(x, n)
           G == GroupMaxDtoSize(x)
<1>1. /\ profile \in Profiles /\ s \in Strand /\ CurrentFlowop(x) = FlowopAt(x, s) /\ G \in Nat
      /\ s.high \in Nat /\ s.sz \in Nat /\ s.left \in Nat
  <2>1. TypeInv
    BY DEF BufferInv
  <2> QED BY <2>1, StrandOfSide, BufferSize DEF Strand
<1>2. s.high <= G /\ WithinBuffer(x, s) /\ s.sz + s.left <= G
  BY <1>1 DEF BufferInv, Buffered
<1>3. /\ m.high = IF OwnBuffer(CurrentFlowop(x)) THEN s.high ELSE Max({s.high, s.sz + n})
      /\ m.at = s.at /\ m.size = s.size /\ m.sz = s.sz
  BY <1>1, MovedFields
<1>4. Max({s.high, s.sz + n}) <= G
  <2>1. Max({s.high, s.sz + n}) \in {s.high, s.sz + n}
    BY <1>1, MaxOfTwo
  <2> QED BY <1>1, <1>2, <2>1
<1>5. Placed(x, m) /\ m.result = "running" /\ m.sz < m.size /\ FlowopAt(x, m) = CurrentFlowop(x)
  BY WithinCall DEF BufferInv
<1>6. m.high <= G
  BY <1>2, <1>3, <1>4
<1> HIDE DEF m
<1>7. WithinBuffer(x, m)
  BY <1>1, <1>2, <1>3, <1>5 DEF WithinBuffer
<1>8. Buffered(x, Repeat(x, m))
  BY <1>1, <1>5, <1>6, <1>7, RepeatFits
<1> QED BY <1>6, <1>7, <1>8 DEF m

\* A step of one strand.
LEMMA BecomesFits ==
  ASSUME BufferInv, NEW x \in Side, NEW s, Buffered(x, s), Becomes(x, s), profile' = profile, TypeInv'
  PROVE  BufferInv'
<1>1. st \in [Side -> Strand]
  BY DEF BufferInv, TypeInv, TypeOK
<1>2. \A y \in Side : Buffered(y, st'[y])
  BY <1>1 DEF Becomes, BufferInv
<1>3. \A y \in Side : Buffered(y, st[y])'
  BY <1>2 DEF Buffered, WithinBuffer, FlowopAt, Txn, GroupMaxDtoSize
<1> QED BY <1>3 DEF BufferInv

\* The start of an execution.
LEMMA ExecuteFits ==
  ASSUME BufferInv, SizesAreGiven, BufferIsEnough, NEW x \in Side, Execute(x)
  PROVE  BufferInv'
<1> DEFINE s == st[x]
           f == CurrentFlowop(x)
<1>1. TypeInv /\ TypeInv' /\ profile' = profile
  BY ExecuteOK DEF BufferInv, Execute
<1>2. /\ profile \in Profiles /\ Placed(x, s) /\ s \in Strand /\ f = FlowopAt(x, s) /\ f \in Flowop
      /\ s.result = "running" /\ s.stage = "begin" /\ s.high <= GroupMaxDtoSize(x)
  BY <1>1, StrandOfSide DEF Execute, Runs, BufferInv, Buffered
<1>3. \E t : Buffered(x, t) /\ Becomes(x, t)
  <2>1. CASE f.count = 0
    <3>1. Becomes(x, FlowopEnds(x, s, 0, 0))
      BY <2>1 DEF Execute
    <3>2. FlowopEnds(x, s, 0, 0).stage = "begin" /\ FlowopEnds(x, s, 0, 0).high = s.high
      BY <1>2, FlowopEndsOK, FlowopEndsKeeps
    <3>3. Buffered(x, FlowopEnds(x, s, 0, 0))
      BY <1>2, <3>2 DEF Buffered, InCall
    <3> QED BY <3>1, <3>3
  <2>2. CASE f.count # 0 /\ (f.type = "nop" \/ (f.type = "disconnect" /\ open[x]))
    <3>1. Becomes(x, Executed(x, s, 0))
      BY <2>2 DEF Execute
    <3>2. Buffered(x, Executed(x, s, 0))
      BY <1>2, ExecutedFits
    <3> QED BY <3>1, <3>2
  <2>3. CASE f.count # 0 /\ f.type = "sendfile" /\ open[x]
    <3> DEFINE size == FileSize
               zero == 0
               t == [s EXCEPT !.size = size, !.sz = zero, !.stage = "rest"]
    <3>1. Becomes(x, t)
      BY <2>3 DEF Execute
    <3> HIDE DEF size, zero
    <3>2. t.high = s.high /\ t.at = s.at
      BY <1>2 DEF Strand
    <3> HIDE DEF t
    <3>3. FlowopAt(x, t).type = "sendfile"
      BY <1>2, <2>3, <3>2 DEF FlowopAt
    <3>4. Buffered(x, t)
      BY <1>2, <3>2, <3>3 DEF Buffered, Moving
    <3> QED BY <3>1, <3>4
  <2>4. CASE f.count # 0 /\ f.type # "nop" /\ ~open[x]
    <3> DEFINE u == [s EXCEPT !.errno = "EINTR"]
    <3>1. Becomes(x, Executed(x, IF f.type = "disconnect" THEN u ELSE s, -1))
      BY <2>4 DEF Execute
    <3>2. Buffered(x, Executed(x, s, -1))
      BY <1>2, ExecutedFits
    <3>3. u \in Strand /\ u.at = s.at /\ u.result = "running" /\ u.high = s.high
      BY <1>2 DEF Strand
    <3> HIDE DEF u
    <3>4. Placed(x, u)
      BY <1>2, <3>3 DEF Placed
    <3>5. Buffered(x, Executed(x, u, -1))
      BY <1>2, <3>3, <3>4, ExecutedFits
    <3>6. \E t : Buffered(x, t) /\ t = Executed(x, IF f.type = "disconnect" THEN u ELSE s, -1)
      BY ONLY <3>2, <3>5
    <3> HIDE DEF f, s
    <3> QED BY ONLY <3>1, <3>6
  <2>5. CASE f.count # 0 /\ f.type \notin {"nop", "disconnect", "sendfile"} /\ open[x]
    <3>1. f.type \in Moving
      BY <1>2, <2>5, FlowopFields DEF FlowopType, Transmits, Moving
    <3>2. IF Supported(f) THEN \E n \in Sizes(f) : Becomes(x, Call([s EXCEPT !.size = n, !.sz = 0], f))
          ELSE Becomes(x, Executed(x, s, -1))
      BY <2>5 DEF Execute
    <3>3. CASE Supported(f)
      <4> DEFINE zero == 0
      <4>1. PICK n \in Sizes(f) : Becomes(x, Call([s EXCEPT !.size = n, !.sz = 0], f))
        BY <3>2, <3>3
      <4>2. /\ n \in Nat /\ n > 0 /\ n <= GroupMaxDtoSize(x)
            /\ profile.proto = "udp" /\ f.nonblocking => n < GroupMaxDtoSize(x)
        <5>1. s.at \in 1 .. Len(profile.flowops) /\ f = Txn(x).flowops[s.at]
          BY <1>2 DEF Placed, FlowopAt
        <5> HIDE DEF f, s
        <5> QED BY <1>2, <3>1, <5>1, SizesArePositive, SizesFit
      <4> DEFINE t == [s EXCEPT !.size = n, !.sz = zero]
      <4>3. zero \in Nat /\ zero < n
        BY <4>2
      <4>4. t \in Strand /\ t.size = n /\ t.sz = zero /\ t.at = s.at /\ t.result = "running" /\ t.high = s.high
        <5> HIDE DEF zero
        <5> QED BY <1>2, <4>2, <4>3 DEF Strand
      <4>5. Becomes(x, Call(t, f))
        BY <4>1
      <4> HIDE DEF t, zero
      <4>6. Placed(x, t) /\ FlowopAt(x, t) = f /\ t.sz < t.size
        BY <1>2, <4>3, <4>4 DEF Placed, FlowopAt
      <4> HIDE DEF f
      <4>7. WithinBuffer(x, t)
        BY <4>2, <4>4, <4>6 DEF WithinBuffer
      <4>8. Buffered(x, Call(t, f))
        BY <1>2, <3>1, <4>4, <4>6, <4>7, CallFits
      <4> QED BY <4>5, <4>8
    <3>4. CASE ~Supported(f)
      <4>1. Buffered(x, Executed(x, s, -1))
        BY <1>2, ExecutedFits
      <4> HIDE DEF f, s
      <4>2. Becomes(x, Executed(x, s, -1))
        BY ONLY <3>2, <3>4
      <4> QED BY ONLY <4>1, <4>2
    <3> QED BY <3>3, <3>4
  <2>6. open[x] \in BOOLEAN
    BY <1>1 DEF TypeInv, TypeOK
  <2> QED BY <2>1, <2>2, <2>3, <2>4, <2>5, <2>6
<1> QED BY <1>1, <1>3, BecomesFits

\* What a strand in a call may rely on.
LEMMA CallIsBuffered ==
  ASSUME BufferInv, NEW x \in Side, InCall(st[x]), CurrentFlowop(x).type \in Moving
  PROVE  /\ TypeInv /\ profile \in Profiles /\ Placed(x, st[x]) /\ st[x] \in Strand
         /\ CurrentFlowop(x) = FlowopAt(x, st[x]) /\ st[x].result = "running"
         /\ st[x].sz < st[x].size /\ st[x].left \in Nat \ {0}
         /\ st[x].sz \in Nat /\ st[x].size \in Nat /\ GroupMaxDtoSize(x) \in Nat
         /\ WithinBuffer(x, st[x]) /\ st[x].high <= GroupMaxDtoSize(x)
         /\ st[x].sz + st[x].left <= GroupMaxDtoSize(x)
         /\ st[x].stage = "first" =>
              /\ st[x].left = st[x].size - st[x].sz /\ FlowopAt(x, st[x]).nonblocking
              /\ profile.proto = "udp"
<1>1. TypeInv /\ Buffered(x, st[x])
  BY DEF BufferInv
<1>2. /\ profile \in Profiles /\ Placed(x, st[x]) /\ st[x] \in Strand
      /\ CurrentFlowop(x) = FlowopAt(x, st[x])
  BY <1>1, StrandOfSide
<1>3. /\ st[x].sz < st[x].size /\ st[x].left \in Nat \ {0} /\ st[x].sz \in Nat /\ st[x].size \in Nat
      /\ st[x].stage = "first" => profile.proto = "udp"
  BY <1>1, WithinCall
<1>4. GroupMaxDtoSize(x) \in Nat
  BY <1>2, BufferSize
<1> QED BY <1>1, <1>2, <1>3, <1>4 DEF Buffered, InCall

\* The first attempt of a read: one byte more after EWOULDBLOCK.
LEMMA FirstReadFits ==
  ASSUME BufferInv, NEW x \in Side, FirstRead(x)
  PROVE  BufferInv'
<1> DEFINE s == st[x]
<1>1. /\ s.result = "running" /\ s.stage = "first" /\ IsRead(CurrentFlowop(x)) /\ profile' = profile
  BY DEF FirstRead, Runs
<1>2. InCall(s) /\ CurrentFlowop(x).type \in Moving
  BY <1>1 DEF InCall, IsRead, Moving
<1>3. /\ TypeInv /\ profile \in Profiles /\ Placed(x, s) /\ s \in Strand /\ CurrentFlowop(x) = FlowopAt(x, s)
      /\ s.sz < s.size /\ s.left \in Nat \ {0} /\ s.sz \in Nat /\ s.size \in Nat
      /\ GroupMaxDtoSize(x) \in Nat /\ WithinBuffer(x, s) /\ s.high <= GroupMaxDtoSize(x)
      /\ s.left = s.size - s.sz /\ FlowopAt(x, s).nonblocking /\ profile.proto = "udp"
  BY <1>1, <1>2, CallIsBuffered
<1>4. TypeInv'
  BY <1>3, FirstReadOK
<1>5. CASE wire[x] = <<>>
  <2> DEFINE left == Left(s.left, -1)
             t == [s EXCEPT !.left = left, !.errno = "EAGAIN", !.stage = "rest"]
  <2>1. Becomes(x, t)
    BY <1>5 DEF FirstRead
  <2>2. left = s.left + 1
    BY <1>3 DEF Left
  <2> HIDE DEF left
  <2>3. t.left = left /\ t.at = s.at /\ t.sz = s.sz /\ t.size = s.size /\ t.high = s.high /\ t.stage = "rest"
    BY <1>3 DEF Strand
  <2> HIDE DEF t
  <2>4. FlowopAt(x, t) = FlowopAt(x, s)
    BY <2>3 DEF FlowopAt
  <2>5. WithinBuffer(x, t) /\ t.sz + t.left <= GroupMaxDtoSize(x)
    BY <1>3, <2>2, <2>3, <2>4 DEF WithinBuffer
  <2>6. Buffered(x, t)
    BY <1>3, <2>3, <2>5 DEF Buffered
  <2> QED BY <1>1, <1>4, <2>1, <2>6, BecomesFits
<1>6. CASE wire[x] # <<>>
  <2>1. PICK t \in Takes(wire[x], s.left) :
          LET m == [Moved(x, t.got) EXCEPT !.left = Left(@, t.got), !.stage = "rest"]
          IN Becomes(x, IF m.left > 0 THEN m ELSE Repeat(x, m))
    BY <1>6 DEF FirstRead
  <2>2. t.got \in Nat \ {0} /\ t.got <= s.left
    BY <1>3, <1>6, TakesSome, Frame
  <2> DEFINE v == Moved(x, t.got)
             left == Left(v.left, t.got)
             m == [v EXCEPT !.left = left, !.stage = "rest"]
  <2>3. Becomes(x, IF m.left > 0 THEN m ELSE Repeat(x, m))
    BY <2>1
  <2>4. v \in Strand /\ v.left = s.left /\ v.at = s.at /\ v.sz = s.sz /\ v.size = s.size /\ v.result = "running"
    BY <1>1, <1>3, <2>2, MovedFields
  <2>5. v.high <= GroupMaxDtoSize(x)
    BY <1>2, <2>2, MovedFits
  <2>6. left \in Nat /\ left <= s.left
    BY <1>3, <2>2, <2>4 DEF Left
  <2> HIDE DEF v, left
  <2>7. /\ m \in Strand /\ m.left = left /\ m.stage = "rest" /\ m.at = s.at /\ m.sz = s.sz /\ m.size = s.size
        /\ m.result = "running" /\ m.high = v.high
    BY <2>4, <2>6 DEF Strand
  <2> HIDE DEF m
  <2>8. FlowopAt(x, m) = FlowopAt(x, s) /\ Placed(x, m)
    BY <1>3, <2>7 DEF FlowopAt, Placed
  <2>9. WithinBuffer(x, m) /\ m.sz + m.left <= GroupMaxDtoSize(x) /\ m.high <= GroupMaxDtoSize(x)
    BY <1>3, <2>5, <2>6, <2>7, <2>8 DEF WithinBuffer
  <2>10. Buffered(x, m)
    BY <2>7, <2>9 DEF Buffered
  <2>11. Buffered(x, Repeat(x, m))
    BY <1>2, <1>3, <2>7, <2>8, <2>9, RepeatFits
  <2>12. Buffered(x, IF m.left > 0 THEN m ELSE Repeat(x, m))
    BY ONLY <2>10, <2>11
  <2> QED BY <1>1, <1>4, <2>3, <2>12, BecomesFits
<1> QED BY <1>5, <1>6

\* The read that waits.
LEMMA ReadFits ==
  ASSUME BufferInv, NEW x \in Side, Read(x)
  PROVE  BufferInv'
<1>1. /\ st[x].result = "running" /\ IsRead(CurrentFlowop(x)) /\ st[x].stage = "rest" /\ wire[x] # <<>>
      /\ profile' = profile
  BY DEF Read, Runs
<1>2. InCall(st[x]) /\ CurrentFlowop(x).type \in Moving
  BY <1>1 DEF InCall, IsRead, Moving
<1>3. TypeInv /\ st[x].left \in Nat \ {0}
  BY <1>2, CallIsBuffered
<1>4. PICK t \in Takes(wire[x], st[x].left) : Becomes(x, Repeat(x, Moved(x, t.got)))
  BY DEF Read
<1>5. t.got \in Nat \ {0} /\ t.got <= st[x].left
  BY <1>1, <1>3, TakesSome, Frame
<1>6. Buffered(x, Repeat(x, Moved(x, t.got)))
  BY <1>2, <1>5, MovedFits
<1> QED BY <1>1, <1>3, <1>4, <1>6, ReadOK, BecomesFits

\* The two writes.
LEMMA WritesFit ==
  ASSUME BufferInv, NEW x \in Side, FirstWrite(x) \/ Write(x)
  PROVE  BufferInv'
<1> DEFINE s == st[x]
           room == Room(wire[Peer(x)])
           t == [s EXCEPT !.errno = "EAGAIN", !.stage = "rest"]
<1>1. /\ s.result = "running" /\ s.stage # "begin" /\ CurrentFlowop(x).type \in {"write", "send"}
      /\ profile' = profile
  BY DEF FirstWrite, Write, Runs
<1>2. InCall(s) /\ CurrentFlowop(x).type \in Moving
  BY <1>1 DEF InCall, Moving
<1>3. /\ TypeInv /\ s \in Strand /\ s.left \in Nat \ {0} /\ s.sz \in Nat /\ s.size \in Nat
      /\ GroupMaxDtoSize(x) \in Nat /\ WithinBuffer(x, s) /\ s.high <= GroupMaxDtoSize(x)
      /\ s.sz + s.left <= GroupMaxDtoSize(x)
  BY <1>2, CallIsBuffered
<1>4. TypeInv'
  BY <1>3, FirstWriteOK, WriteOK
<1>5. \E u : Buffered(x, u) /\ Becomes(x, u)
  <2>1. CASE Becomes(x, Repeat(x, Moved(x, s.left)))
    <3>1. Buffered(x, Repeat(x, Moved(x, s.left)))
      BY <1>2, <1>3, MovedFits
    <3> QED BY <2>1, <3>1
  <2>2. CASE Becomes(x, t)
    <3>1. t.left = s.left /\ t.at = s.at /\ t.sz = s.sz /\ t.size = s.size /\ t.high = s.high /\ t.stage = "rest"
      BY <1>3 DEF Strand
    <3> HIDE DEF t
    <3>2. FlowopAt(x, t) = FlowopAt(x, s)
      BY <3>1 DEF FlowopAt
    <3>3. Buffered(x, t)
      BY <1>3, <3>1, <3>2 DEF Buffered, WithinBuffer
    <3> QED BY <2>2, <3>3
  <2>3. CASE Write(x)
    <3>1. PICK n \in IF Stream THEN 1 .. Min({s.left, room}) ELSE {s.left} :
            Becomes(x, Repeat(x, Moved(x, n)))
      BY <2>3 DEF Write
    <3>2. room \in Nat \ {0}
      BY <1>3, <2>3, RoomIsNat, Frame DEF Write
    <3>3. n \in Nat /\ n <= s.left
      <4>1. Min({s.left, room}) \in Nat /\ Min({s.left, room}) <= s.left
        BY <1>3, <3>2, MinOfTwo
      <4> QED BY <1>3, <3>1, <4>1
    <3>4. Buffered(x, Repeat(x, Moved(x, n)))
      BY <1>2, <3>3, MovedFits
    <3> QED BY <3>1, <3>4
  <2> QED BY <2>1, <2>2, <2>3 DEF FirstWrite
<1> QED BY <1>1, <1>4, <1>5, BecomesFits

\* Nothing was moved.
LEMMA HangUpFits ==
  ASSUME BufferInv, NEW x \in Side, HangUp(x)
  PROVE  BufferInv'
<1>1. /\ st[x].result = "running" /\ st[x].stage = "rest" /\ IsRead(CurrentFlowop(x))
      /\ Becomes(x, Returned(x, st[x], st[x].total)) /\ profile' = profile
  BY DEF HangUp, Runs
<1>2. InCall(st[x]) /\ CurrentFlowop(x).type \in Moving
  BY <1>1 DEF InCall, IsRead, Moving
<1>3. st[x].total \in Int
  BY <1>2, CallIsBuffered DEF Strand
<1>4. Buffered(x, Returned(x, st[x], st[x].total))
  BY <1>2, <1>3, CallIsBuffered, ReturnedFits
<1>5. TypeInv'
  BY HangUpOK DEF BufferInv
<1> QED BY <1>1, <1>4, <1>5, BecomesFits

LEMMA GivesUpFits ==
  ASSUME BufferInv, NEW x \in Side, GivesUp(x)
  PROVE  BufferInv'
<1> DEFINE s == st[x]
           u == [s EXCEPT !.errno = "EAGAIN"]
<1>1. /\ s.result = "running" /\ s.stage = "rest" /\ IsRead(CurrentFlowop(x))
      /\ Becomes(x, Returned(x, s, -1)) \/ Becomes(x, Returned(x, u, -1))
      /\ profile' = profile
  BY DEF GivesUp, Runs
<1>2. InCall(s) /\ CurrentFlowop(x).type \in Moving /\ -1 \in Int
  BY <1>1 DEF InCall, IsRead, Moving
<1>3. /\ profile \in Profiles /\ Placed(x, s) /\ s \in Strand /\ CurrentFlowop(x) = FlowopAt(x, s)
      /\ s.sz < s.size /\ WithinBuffer(x, s) /\ s.high <= GroupMaxDtoSize(x)
  BY <1>2, CallIsBuffered
<1>4. Buffered(x, Returned(x, s, -1))
  BY <1>1, <1>2, <1>3, ReturnedFits
<1>5. u \in Strand /\ u.at = s.at /\ u.sz = s.sz /\ u.size = s.size /\ u.result = "running" /\ u.high = s.high
  BY <1>1, <1>3 DEF Strand
<1> HIDE DEF u
<1>6. Placed(x, u) /\ FlowopAt(x, u) = FlowopAt(x, s)
  BY <1>3, <1>5 DEF Placed, FlowopAt
<1>7. WithinBuffer(x, u)
  BY <1>3, <1>5, <1>6 DEF WithinBuffer
<1>8. Buffered(x, Returned(x, u, -1))
  BY <1>2, <1>3, <1>5, <1>6, <1>7, ReturnedFits
<1>9. TypeInv'
  BY GivesUpOK DEF BufferInv
<1> QED BY <1>1, <1>4, <1>8, <1>9, BecomesFits

LEMMA WriteFailsFits ==
  ASSUME BufferInv, NEW x \in Side, WriteFails(x)
  PROVE  BufferInv'
<1> DEFINE s == st[x]
           u == [s EXCEPT !.errno = "other"]
           f == CurrentFlowop(x)
<1>1. /\ s.result = "running" /\ s.stage = "rest" /\ f.type \in Transmits /\ profile' = profile
      /\ \/ /\ profile.proto # "udp"
            /\ Becomes(x, IF f.type = "sendfile" THEN Executed(x, u, -1) ELSE Returned(x, u, -1))
         \/ profile.proto = "udp" /\ f.nonblocking /\ Becomes(x, Returned(x, s, -1))
  BY DEF WriteFails, Runs
<1>2. InCall(s)
  BY <1>1 DEF InCall
<1>3. /\ profile \in Profiles /\ Placed(x, s) /\ s \in Strand /\ f = FlowopAt(x, s)
      /\ s.high <= GroupMaxDtoSize(x)
  BY StrandOfSide DEF BufferInv, Buffered
<1>4. /\ u \in Strand /\ u.at = s.at /\ u.sz = s.sz /\ u.size = s.size /\ u.result = "running"
      /\ u.high = s.high /\ -1 \in Int
  BY <1>1, <1>3 DEF Strand
<1> HIDE DEF u
<1>5. Placed(x, u) /\ FlowopAt(x, u) = FlowopAt(x, s)
  BY <1>3, <1>4 DEF Placed, FlowopAt
<1>6. TypeInv'
  BY WriteFailsOK DEF BufferInv
<1>7. CASE f.type = "sendfile" /\ profile.proto # "udp"
  <2>1. Buffered(x, Executed(x, u, -1))
    BY <1>3, <1>4, <1>5, ExecutedFits
  <2> QED BY <1>1, <1>6, <1>7, <2>1, BecomesFits
<1>8. CASE f.type # "sendfile"
  <2>1. f.type \in Moving
    BY <1>1, <1>8 DEF Transmits, Moving
  <2>2. s.sz < s.size /\ WithinBuffer(x, s)
    BY <1>2, <2>1, CallIsBuffered
  <2>3. WithinBuffer(x, u)
    BY <1>4, <1>5, <2>2 DEF WithinBuffer
  <2>4. Buffered(x, Returned(x, u, -1)) /\ Buffered(x, Returned(x, s, -1))
    BY <1>1, <1>3, <1>4, <1>5, <2>1, <2>2, <2>3, ReturnedFits
  <2> QED BY <1>1, <1>6, <1>8, <2>4, BecomesFits
<1>9. CASE f.type = "sendfile" /\ profile.proto = "udp"
  <2>1. Returned(x, s, -1) = Executed(x, s, -1)
    BY DEF Returned
  <2>2. Buffered(x, Executed(x, s, -1))
    BY <1>1, <1>3, <1>4, ExecutedFits
  <2> QED BY <1>1, <1>6, <1>9, <2>1, <2>2, BecomesFits
<1> QED BY <1>7, <1>8, <1>9

\* The file does not go through the buffer.
LEMMA SendFileFits ==
  ASSUME BufferInv, NEW x \in Side, SendFile(x)
  PROVE  BufferInv'
<1> DEFINE s == st[x]
           f == CurrentFlowop(x)
           room == Room(wire[Peer(x)])
           chunk == IF f.size = 0 THEN FileSize ELSE f.size
<1>1. s.result = "running" /\ s.stage = "rest" /\ f.type = "sendfile" /\ profile' = profile
  BY DEF SendFile, Runs
<1>2. /\ profile \in Profiles /\ Placed(x, s) /\ s \in Strand /\ f = FlowopAt(x, s)
      /\ s.high <= GroupMaxDtoSize(x) /\ s.sz \in Nat /\ s.moved \in Nat
  BY StrandOfSide DEF BufferInv, Buffered, Strand
<1>3. TypeInv'
  BY SendFileOK DEF BufferInv
<1>4. PICK n \in 1 .. Min({chunk, FileSize - s.sz, room}) :
        LET t == [s EXCEPT !.sz = @ + n, !.moved = @ + n]
        IN Becomes(x, IF t.sz < FileSize /\ f.size > 0 THEN t ELSE Executed(x, t, t.sz))
  BY DEF SendFile
<1>5. n \in Nat
  <2> DEFINE b == Min({chunk, FileSize - s.sz, room})
  <2>1. n \in 1 .. b
    BY <1>4
  <2> HIDE DEF b
  <2> QED BY <2>1
<1> DEFINE sz == s.sz + n
           moved == s.moved + n
           t == [s EXCEPT !.sz = sz, !.moved = moved]
<1>6. Becomes(x, IF t.sz < FileSize /\ f.size > 0 THEN t ELSE Executed(x, t, t.sz))
  BY <1>4
<1>7. sz \in Nat /\ moved \in Nat
  BY <1>2, <1>5
<1>8. t \in Strand /\ t.sz = sz /\ t.at = s.at /\ t.result = "running" /\ t.high = s.high
  <2> HIDE DEF sz, moved
  <2> QED BY <1>1, <1>2, <1>7 DEF Strand
<1> HIDE DEF t, sz, moved
<1>9. Placed(x, t) /\ FlowopAt(x, t).type = "sendfile" /\ t.sz \in Int
  BY <1>1, <1>2, <1>7, <1>8 DEF Placed, FlowopAt
<1>10. Buffered(x, Executed(x, t, t.sz))
  BY <1>2, <1>8, <1>9, ExecutedFits
<1>11. Buffered(x, t)
  BY <1>2, <1>8, <1>9 DEF Buffered, Moving
<1>12. Buffered(x, IF t.sz < FileSize /\ f.size > 0 THEN t ELSE Executed(x, t, t.sz))
  BY ONLY <1>10, <1>11
<1> QED BY <1>1, <1>3, <1>6, <1>12, BecomesFits

LEMMA StepFits ==
  ASSUME BufferInv, SizesAreGiven, BufferIsEnough, [Next]_vars
  PROVE  BufferInv'
<1>1. TypeInv'
  BY StepOK DEF BufferInv
<1>2. ASSUME profile' = profile, st' = st PROVE BufferInv'
  <2>1. \A y \in Side : Buffered(y, st[y])'
    BY <1>2 DEF BufferInv, Buffered, WithinBuffer, FlowopAt, Txn, GroupMaxDtoSize
  <2> QED BY <1>1, <2>1 DEF BufferInv
<1>3. ASSUME UNCHANGED vars PROVE BufferInv'
  BY <1>2, <1>3 DEF vars
<1>4. ASSUME NEW x \in Side, Step(x) PROVE BufferInv'
  BY <1>4, ExecuteFits, FirstReadFits, ReadFits, HangUpFits, GivesUpFits, WritesFit, WriteFailsFits,
     SendFileFits DEF Step
<1>5. ASSUME NEW x \in Side, Lose(x) PROVE BufferInv'
  BY <1>2, <1>5 DEF Lose
<1> QED BY <1>3, <1>4, <1>5 DEF Next, Stopped

-----------------------------------------------------------------------------
\* What is read or written stays within s->buffer, however the calls fall short of what they
\* were asked for, if what is received at random is not larger than the default and a UDP socket
\* that does not block has a byte to spare (group_max_dto_size, flowop_rw, protocol_udp_read).
THEOREM BufferFits == SizesAreGiven /\ BufferIsEnough /\ Spec => []FitsBuffer
<1>1. Init => BufferInv
  <2>1. SUFFICES ASSUME Init PROVE BufferInv
    OBVIOUS
  <2>2. TypeInv
    BY <2>1, InitOK
  <2>3. \A x \in Side : GroupMaxDtoSize(x) \in Nat
    BY <2>2, BufferSize, StrandOfSide
  <2>4. \A x \in Side : st[x].high = 0 /\ st[x].stage = "begin"
    BY <2>1 DEF Init
  <2> QED BY <2>2, <2>3, <2>4 DEF BufferInv, Buffered, InCall
<1>2. /\ SizesAreGiven /\ BufferIsEnough /\ BufferInv /\ [Next]_vars
      => SizesAreGiven' /\ BufferIsEnough' /\ BufferInv'
  BY StepFits DEF SizesAreGiven, BufferIsEnough
<1>3. BufferInv => FitsBuffer
  BY DEF BufferInv, Buffered, FitsBuffer
<1> QED BY <1>1, <1>2, <1>3, PTL DEF Spec

-----------------------------------------------------------------------------
(* What is counted                                                          *)

\* Executions of one flowop that move the same number of bytes: stats_update multiplies what the
\* last one returned.  Repetitions, batches and the byte too many of a socket that does not block
\* make them differ, and so does a sendfile without a size, which may be short.
EvenExecutions ==
  \A p \in Profiles : \A i \in DOMAIN p.flowops :
    LET f == p.flowops[i]
    IN f.count > 1 =>
         /\ p.proto = "udp" => f.repeat = 1 /\ ~f.nonblocking
         /\ p.proto = "sctp" => f.repeat = 1 /\ f.batch = 1
         /\ f.type = "sendfile" => f.size > 0

\* The profiles that CountedIsMoved is about.
Plain == \A i \in DOMAIN profile.flowops : ~profile.flowops[i].random /\ ~profile.flowops[i].canfail

Even(f) ==
  f.count > 1 => FirstStage(f) = "rest" /\ Repeats(f) = 1 /\ (f.type = "sendfile" => f.size > 0)

\* A strand at a flowop of a plain profile, of which CurrentFlowop speaks.
Steady(x, s) ==
  /\ Placed(x, s) /\ s.result = "running" /\ CurrentFlowop(x) = FlowopAt(x, s)
  /\ ~FlowopAt(x, s).random /\ ~FlowopAt(x, s).canfail /\ Even(FlowopAt(x, s))

\* What one execution moves.
Each(f) == IF f.type = "sendfile" THEN FileSize ELSE IF f.type \in Moving THEN f.size ELSE 0

\* What the earlier executions of the flowop have moved.
Earlier(x, s) == s.n * Each(FlowopAt(x, s))

\* The strand is in an execution that has moved r bytes.
Owes(x, s, r) ==
  /\ FlowopAt(x, s).count # 0
  /\ FlowopAt(x, s).count = 1 => s.n = 0
  /\ s.moved = s.counted + Earlier(x, s) + r

Exact(x, s) ==
  /\ s.result = "success" => s.counted = s.moved
  /\ s.result = "running" /\ s.stage = "begin" =>
       /\ FlowopAt(x, s).count \in {0, 1} => s.n = 0
       /\ s.moved = s.counted + Earlier(x, s)
  /\ InCall(s) =>
       /\ Owes(x, s, s.sz + (IF FlowopAt(x, s).type = "sendfile" THEN 0 ELSE s.total))
       /\ FlowopAt(x, s).count > 1 =>
            /\ s.size = Each(FlowopAt(x, s)) /\ s.stage = "rest"
            /\ FlowopAt(x, s).type \in Moving => s.total = 0 /\ s.sz + s.left <= s.size

\* The flowops of a plain profile, and the slave's.
LEMMA PlainFlowop ==
  ASSUME profile \in Profiles, EvenExecutions, Plain, NEW x \in Side, NEW i \in 1 .. Len(profile.flowops)
  PROVE  /\ Txn(x).flowops[i] \in Flowop
         /\ ~Txn(x).flowops[i].random /\ ~Txn(x).flowops[i].canfail /\ Even(Txn(x).flowops[i])
<1> DEFINE p == profile.flowops[i]
           f == Txn(x).flowops[i]
<1>1. /\ p \in Flowop /\ f \in Flowop /\ f = IF x = "master" THEN p ELSE Optimized(Mirrored(p))
      /\ profile.proto \in {"tcp", "ssl", "sctp", "udp"} /\ i \in DOMAIN profile.flowops
  BY ProfileFields, TxnFacts
<1>2. /\ ~p.random /\ ~p.canfail
      /\ p.count > 1 =>
           /\ profile.proto = "udp" => p.repeat = 1 /\ ~p.nonblocking
           /\ profile.proto = "sctp" => p.repeat = 1 /\ p.batch = 1
           /\ p.type = "sendfile" => p.size > 0
  BY <1>1 DEF Plain, EvenExecutions
<1>3. /\ f.random = p.random /\ f.canfail = p.canfail /\ (f.count > 1 => p.count > 1)
      /\ f.repeat = p.repeat /\ f.batch = p.batch /\ f.nonblocking = p.nonblocking
      /\ f.type = "sendfile" => f = p
  <2>1. CASE x = "master"
    BY <1>1, <2>1
  <2>2. CASE x # "master"
    <3> DEFINE m == Mirrored(p)
    <3>1. /\ m \in Flowop /\ m.type = Opposite(p.type) /\ m.count = p.count /\ m.random = p.random
          /\ m.canfail = p.canfail /\ m.repeat = p.repeat /\ m.batch = p.batch
          /\ m.nonblocking = p.nonblocking
      BY <1>1, MirroredFields
    <3>2. f = Optimized(m)
      BY <1>1, <2>2
    <3>3. Opposite(p.type) # "sendfile"
      BY DEF Opposite
    <3> HIDE DEF m, f, p
    <3>4. /\ f.type = m.type /\ f.random = m.random /\ f.canfail = m.canfail /\ f.repeat = m.repeat
          /\ f.batch = m.batch /\ f.nonblocking = m.nonblocking /\ (f.count > 1 => m.count > 1)
      BY <3>1, <3>2, OptimizedFields
    <3> QED BY <3>1, <3>3, <3>4
  <2> QED BY <2>1, <2>2
<1> HIDE DEF f, p
<1>4. Even(f)
  <2>1. SUFFICES ASSUME f.count > 1
                 PROVE  FirstStage(f) = "rest" /\ Repeats(f) = 1 /\ (f.type = "sendfile" => f.size > 0)
    BY DEF Even
  <2>2. FirstStage(f) = "rest"
    BY <1>2, <1>3, <2>1 DEF FirstStage
  <2>3. Repeats(f) = 1
    BY <1>1, <1>2, <1>3, <2>1 DEF Repeats, Stream
  <2> QED BY <1>2, <1>3, <2>1, <2>2, <2>3
<1> QED BY <1>1, <1>2, <1>3, <1>4 DEF f

LEMMA EarlierIsNat ==
  ASSUME profile \in Profiles, NEW x \in Side, NEW s, Placed(x, s)
  PROVE  /\ Each(FlowopAt(x, s)) \in Nat /\ Earlier(x, s) \in Nat
         /\ (s.n + 1) * Each(FlowopAt(x, s)) = Earlier(x, s) + Each(FlowopAt(x, s))
         /\ s.n = 0 => Earlier(x, s) = 0
<1> DEFINE e == Each(FlowopAt(x, s))
           n == s.n
<1>1. FlowopAt(x, s) \in Flowop /\ n \in Nat /\ FileSize \in Nat
  BY TxnFacts, ExchangeAssumption DEF Placed, Strand, FlowopAt
<1>2. e \in Nat
  BY <1>1, FlowopFields DEF Each
<1>3. Earlier(x, s) = n * e
  BY DEF Earlier
<1> HIDE DEF e, n
<1>4. n * e \in Nat /\ (n + 1) * e = n * e + e /\ (n = 0 => n * e = 0)
  BY <1>1, <1>2
<1> QED BY <1>2, <1>3, <1>4 DEF e, n

\* The end of the executions of a flowop.
LEMMA FlowopEndsCounts ==
  ASSUME NEW x \in Side, NEW s \in Strand, NEW ret \in Int, NEW n \in Nat
  PROVE  LET e == FlowopEnds(x, s, ret, n)
         IN /\ e.counted = s.counted + ret * n /\ e.moved = s.moved /\ e.n = 0 /\ e.stage = "begin"
            /\ ret < 0 => e.result \in {"expired", "failure"}
<1> DEFINE d == s.counted + ret * n
           zero == 0
           c == [s EXCEPT !.counted = d, !.n = zero, !.stage = "begin"]
           e == FlowopEnds(x, s, ret, n)
<1>1. d \in Int
  <2>1. s.counted \in Int /\ ret * n \in Int
    BY DEF Strand
  <2> QED BY <2>1
<1>2. c = [Count(s, ret, n) EXCEPT !.n = 0, !.stage = "begin"]
  BY DEF Count, Strand
<1>3. e \in {[c EXCEPT !.result = "expired"], [c EXCEPT !.result = "failure"], NextFlowop(x, c)}
      /\ (ret < 0 => e \in {[c EXCEPT !.result = "expired"], [c EXCEPT !.result = "failure"]})
  BY <1>2 DEF FlowopEnds
<1>4. d = s.counted + ret * n /\ zero = 0
  OBVIOUS
<1> HIDE DEF d, zero, e
<1>5. /\ c.counted = d /\ c.n = zero /\ c.stage = "begin" /\ c.moved = s.moved
      /\ {"counted", "n", "stage", "moved", "result", "at", "iter"} \subseteq DOMAIN c
  BY DEF Strand
<1> HIDE DEF c
<1>6. \A v : LET a == [c EXCEPT !.result = v]
             IN a.counted = c.counted /\ a.n = c.n /\ a.stage = c.stage /\ a.moved = c.moved /\ a.result = v
  BY ONLY <1>5
<1>7. /\ NextFlowop(x, c).counted = c.counted /\ NextFlowop(x, c).n = c.n
      /\ NextFlowop(x, c).stage = c.stage /\ NextFlowop(x, c).moved = c.moved
  <2> DEFINE v == c.at + 1
             u == c.iter + 1
             one == 1
  <2>1. NextFlowop(x, c) \in {[c EXCEPT !.at = v], [c EXCEPT !.at = one, !.iter = u], [c EXCEPT !.result = "success"]}
    BY DEF NextFlowop
  <2> HIDE DEF v, u, one
  <2>2. CASE NextFlowop(x, c) = [c EXCEPT !.at = v]
    BY ONLY <1>5, <2>2
  <2>3. CASE NextFlowop(x, c) = [c EXCEPT !.at = one, !.iter = u]
    BY ONLY <1>5, <2>3
  <2>4. CASE NextFlowop(x, c) = [c EXCEPT !.result = "success"]
    BY ONLY <1>5, <2>4
  <2> QED BY ONLY <2>1, <2>2, <2>3, <2>4
<1>8. e.counted = c.counted /\ e.n = c.n /\ e.stage = c.stage /\ e.moved = c.moved
      /\ (ret < 0 => e.result \in {"expired", "failure"})
  <2> DEFINE a == NextFlowop(x, c)
  <2>1. a.counted = c.counted /\ a.n = c.n /\ a.stage = c.stage /\ a.moved = c.moved
    BY <1>7
  <2>2. e \in {[c EXCEPT !.result = "expired"], [c EXCEPT !.result = "failure"], a}
        /\ (ret < 0 => e \in {[c EXCEPT !.result = "expired"], [c EXCEPT !.result = "failure"]})
    BY <1>3
  <2> HIDE DEF a
  <2> DEFINE b == [c EXCEPT !.result = "expired"]
             g == [c EXCEPT !.result = "failure"]
  <2>3. b.counted = c.counted /\ b.n = c.n /\ b.stage = c.stage /\ b.moved = c.moved /\ b.result = "expired"
    BY <1>6
  <2>4. g.counted = c.counted /\ g.n = c.n /\ g.stage = c.stage /\ g.moved = c.moved /\ g.result = "failure"
    BY <1>6
  <2>5. e \in {b, g, a} /\ (ret < 0 => e \in {b, g})
    BY <2>2
  <2> HIDE DEF b, g
  <2> QED BY ONLY <2>1, <2>3, <2>4, <2>5
<1> QED BY <1>4, <1>5, <1>8 DEF e

\* After it, what was counted is what was moved, unless the strand has failed.
LEMMA EndedCounts ==
  ASSUME profile \in Profiles, NEW x \in Side, NEW s, Placed(x, s), s.result = "running",
         NEW ret \in Int, NEW n \in Nat, ret >= 0 => s.counted + ret * n = s.moved
  PROVE  Exact(x, FlowopEnds(x, s, ret, n))
<1> DEFINE e == FlowopEnds(x, s, ret, n)
<1>1. s \in Strand
  BY DEF Placed
<1>2. /\ e.counted = s.counted + ret * n /\ e.moved = s.moved /\ e.n = 0 /\ e.stage = "begin"
      /\ ret < 0 => e.result \in {"expired", "failure"}
  BY <1>1, FlowopEndsCounts
<1>3. Placed(x, e) /\ e.counted \in Int
  BY FlowopEndsOK DEF StrandOK, Placed, Strand
<1> HIDE DEF e
<1>4. e.counted = e.moved \/ e.result \in {"expired", "failure"}
  BY <1>2
<1>5. Earlier(x, e) = 0
  BY <1>2, <1>3, EarlierIsNat
<1>6. Exact(x, e)
  BY <1>2, <1>3, <1>4, <1>5 DEF Exact, InCall
<1> QED BY <1>6 DEF e

\* One execution of a plain flowop returned r.
LEMMA ExecutedCounts ==
  ASSUME profile \in Profiles, NEW x \in Side, NEW s, Steady(x, s), NEW r \in Int,
         r >= 0 => Owes(x, s, r) /\ (FlowopAt(x, s).count > 1 => r = Each(FlowopAt(x, s)))
  PROVE  Exact(x, Executed(x, s, r))
<1> DEFINE f == FlowopAt(x, s)
           E == Each(f)
           B == Earlier(x, s)
<1>1. /\ s \in Strand /\ s.n \in Nat /\ s.counted \in Int /\ s.moved \in Nat /\ Placed(x, s)
      /\ f = CurrentFlowop(x) /\ ~f.canfail /\ s.result = "running"
  BY DEF Steady, Placed, Strand
<1>2. f \in Flowop /\ f.count \in Nat
  BY <1>1, TxnFacts, FlowopFields DEF Placed, FlowopAt
<1>3. E \in Nat /\ B \in Nat /\ (s.n + 1) * E = B + E /\ (s.n = 0 => B = 0)
  BY <1>1, EarlierIsNat
<1>4. CASE r < 0
  <2>1. Executed(x, s, r) = FlowopEnds(x, s, r, s.n)
    BY <1>1, <1>4 DEF Executed
  <2> QED BY <1>1, <1>4, <2>1, EndedCounts
<1>5. CASE r >= 0
  <2>1. /\ f.count # 0 /\ (f.count = 1 => s.n = 0) /\ s.moved = s.counted + B + r
        /\ (f.count > 1 => r = E)
    BY <1>5 DEF Owes
  <2>2. CASE s.n + 1 = f.count
    <3>1. Executed(x, s, r) = FlowopEnds(x, s, r, s.n + 1)
      BY <1>1, <1>5, <2>2 DEF Executed
    <3>2. r * (s.n + 1) = B + r
      <4> DEFINE k == s.n + 1
      <4>1. CASE s.n = 0
        <5>1. r * k = r
          BY <4>1
        <5> QED BY <1>3, <4>1, <5>1
      <4>2. CASE s.n # 0
        <5>1. r = E
          BY <1>1, <2>1, <2>2, <4>2
        <5>2. k * E = E * k
          <6>1. k \in Nat
            BY <1>1
          <6> HIDE DEF k, E
          <6> QED BY <1>3, <6>1
        <5> HIDE DEF E, B
        <5> QED BY <1>3, <5>1, <5>2
      <4> QED BY <4>1, <4>2
    <3>3. s.counted + r * (s.n + 1) = s.moved
      <4> DEFINE q == r * (s.n + 1)
      <4>1. q = B + r
        BY <3>2
      <4> HIDE DEF q, B
      <4>2. s.counted + q = s.moved
        BY <1>1, <1>3, <2>1, <4>1
      <4> QED BY <4>2 DEF q
    <3>4. s.n + 1 \in Nat
      BY <1>1
    <3> QED BY <1>1, <3>1, <3>3, <3>4, EndedCounts
  <2>3. CASE s.n + 1 # f.count
    <3> DEFINE v == s.n + 1
               t == [s EXCEPT !.n = v, !.stage = "begin"]
    <3>1. Executed(x, s, r) = t
      BY <1>1, <1>5, <2>3 DEF Executed
    <3>2. v = s.n + 1 /\ v \in Nat /\ f.count > 1 /\ r = E
      BY <1>1, <1>2, <2>1, <2>3
    <3> HIDE DEF v
    <3>3. t.n = v /\ t.stage = "begin" /\ t.at = s.at /\ t.result = "running" /\ t.moved = s.moved /\ t.counted = s.counted
      BY <1>1 DEF Strand
    <3> HIDE DEF t
    <3>4. FlowopAt(x, t) = f
      BY <3>3 DEF FlowopAt
    <3>5. Earlier(x, t) = B + E
      BY <1>3, <3>2, <3>3, <3>4 DEF Earlier
    <3> HIDE DEF f, E, B
    <3>6. t.moved = t.counted + Earlier(x, t)
      BY <1>1, <1>3, <2>1, <3>2, <3>3, <3>5
    <3>7. FlowopAt(x, t).count \notin {0, 1}
      BY <3>2, <3>4
    <3> QED BY <3>1, <3>3, <3>6, <3>7 DEF Exact, InCall
  <2> QED BY <2>2, <2>3
<1> QED BY <1>4, <1>5

\* A call for the rest of the size.
LEMMA CallCounts ==
  ASSUME profile \in Profiles, NEW x \in Side, NEW s, Steady(x, s), s.sz < s.size,
         FlowopAt(x, s).type \in Moving, Owes(x, s, s.sz),
         FlowopAt(x, s).count > 1 => s.size = Each(FlowopAt(x, s))
  PROVE  Exact(x, Call(s, FlowopAt(x, s)))
<1> DEFINE f == FlowopAt(x, s)
           c == Call(s, f)
<1>1. /\ s \in Strand /\ s.sz \in Nat /\ s.size \in Nat /\ s.moved \in Nat /\ s.counted \in Int
      /\ Placed(x, s) /\ s.result = "running" /\ Even(f)
  BY DEF Steady, Placed, Strand
<1>2. /\ c.stage = FirstStage(f) /\ c.at = s.at /\ c.size = s.size /\ c.sz = s.sz
      /\ c.left = s.size - s.sz /\ c.total = 0 /\ c.n = s.n /\ c.moved = s.moved
      /\ c.counted = s.counted /\ c.result = "running"
  BY <1>1, CallOK
<1> HIDE DEF c
<1>3. FlowopAt(x, c) = f /\ Earlier(x, c) = Earlier(x, s)
  BY <1>2 DEF FlowopAt, Earlier
<1>4. c.stage # "begin" /\ (f.count > 1 => c.stage = "rest")
  BY <1>1, <1>2 DEF FirstStage, Even
<1>5. f.type # "sendfile"
  BY DEF Moving
<1>6. s.sz + 0 = s.sz /\ (s.sz + (s.size - s.sz) = s.size)
  BY <1>1
<1>7. Owes(x, c, c.sz + c.total)
  BY <1>2, <1>3, <1>6 DEF Owes
<1>8. f.count > 1 => c.size = Each(f) /\ c.sz + c.left <= c.size
  BY <1>1, <1>2, <1>6
<1> HIDE DEF f
<1>9. Exact(x, c)
  BY <1>2, <1>3, <1>4, <1>5, <1>7, <1>8 DEF Exact
<1> QED BY <1>9 DEF c, f

\* The protocol's function returned n.
LEMMA ReturnedCounts ==
  ASSUME profile \in Profiles, NEW x \in Side, NEW s, Steady(x, s), s.sz < s.size,
         FlowopAt(x, s).type \in Moving, NEW n \in Int, n > 0 => Owes(x, s, s.sz + n),
         FlowopAt(x, s).count > 1 => s.size = Each(FlowopAt(x, s)) /\ s.sz + n <= s.size
  PROVE  Exact(x, Returned(x, s, n))
<1> DEFINE f == FlowopAt(x, s)
<1>1. /\ s \in Strand /\ s.sz \in Nat /\ s.size \in Nat /\ s.at \in 1 .. Len(profile.flowops)
      /\ s.result = "running" /\ CurrentFlowop(x) = f /\ ~f.random
  BY DEF Steady, Placed, Strand
<1>2. CASE n = 0
  <2> DEFINE u == [s EXCEPT !.errno = "EINTR"]
  <2>1. u \in Strand /\ u.at = s.at /\ u.result = "running"
    BY <1>1 DEF Strand
  <2>2. Returned(x, s, n) = Executed(x, u, -1)
    BY <1>2 DEF Returned
  <2> HIDE DEF u
  <2>3. Steady(x, u) /\ -1 \in Int /\ ~(-1 >= 0)
    BY <1>1, <2>1 DEF Steady, Placed, FlowopAt
  <2> QED BY <2>2, <2>3, ExecutedCounts
<1>3. CASE n < 0
  <2>1. Returned(x, s, n) = Executed(x, s, -1) /\ -1 \in Int /\ ~(-1 >= 0)
    BY <1>3 DEF Returned
  <2> QED BY <2>1, ExecutedCounts
<1>4. CASE n > 0
  <2> DEFINE v == s.sz + n
             t == [s EXCEPT !.sz = v]
  <2>1. v \in Nat
    BY <1>1, <1>4
  <2>2. /\ t \in Strand /\ t.sz = v /\ t.at = s.at /\ t.result = "running" /\ t.size = s.size
        /\ t.n = s.n /\ t.moved = s.moved /\ t.counted = s.counted
    <3> HIDE DEF v
    <3> QED BY <1>1, <2>1 DEF Strand
  <2>3. Returned(x, s, n) = IF Loops(f, t) THEN Call(t, f) ELSE Executed(x, t, t.sz)
    BY <1>1, <1>4 DEF Returned
  <2>4. Owes(x, s, v) /\ (f.count > 1 => s.size = Each(f) /\ v <= s.size)
    BY <1>4
  <2> HIDE DEF t, v
  <2>5. FlowopAt(x, t) = f /\ Earlier(x, t) = Earlier(x, s)
    BY <2>2 DEF FlowopAt, Earlier
  <2>6. Steady(x, t) /\ t.sz \in Int
    BY <1>1, <2>1, <2>2, <2>5 DEF Steady, Placed
  <2>7. Owes(x, t, t.sz)
    BY <2>2, <2>4, <2>5 DEF Owes
  <2>8. CASE Loops(f, t)
    <3>1. t.sz < t.size /\ Returned(x, s, n) = Call(t, FlowopAt(x, t))
      BY <2>3, <2>5, <2>8 DEF Loops
    <3>2. FlowopAt(x, t).count > 1 => t.size = Each(FlowopAt(x, t))
      BY <2>2, <2>4, <2>5
    <3> QED BY <2>5, <2>6, <2>7, <3>1, <3>2, CallCounts
  <2>9. CASE ~Loops(f, t)
    <3>1. Returned(x, s, n) = Executed(x, t, t.sz)
      BY <2>3, <2>9
    <3>2. f.count > 1 => t.sz = Each(f)
      BY <1>1, <2>1, <2>2, <2>4, <2>9 DEF Loops
    <3> QED BY <2>5, <2>6, <2>7, <3>1, <3>2, ExecutedCounts
  <2> QED BY <2>8, <2>9
<1> QED BY <1>2, <1>3, <1>4

\* A repetition has moved what the call has moved so far.
LEMMA RepeatCounts ==
  ASSUME profile \in Profiles, NEW x \in Side, NEW s, Steady(x, s), s.sz < s.size,
         FlowopAt(x, s).type \in Moving, Owes(x, s, s.sz + s.total),
         FlowopAt(x, s).count > 1 => s.size = Each(FlowopAt(x, s)) /\ s.sz + s.total <= s.size
  PROVE  Exact(x, Repeat(x, s))
<1> DEFINE f == FlowopAt(x, s)
<1>1. /\ s \in Strand /\ s.sz \in Nat /\ s.size \in Nat /\ s.rep \in Nat /\ s.total \in Int
      /\ s.at \in 1 .. Len(profile.flowops) /\ s.result = "running" /\ CurrentFlowop(x) = f /\ Even(f)
  BY DEF Steady, Placed, Strand
<1>2. CASE s.rep + 1 < Repeats(f)
  <2> DEFINE rep == s.rep + 1
             rest == s.size - s.sz
             stage == FirstStage(f)
             c == [s EXCEPT !.rep = rep, !.left = rest, !.stage = stage]
  <2>1. Repeat(x, s) = c
    BY <1>1, <1>2 DEF Repeat
  <2>2. stage # "begin"
    BY DEF FirstStage
  <2>3. ~(f.count > 1)
    BY <1>1, <1>2 DEF Even
  <2> HIDE DEF rep, rest, stage
  <2>4. /\ c.stage = stage /\ c.at = s.at /\ c.sz = s.sz /\ c.total = s.total /\ c.n = s.n
        /\ c.moved = s.moved /\ c.counted = s.counted /\ c.result = "running"
    BY <1>1 DEF Strand
  <2> HIDE DEF c
  <2>5. FlowopAt(x, c) = f /\ Earlier(x, c) = Earlier(x, s)
    BY <2>4 DEF FlowopAt, Earlier
  <2>6. f.type # "sendfile"
    BY DEF Moving
  <2>7. Owes(x, c, c.sz + c.total)
    BY <2>4, <2>5 DEF Owes
  <2> HIDE DEF f
  <2> QED BY <2>1, <2>2, <2>3, <2>4, <2>5, <2>6, <2>7 DEF Exact
<1>3. CASE ~(s.rep + 1 < Repeats(f))
  <2>1. Repeat(x, s) = Returned(x, s, s.total)
    BY <1>1, <1>3 DEF Repeat
  <2> QED BY <1>1, <2>1, ReturnedCounts
<1> QED BY <1>2, <1>3

CountInv == TypeInv /\ (Plain => \A x \in Side : Exact(x, st[x]))

\* The strand of a side in a plain profile.
LEMMA SteadySide ==
  ASSUME TypeInv, EvenExecutions, Plain, NEW x \in Side, st[x].result = "running"
  PROVE  /\ Steady(x, st[x])
         /\ \A u \in Strand : u.at = st[x].at /\ u.result = "running" =>
              Steady(x, u) /\ FlowopAt(x, u) = FlowopAt(x, st[x])
<1>1. /\ profile \in Profiles /\ Placed(x, st[x]) /\ st[x] \in Strand
      /\ CurrentFlowop(x) = FlowopAt(x, st[x])
  BY StrandOfSide
<1>2. st[x].at \in 1 .. Len(profile.flowops)
  BY <1>1 DEF Placed
<1>3. ~FlowopAt(x, st[x]).random /\ ~FlowopAt(x, st[x]).canfail /\ Even(FlowopAt(x, st[x]))
  BY <1>1, <1>2, PlainFlowop DEF FlowopAt
<1>4. ASSUME NEW u \in Strand, u.at = st[x].at, u.result = "running"
      PROVE  Steady(x, u) /\ FlowopAt(x, u) = FlowopAt(x, st[x])
  <2>1. FlowopAt(x, u) = FlowopAt(x, st[x])
    BY <1>4 DEF FlowopAt
  <2> QED BY <1>1, <1>2, <1>3, <1>4, <2>1 DEF Steady, Placed
<1> QED BY <1>1, <1>4

\* A call that moved no more than was left.
LEMMA MovedCounts ==
  ASSUME CountInv, EvenExecutions, Plain, NEW x \in Side, InCall(st[x]), CurrentFlowop(x).type \in Moving,
         NEW n \in Nat, n <= st[x].left
  PROVE  Exact(x, Repeat(x, Moved(x, n)))
<1> DEFINE s == st[x]
           m == Moved(x, n)
           f == FlowopAt(x, s)
<1>1. /\ TypeInv /\ profile \in Profiles /\ s \in Strand /\ CurrentFlowop(x) = f /\ s.result = "running"
      /\ s.sz \in Nat /\ s.size \in Nat /\ s.sz < s.size /\ s.left \in Nat /\ s.total \in Nat
      /\ s.moved \in Nat /\ s.counted \in Int /\ Placed(x, s)
  BY StrandOfSide, WithinCall DEF CountInv, InCall, Strand
<1>2. f.type # "sendfile"
  BY <1>1 DEF Moving
<1>3. /\ Owes(x, s, s.sz + s.total)
      /\ f.count > 1 => s.size = Each(f) /\ s.total = 0 /\ s.sz + s.left <= s.size
  BY <1>1, <1>2 DEF CountInv, Exact
<1>4. /\ m \in Strand /\ m.total = s.total + n /\ m.moved = s.moved + n /\ m.at = s.at /\ m.n = s.n
      /\ m.size = s.size /\ m.sz = s.sz /\ m.counted = s.counted /\ m.result = "running"
  BY <1>1, MovedFields
<1> HIDE DEF m
<1>5. Steady(x, m) /\ FlowopAt(x, m) = f
  BY <1>1, <1>4, SteadySide
<1>6. Earlier(x, m) = Earlier(x, s) /\ Earlier(x, s) \in Nat
  BY <1>1, <1>4, <1>5, EarlierIsNat DEF Earlier
<1> HIDE DEF f
<1>7. Owes(x, m, m.sz + m.total)
  BY <1>1, <1>3, <1>4, <1>5, <1>6 DEF Owes, f
<1>8. f.count > 1 => m.size = Each(f) /\ m.sz + m.total <= m.size
  BY <1>1, <1>3, <1>4
<1>9. Exact(x, Repeat(x, m))
  BY <1>1, <1>4, <1>5, <1>7, <1>8, RepeatCounts
<1> QED BY <1>9 DEF m

\* A step of one strand.
LEMMA BecomesCounts ==
  ASSUME CountInv, NEW x \in Side, NEW s, Plain => Exact(x, s), Becomes(x, s), profile' = profile, TypeInv'
  PROVE  CountInv'
<1>1. st \in [Side -> Strand]
  BY DEF CountInv, TypeInv, TypeOK
<1>2. Plain => \A y \in Side : Exact(y, st'[y])
  BY <1>1 DEF Becomes, CountInv
<1>3. Plain => \A y \in Side : Exact(y, st[y])'
  BY <1>2 DEF Exact, Owes, Earlier, FlowopAt, Txn
<1>4. Plain' = Plain
  BY DEF Plain
<1> QED BY <1>3, <1>4 DEF CountInv

\* The start of an execution.
LEMMA ExecuteCounts ==
  ASSUME CountInv, SizesAreGiven, EvenExecutions, Plain, NEW x \in Side, Execute(x)
  PROVE  \E t : Exact(x, t) /\ Becomes(x, t)
<1> DEFINE s == st[x]
           f == FlowopAt(x, s)
<1>1. TypeInv
  BY DEF CountInv
<1>2. /\ profile \in Profiles /\ Placed(x, s) /\ s \in Strand /\ f = CurrentFlowop(x) /\ f \in Flowop
      /\ s.result = "running" /\ s.stage = "begin" /\ s.at \in 1 .. Len(profile.flowops)
  BY <1>1, StrandOfSide DEF Execute, Runs, Placed
<1>3. Exact(x, s)
  BY DEF CountInv
<1>4. /\ Steady(x, s)
      /\ \A u \in Strand : u.at = s.at /\ u.result = "running" => Steady(x, u) /\ FlowopAt(x, u) = f
  BY <1>1, <1>2, SteadySide
<1>5. /\ f.count \in {0, 1} => s.n = 0
      /\ s.moved = s.counted + Earlier(x, s)
      /\ Earlier(x, s) \in Nat /\ (s.n = 0 => Earlier(x, s) = 0) /\ s.counted \in Int /\ s.moved \in Nat
      /\ f.count \in Nat /\ ~f.random
  <2>1. (f.count \in {0, 1} => s.n = 0) /\ s.moved = s.counted + Earlier(x, s)
    BY <1>2, <1>3 DEF Exact
  <2>2. s.counted \in Int /\ s.moved \in Nat
    BY <1>2 DEF Strand
  <2>3. ~f.random
    BY <1>4 DEF Steady
  <2> HIDE DEF f
  <2> QED BY <1>2, <2>1, <2>2, <2>3, FlowopFields, EarlierIsNat
<1>6. f.count # 0 => Owes(x, s, 0)
  BY <1>5 DEF Owes
<1>7. CASE f.count = 0
  <2>1. Becomes(x, FlowopEnds(x, s, 0, 0))
    BY <1>2, <1>7 DEF Execute
  <2>2. s.counted + 0 * 0 = s.moved
    BY <1>5, <1>7
  <2>3. Exact(x, FlowopEnds(x, s, 0, 0))
    BY <1>2, <2>2, EndedCounts
  <2> QED BY <2>1, <2>3
<1>8. CASE f.count # 0 /\ (f.type = "nop" \/ (f.type = "disconnect" /\ open[x]))
  <2>1. Becomes(x, Executed(x, s, 0))
    BY <1>2, <1>8 DEF Execute
  <2>2. Each(f) = 0
    BY <1>8 DEF Each, Moving
  <2>3. Exact(x, Executed(x, s, 0))
    BY <1>2, <1>4, <1>6, <1>8, <2>2, ExecutedCounts
  <2> QED BY <2>1, <2>3
<1>9. CASE f.count # 0 /\ f.type = "sendfile" /\ open[x]
  <2> DEFINE size == FileSize
             zero == 0
             t == [s EXCEPT !.size = size, !.sz = zero, !.stage = "rest"]
  <2>1. Becomes(x, t)
    BY <1>2, <1>9 DEF Execute
  <2>2. size \in Nat /\ zero \in Nat /\ zero + 0 = 0 /\ size = Each(f)
    BY <1>9, ExchangeAssumption DEF Each
  <2>3. zero = 0
    OBVIOUS
  <2> HIDE DEF size, zero
  <2>4. /\ t.size = size /\ t.sz = zero /\ t.stage = "rest" /\ t.at = s.at /\ t.n = s.n
        /\ t.moved = s.moved /\ t.counted = s.counted /\ t.result = "running"
    BY <1>2 DEF Strand
  <2> HIDE DEF t
  <2>5. FlowopAt(x, t) = f /\ Earlier(x, t) = Earlier(x, s)
    BY <2>4 DEF FlowopAt, Earlier
  <2>6. Owes(x, t, t.sz + 0)
    BY <1>6, <1>9, <2>2, <2>3, <2>4, <2>5 DEF Owes
  <2>7. f.type \notin Moving
    BY <1>9 DEF Moving
  <2> HIDE DEF f
  <2>8. Exact(x, t)
    BY <1>9, <2>2, <2>4, <2>5, <2>6, <2>7 DEF Exact
  <2> QED BY <2>1, <2>8
<1>10. CASE f.count # 0 /\ f.type # "nop" /\ ~open[x]
  <2> DEFINE u == [s EXCEPT !.errno = "EINTR"]
  <2>1. Becomes(x, Executed(x, IF f.type = "disconnect" THEN u ELSE s, -1))
    BY <1>2, <1>10 DEF Execute
  <2>2. u \in Strand /\ u.at = s.at /\ u.result = "running"
    BY <1>2 DEF Strand
  <2> HIDE DEF u
  <2>3. Steady(x, u) /\ -1 \in Int /\ ~(-1 >= 0)
    BY <1>4, <2>2
  <2>4. Exact(x, Executed(x, u, -1)) /\ Exact(x, Executed(x, s, -1))
    BY <1>2, <1>4, <2>3, ExecutedCounts
  <2>5. \E t : Exact(x, t) /\ t = Executed(x, IF f.type = "disconnect" THEN u ELSE s, -1)
    BY ONLY <2>4
  <2> HIDE DEF f, s
  <2> QED BY ONLY <2>1, <2>5
<1>11. CASE f.count # 0 /\ f.type \notin {"nop", "disconnect", "sendfile"} /\ open[x]
  <2>1. f.type \in Moving
    BY <1>2, <1>11, FlowopFields DEF FlowopType, Transmits, Moving
  <2>2. IF Supported(f) THEN \E n \in Sizes(f) : Becomes(x, Call([s EXCEPT !.size = n, !.sz = 0], f))
        ELSE Becomes(x, Executed(x, s, -1))
    BY <1>2, <1>11 DEF Execute
  <2>3. CASE Supported(f)
    <3> DEFINE zero == 0
               n == f.size
               t == [s EXCEPT !.size = n, !.sz = zero]
    <3>1. Sizes(f) = {n}
      BY <1>5 DEF Sizes
    <3>2. Becomes(x, Call(t, f))
      BY <2>2, <2>3, <3>1
    <3>3. n \in Nat /\ n > 0
      <4>1. f = Txn(x).flowops[s.at]
        BY DEF FlowopAt
      <4> HIDE DEF f, s
      <4> QED BY <1>2, <2>1, <3>1, <4>1, SizesArePositive DEF n
    <3>4. zero \in Nat /\ zero < n /\ zero = 0 /\ n = Each(f)
      BY <2>1, <3>3 DEF Each, Moving
    <3> HIDE DEF zero, n
    <3>5. /\ t \in Strand /\ t.size = n /\ t.sz = zero /\ t.at = s.at /\ t.n = s.n /\ t.result = "running"
          /\ t.moved = s.moved /\ t.counted = s.counted
      BY <1>2, <3>3, <3>4 DEF Strand
    <3> HIDE DEF t
    <3>6. Steady(x, t) /\ FlowopAt(x, t) = f
      BY <1>4, <3>5
    <3>7. Earlier(x, t) = Earlier(x, s)
      BY <3>5, <3>6 DEF Earlier
    <3>8. Owes(x, t, t.sz)
      BY <1>6, <1>11, <3>4, <3>5, <3>6, <3>7 DEF Owes
    <3> HIDE DEF f
    <3>9. Exact(x, Call(t, f))
      BY <1>2, <2>1, <3>4, <3>5, <3>6, <3>8, CallCounts
    <3> QED BY <3>2, <3>9
  <2>4. CASE ~Supported(f)
    <3>1. -1 \in Int /\ ~(-1 >= 0)
      OBVIOUS
    <3>2. Exact(x, Executed(x, s, -1))
      BY <1>2, <1>4, <3>1, ExecutedCounts
    <3> HIDE DEF f, s
    <3>3. Becomes(x, Executed(x, s, -1))
      BY ONLY <2>2, <2>4
    <3> QED BY ONLY <3>2, <3>3
  <2> QED BY <2>3, <2>4
<1>12. open[x] \in BOOLEAN
  BY <1>1 DEF TypeInv, TypeOK
<1> QED BY <1>7, <1>8, <1>9, <1>10, <1>11, <1>12

\* What a call of a plain profile has moved.
LEMMA CallIsExact ==
  ASSUME CountInv, EvenExecutions, Plain, NEW x \in Side, InCall(st[x]), CurrentFlowop(x).type \in Moving
  PROVE  /\ TypeInv /\ profile \in Profiles /\ st[x] \in Strand /\ st[x].result = "running"
         /\ CurrentFlowop(x) = FlowopAt(x, st[x]) /\ FlowopAt(x, st[x]).type \in Moving
         /\ st[x].sz \in Nat /\ st[x].size \in Nat /\ st[x].sz < st[x].size
         /\ st[x].left \in Nat \ {0} /\ st[x].total \in Nat
         /\ Steady(x, st[x]) /\ Owes(x, st[x], st[x].sz + st[x].total)
         /\ FlowopAt(x, st[x]).count > 1 =>
              /\ st[x].size = Each(FlowopAt(x, st[x])) /\ st[x].stage = "rest"
              /\ st[x].total = 0 /\ st[x].sz + st[x].left <= st[x].size
<1> DEFINE s == st[x]
           f == FlowopAt(x, s)
<1>1. /\ TypeInv /\ profile \in Profiles /\ s \in Strand /\ CurrentFlowop(x) = f /\ s.result = "running"
      /\ s.sz \in Nat /\ s.size \in Nat /\ s.sz < s.size /\ s.left \in Nat \ {0} /\ s.total \in Nat
  BY StrandOfSide, WithinCall DEF CountInv, InCall, Strand
<1>2. f.type # "sendfile" /\ f.type \in Moving /\ Exact(x, s)
  BY <1>1 DEF Moving, CountInv
<1>3. /\ Owes(x, s, s.sz + s.total)
      /\ f.count > 1 => s.size = Each(f) /\ s.stage = "rest" /\ s.total = 0 /\ s.sz + s.left <= s.size
  BY <1>2 DEF Exact
<1>4. Steady(x, s)
  BY <1>1, SteadySide
<1> QED BY <1>1, <1>2, <1>3, <1>4

\* The first attempt of a read.
LEMMA FirstReadCounts ==
  ASSUME CountInv, EvenExecutions, Plain, NEW x \in Side, FirstRead(x)
  PROVE  \E u : Exact(x, u) /\ Becomes(x, u)
<1> DEFINE s == st[x]
           f == FlowopAt(x, s)
<1>1. s.result = "running" /\ s.stage = "first" /\ IsRead(CurrentFlowop(x))
  BY DEF FirstRead, Runs
<1>2. InCall(s) /\ CurrentFlowop(x).type \in Moving
  BY <1>1 DEF InCall, IsRead, Moving
<1>3. /\ TypeInv /\ profile \in Profiles /\ s \in Strand /\ f.type \in Moving /\ f.type # "sendfile"
      /\ s.sz \in Nat /\ s.size \in Nat /\ s.sz < s.size /\ s.left \in Nat \ {0} /\ s.total \in Nat
      /\ Owes(x, s, s.sz + s.total) /\ s.moved \in Nat /\ s.counted \in Int /\ Placed(x, s)
  BY <1>2, CallIsExact DEF Moving, Strand, Steady
<1>4. ~(f.count > 1)
  BY <1>1, <1>2, CallIsExact
<1>5. ASSUME NEW u \in Strand, u.stage = "rest", u.result = "running", u.at = s.at, u.n = s.n,
             u.sz = s.sz, u.counted = s.counted,
             NEW k \in Nat, u.total = s.total + k, u.moved = s.moved + k
      PROVE  Exact(x, u) /\ Steady(x, u) /\ FlowopAt(x, u) = f /\ Owes(x, u, u.sz + u.total)
  <2>1. Steady(x, u) /\ FlowopAt(x, u) = f
    BY <1>1, <1>3, <1>5, SteadySide
  <2>2. Earlier(x, u) = Earlier(x, s) /\ Earlier(x, s) \in Nat
    BY <1>3, <1>5, <2>1, EarlierIsNat DEF Earlier
  <2>3. Owes(x, u, u.sz + u.total)
    BY <1>3, <1>5, <2>1, <2>2 DEF Owes
  <2> HIDE DEF f
  <2> QED BY <1>3, <1>4, <1>5, <2>1, <2>3 DEF Exact
<1>6. CASE wire[x] = <<>>
  <2> DEFINE left == Left(s.left, -1)
             t == [s EXCEPT !.left = left, !.errno = "EAGAIN", !.stage = "rest"]
  <2>1. Becomes(x, t)
    BY <1>6 DEF FirstRead
  <2>2. left \in Nat
    BY <1>3 DEF Left
  <2> HIDE DEF left
  <2>3. /\ t \in Strand /\ t.stage = "rest" /\ t.result = "running" /\ t.at = s.at /\ t.n = s.n
        /\ t.sz = s.sz /\ t.counted = s.counted /\ t.total = s.total /\ t.moved = s.moved
    BY <1>1, <1>3, <2>2 DEF Strand
  <2> HIDE DEF t
  <2>4. t.total = s.total + 0 /\ t.moved = s.moved + 0
    BY <1>3, <2>3
  <2>5. Exact(x, t)
    BY <1>5, <2>3, <2>4
  <2> QED BY <2>1, <2>5
<1>7. CASE wire[x] # <<>>
  <2>1. PICK t \in Takes(wire[x], s.left) :
          LET m == [Moved(x, t.got) EXCEPT !.left = Left(@, t.got), !.stage = "rest"]
          IN Becomes(x, IF m.left > 0 THEN m ELSE Repeat(x, m))
    BY <1>7 DEF FirstRead
  <2>2. t.got \in Nat \ {0} /\ t.got <= s.left
    BY <1>3, <1>7, TakesSome, Frame
  <2> DEFINE v == Moved(x, t.got)
             left == Left(v.left, t.got)
             m == [v EXCEPT !.left = left, !.stage = "rest"]
  <2>3. Becomes(x, IF m.left > 0 THEN m ELSE Repeat(x, m))
    BY <2>1
  <2>4. /\ v \in Strand /\ v.left = s.left /\ v.at = s.at /\ v.sz = s.sz /\ v.size = s.size
        /\ v.result = "running" /\ v.n = s.n /\ v.counted = s.counted
        /\ v.total = s.total + t.got /\ v.moved = s.moved + t.got
    <3>1. t.got \in Nat
      BY <2>2
    <3>2. v \in Strand /\ v.total = s.total + t.got /\ v.moved = s.moved + t.got
      BY <1>3, <3>1, MovedFields
    <3>3. /\ v.left = s.left /\ v.at = s.at /\ v.sz = s.sz /\ v.size = s.size /\ v.n = s.n
          /\ v.counted = s.counted /\ v.result = s.result
      BY <1>3, <3>1, MovedFields
    <3> QED BY <1>1, <1>3, <3>2, <3>3
  <2>5. left \in Nat
    BY <1>3, <2>2, <2>4 DEF Left
  <2> HIDE DEF v, left
  <2>6. /\ m \in Strand /\ m.stage = "rest" /\ m.result = "running" /\ m.at = s.at /\ m.n = s.n
        /\ m.sz = s.sz /\ m.size = s.size /\ m.counted = s.counted
        /\ m.total = s.total + t.got /\ m.moved = s.moved + t.got
    BY <2>4, <2>5 DEF Strand
  <2> HIDE DEF m
  <2>7. Exact(x, m) /\ Steady(x, m) /\ FlowopAt(x, m) = f /\ Owes(x, m, m.sz + m.total)
    BY <1>5, <2>2, <2>6
  <2>8. Exact(x, Repeat(x, m))
    BY <1>3, <1>4, <2>6, <2>7, RepeatCounts
  <2>9. Exact(x, IF m.left > 0 THEN m ELSE Repeat(x, m))
    BY ONLY <2>7, <2>8
  <2> QED BY <2>3, <2>9
<1> QED BY <1>6, <1>7

\* The read that waits.
LEMMA ReadCounts ==
  ASSUME CountInv, EvenExecutions, Plain, NEW x \in Side, Read(x)
  PROVE  \E u : Exact(x, u) /\ Becomes(x, u)
<1>1. st[x].result = "running" /\ IsRead(CurrentFlowop(x)) /\ st[x].stage = "rest" /\ wire[x] # <<>>
  BY DEF Read, Runs
<1>2. InCall(st[x]) /\ CurrentFlowop(x).type \in Moving
  BY <1>1 DEF InCall, IsRead, Moving
<1>3. TypeInv /\ st[x].left \in Nat \ {0}
  BY <1>2, CallIsExact
<1>4. PICK t \in Takes(wire[x], st[x].left) : Becomes(x, Repeat(x, Moved(x, t.got)))
  BY DEF Read
<1>5. t.got \in Nat \ {0} /\ t.got <= st[x].left
  BY <1>1, <1>3, TakesSome, Frame
<1>6. Exact(x, Repeat(x, Moved(x, t.got)))
  BY <1>2, <1>5, MovedCounts
<1> QED BY <1>4, <1>6

\* The end of the connection, or of the time.
LEMMA NothingReadCounts ==
  ASSUME CountInv, EvenExecutions, Plain, NEW x \in Side, HangUp(x) \/ GivesUp(x)
  PROVE  \E t : Exact(x, t) /\ Becomes(x, t)
<1> DEFINE s == st[x]
           f == FlowopAt(x, s)
           u == [s EXCEPT !.errno = "EAGAIN"]
<1>1. /\ s.result = "running" /\ s.stage = "rest" /\ IsRead(CurrentFlowop(x))
      /\ \/ Becomes(x, Returned(x, s, s.total))
         \/ Becomes(x, Returned(x, s, -1)) \/ Becomes(x, Returned(x, u, -1))
  BY DEF HangUp, GivesUp, Runs
<1>2. InCall(s) /\ CurrentFlowop(x).type \in Moving
  BY <1>1 DEF InCall, IsRead, Moving
<1>3. /\ TypeInv /\ profile \in Profiles /\ s \in Strand /\ f.type \in Moving
      /\ s.sz \in Nat /\ s.size \in Nat /\ s.sz < s.size /\ s.left \in Nat /\ s.total \in Nat
      /\ Steady(x, s) /\ Owes(x, s, s.sz + s.total)
      /\ f.count > 1 => s.size = Each(f) /\ s.total = 0
  BY <1>2, CallIsExact
<1>4. -1 \in Int /\ ~(-1 > 0) /\ s.sz + (-1) <= s.size /\ s.total \in Int /\ s.sz + 0 <= s.size
  BY <1>3
<1>5. Exact(x, Returned(x, s, s.total))
  BY <1>3, <1>4, ReturnedCounts
<1>6. Exact(x, Returned(x, s, -1))
  BY <1>3, <1>4, ReturnedCounts
<1>7. u \in Strand /\ u.at = s.at /\ u.sz = s.sz /\ u.size = s.size /\ u.result = "running"
  BY <1>1, <1>3 DEF Strand
<1> HIDE DEF u
<1>8. Steady(x, u) /\ FlowopAt(x, u) = f
  BY <1>1, <1>3, <1>7, SteadySide
<1>9. Exact(x, Returned(x, u, -1))
  BY <1>3, <1>4, <1>7, <1>8, ReturnedCounts
<1> QED BY <1>1, <1>5, <1>6, <1>9

\* The two writes.
LEMMA WritesCount ==
  ASSUME CountInv, EvenExecutions, Plain, NEW x \in Side, FirstWrite(x) \/ Write(x)
  PROVE  \E u : Exact(x, u) /\ Becomes(x, u)
<1> DEFINE s == st[x]
           f == FlowopAt(x, s)
           room == Room(wire[Peer(x)])
           t == [s EXCEPT !.errno = "EAGAIN", !.stage = "rest"]
<1>1. s.result = "running" /\ s.stage # "begin" /\ CurrentFlowop(x).type \in {"write", "send"}
  BY DEF FirstWrite, Write, Runs
<1>2. InCall(s) /\ CurrentFlowop(x).type \in Moving
  BY <1>1 DEF InCall, Moving
<1>3. /\ TypeInv /\ profile \in Profiles /\ s \in Strand /\ f.type \in Moving /\ f.type # "sendfile"
      /\ s.left \in Nat \ {0} /\ Owes(x, s, s.sz + s.total)
  BY <1>2, CallIsExact DEF Moving
<1>4. CASE Becomes(x, Repeat(x, Moved(x, s.left)))
  <2>1. Exact(x, Repeat(x, Moved(x, s.left)))
    BY <1>2, <1>3, MovedCounts
  <2> QED BY <1>4, <2>1
<1>5. CASE Becomes(x, t) /\ s.stage = "first"
  <2>1. ~(f.count > 1)
    BY <1>2, <1>5, CallIsExact
  <2>2. /\ t.stage = "rest" /\ t.result = "running" /\ t.at = s.at /\ t.n = s.n /\ t.sz = s.sz
        /\ t.counted = s.counted /\ t.total = s.total /\ t.moved = s.moved
    BY <1>1, <1>3 DEF Strand
  <2> HIDE DEF t
  <2>3. FlowopAt(x, t) = f /\ Earlier(x, t) = Earlier(x, s)
    BY <2>2 DEF FlowopAt, Earlier
  <2>4. Owes(x, t, t.sz + t.total)
    BY <1>3, <2>2, <2>3 DEF Owes
  <2> HIDE DEF f
  <2>5. Exact(x, t)
    BY <1>3, <2>1, <2>2, <2>3, <2>4 DEF Exact
  <2> QED BY <1>5, <2>5
<1>6. CASE Write(x)
  <2>1. PICK n \in IF Stream THEN 1 .. Min({s.left, room}) ELSE {s.left} :
          Becomes(x, Repeat(x, Moved(x, n)))
    BY <1>6 DEF Write
  <2>2. room \in Nat \ {0}
    BY <1>3, <1>6, RoomIsNat, Frame DEF Write
  <2>3. n \in Nat /\ n <= s.left
    <3>1. Min({s.left, room}) \in Nat /\ Min({s.left, room}) <= s.left
      BY <1>3, <2>2, MinOfTwo
    <3> QED BY <1>3, <2>1, <3>1
  <2>4. Exact(x, Repeat(x, Moved(x, n)))
    BY <1>2, <2>3, MovedCounts
  <2> QED BY <2>1, <2>4
<1> QED BY <1>4, <1>5, <1>6 DEF FirstWrite, Runs

\* A write that fails.
LEMMA WriteFailsCounts ==
  ASSUME CountInv, EvenExecutions, Plain, NEW x \in Side, WriteFails(x)
  PROVE  \E t : Exact(x, t) /\ Becomes(x, t)
<1> DEFINE s == st[x]
           u == [s EXCEPT !.errno = "other"]
           f == FlowopAt(x, s)
<1>1. TypeInv /\ s.result = "running" /\ s.stage = "rest"
  BY DEF WriteFails, Runs, CountInv
<1>2. InCall(s) /\ profile \in Profiles /\ s \in Strand /\ CurrentFlowop(x) = f
  BY <1>1, StrandOfSide DEF InCall
<1>3. /\ f.type \in Transmits
      /\ \/ Becomes(x, IF f.type = "sendfile" THEN Executed(x, u, -1) ELSE Returned(x, u, -1))
         \/ Becomes(x, Returned(x, s, -1))
  BY <1>2 DEF WriteFails
<1>4. u \in Strand /\ u.at = s.at /\ u.sz = s.sz /\ u.size = s.size /\ u.result = "running"
  BY <1>1, <1>2 DEF Strand
<1> HIDE DEF u
<1>5. Steady(x, s) /\ Steady(x, u) /\ FlowopAt(x, u) = f
  BY <1>1, <1>4, SteadySide
<1>6. -1 \in Int /\ ~(-1 >= 0) /\ ~(-1 > 0)
  OBVIOUS
<1>7. Exact(x, Executed(x, u, -1)) /\ Exact(x, Executed(x, s, -1))
  BY <1>2, <1>5, <1>6, ExecutedCounts
<1>8. Returned(x, s, -1) = Executed(x, s, -1) /\ Returned(x, u, -1) = Executed(x, u, -1)
  BY DEF Returned
<1> HIDE DEF s, f
<1> QED BY ONLY <1>3, <1>7, <1>8

\* do_sendfile.
LEMMA SendFileCounts ==
  ASSUME CountInv, EvenExecutions, Plain, NEW x \in Side, SendFile(x)
  PROVE  \E t : Exact(x, t) /\ Becomes(x, t)
<1> DEFINE s == st[x]
           f == FlowopAt(x, s)
           room == Room(wire[Peer(x)])
           chunk == IF f.size = 0 THEN FileSize ELSE f.size
<1>1. TypeInv /\ s.result = "running" /\ s.stage = "rest"
  BY DEF SendFile, Runs, CountInv
<1>2. /\ InCall(s) /\ profile \in Profiles /\ s \in Strand /\ CurrentFlowop(x) = f /\ f \in Flowop
      /\ Called(x, s) /\ Placed(x, s)
  BY <1>1, StrandOfSide DEF InCall
<1>3. f.type = "sendfile" /\ room > 0
  BY <1>2 DEF SendFile
<1>4. /\ s.sz \in Nat /\ s.moved \in Nat /\ s.counted \in Int /\ s.sz < FileSize /\ FileSize \in Nat
      /\ chunk \in Nat /\ room \in Nat
  BY <1>1, <1>2, <1>3, ExchangeAssumption, RoomIsNat, Frame DEF Called, Strand, Flowop
<1>5. PICK n \in 1 .. Min({chunk, FileSize - s.sz, room}) :
        LET t == [s EXCEPT !.sz = @ + n, !.moved = @ + n]
        IN Becomes(x, IF t.sz < FileSize /\ f.size > 0 THEN t ELSE Executed(x, t, t.sz))
  BY <1>2 DEF SendFile
<1>6. n \in Nat \ {0} /\ s.sz + n <= FileSize
  <2> DEFINE rest == FileSize - s.sz
  <2>1. rest \in Nat /\ n \in 1 .. Min({chunk, rest, room})
    BY <1>4, <1>5
  <2>2. chunk \in Nat /\ room \in Nat
    BY <1>4
  <2> HIDE DEF rest, chunk, room
  <2>3. Min({chunk, rest, room}) \in Nat /\ Min({chunk, rest, room}) <= rest
    BY ONLY <2>1, <2>2, MinOfThree
  <2>4. n \in Nat \ {0} /\ n <= rest
    BY ONLY <2>1, <2>3
  <2> QED BY <1>4, <2>4 DEF rest
<1>7. Exact(x, s) /\ Steady(x, s) /\ Earlier(x, s) \in Nat
  BY <1>1, <1>2, SteadySide, EarlierIsNat DEF CountInv
<1>8. /\ Owes(x, s, s.sz + 0)
      /\ f.count > 1 => s.size = Each(f) /\ f.size > 0
  BY <1>2, <1>3, <1>7 DEF Exact, Steady, Even
<1> DEFINE sz == s.sz + n
           moved == s.moved + n
           t == [s EXCEPT !.sz = sz, !.moved = moved]
<1>9. Becomes(x, IF t.sz < FileSize /\ f.size > 0 THEN t ELSE Executed(x, t, t.sz))
  BY <1>5
<1>10. sz \in Nat /\ moved \in Nat /\ sz = s.sz + n /\ moved = s.moved + n
  BY <1>4, <1>6
<1> HIDE DEF sz, moved
<1>11. /\ t \in Strand /\ t.sz = sz /\ t.at = s.at /\ t.stage = "rest" /\ t.result = "running" /\ t.n = s.n
       /\ t.moved = moved /\ t.counted = s.counted /\ t.size = s.size
  BY <1>1, <1>2, <1>10 DEF Strand
<1> HIDE DEF t
<1>12. Steady(x, t) /\ FlowopAt(x, t) = f /\ t.sz \in Int
  BY <1>1, <1>10, <1>11, SteadySide
<1>13. Earlier(x, t) = Earlier(x, s)
  BY <1>11, <1>12 DEF Earlier
<1>14. Owes(x, t, t.sz) /\ Owes(x, t, t.sz + 0)
  BY <1>4, <1>6, <1>7, <1>8, <1>10, <1>11, <1>12, <1>13 DEF Owes
<1>15. Each(f) = FileSize /\ f.type \notin Moving
  BY <1>3 DEF Each, Moving
<1> HIDE DEF f
<1>16. CASE t.sz < FileSize /\ f.size > 0
  <2>1. Exact(x, t)
    BY <1>3, <1>8, <1>11, <1>12, <1>14, <1>15 DEF Exact
  <2> QED BY <1>9, <1>16, <2>1
<1>17. CASE ~(t.sz < FileSize /\ f.size > 0)
  <2>1. f.count > 1 => t.sz = Each(f)
    BY <1>4, <1>6, <1>8, <1>10, <1>11, <1>15, <1>17
  <2>2. Exact(x, Executed(x, t, t.sz))
    BY <1>2, <1>12, <1>14, <2>1, ExecutedCounts
  <2> QED BY <1>9, <1>17, <2>2
<1> QED BY <1>16, <1>17

LEMMA StepCounts ==
  ASSUME CountInv, SizesAreGiven, EvenExecutions, [Next]_vars
  PROVE  CountInv'
<1>1. TypeInv'
  BY StepOK DEF CountInv
<1>2. ASSUME profile' = profile, st' = st PROVE CountInv'
  <2>1. Plain' = Plain
    BY <1>2 DEF Plain
  <2>2. Plain => \A y \in Side : Exact(y, st[y])'
    BY <1>2 DEF CountInv, Exact, Owes, Earlier, FlowopAt, Txn
  <2> QED BY <1>1, <2>1, <2>2 DEF CountInv
<1>3. ASSUME UNCHANGED vars PROVE CountInv'
  BY <1>2, <1>3 DEF vars
<1>4. ASSUME NEW x \in Side, Lose(x) PROVE CountInv'
  BY <1>2, <1>4 DEF Lose
<1>5. ASSUME NEW x \in Side, Step(x) PROVE CountInv'
  <2>1. profile' = profile
    BY <1>5 DEF Step, Execute, FirstRead, Read, HangUp, GivesUp, FirstWrite, Write, WriteFails, SendFile
  <2>2. CASE Plain
    <3>1. \E t : Exact(x, t) /\ Becomes(x, t)
      BY <1>5, <2>2, ExecuteCounts, FirstReadCounts, ReadCounts, NothingReadCounts, WritesCount,
         WriteFailsCounts, SendFileCounts DEF Step
    <3> QED BY <1>1, <2>1, <3>1, BecomesCounts
  <2>3. CASE ~Plain
    BY <1>1, <2>1, <2>3 DEF CountInv, Plain
  <2> QED BY <2>2, <2>3
<1> QED BY <1>3, <1>4, <1>5 DEF Next, Stopped

\* Between two flowops a strand that met no error has counted the bytes that it moved, if the
\* executions of a flowop that is executed more than once are alike (flowop_execute, stats_update).
THEOREM CountedMoved == SizesAreGiven /\ EvenExecutions /\ Spec => []CountedIsMoved
<1>1. Init => CountInv
  <2>1. SUFFICES ASSUME Init PROVE CountInv
    OBVIOUS
  <2>2. TypeInv
    BY <2>1, InitOK
  <2>3. ASSUME NEW x \in Side PROVE Exact(x, st[x])
    <3>1. profile \in Profiles /\ Placed(x, st[x])
      BY <2>2, StrandOfSide
    <3>2. st[x].n = 0 /\ st[x].counted = 0 /\ st[x].moved = 0 /\ st[x].stage = "begin"
      BY <2>1 DEF Init
    <3>3. Earlier(x, st[x]) = 0
      BY <3>1, <3>2, EarlierIsNat
    <3> QED BY <3>2, <3>3 DEF Exact, InCall
  <2> QED BY <2>2, <2>3 DEF CountInv
<1>2. /\ SizesAreGiven /\ EvenExecutions /\ CountInv /\ [Next]_vars
      => SizesAreGiven' /\ EvenExecutions' /\ CountInv'
  BY StepCounts DEF SizesAreGiven, EvenExecutions
<1>3. CountInv => CountedIsMoved
  <2>1. SUFFICES ASSUME CountInv, Plain, NEW x \in Side, st[x].result \in {"running", "success"},
                        st[x].stage = "begin", st[x].n = 0
                 PROVE  st[x].counted = st[x].moved
    BY DEF CountedIsMoved, Plain
  <2>2. /\ Exact(x, st[x]) /\ profile \in Profiles /\ Placed(x, st[x]) /\ st[x].counted \in Int
    BY <2>1, StrandOfSide DEF CountInv, Strand
  <2>3. Earlier(x, st[x]) = 0
    BY <2>1, <2>2, EarlierIsNat
  <2> QED BY <2>1, <2>2, <2>3 DEF Exact
<1> QED BY <1>1, <1>2, <1>3, PTL DEF Spec

-----------------------------------------------------------------------------
(* What is left                                                             *)

Receives == {"read", "recv"}

\* What one execution moves: bytes of a stream, or a number of messages.
Amount(f) ==
  IF f.type \notin Moving \cup {"sendfile"} THEN 0
  ELSE IF Stream THEN Each(f) ELSE Repeats(f)

\* Profiles in which each flowop of the slave moves as much as the master's.  Larger reads amount to
\* the same only if there are fewer of them without a remainder, and a file only if it is as large as
\* the slave's reads.  A size that is drawn, and a file that is sent in one call, may be short.
\* A message is read as it was written only if both have one size, and the batch of an association
\* may be cut short by the end of it.
AmountsAgree ==
  /\ \A i \in DOMAIN profile.flowops :
       LET f == profile.flowops[i]
           g == Optimized(Mirrored(f))
       IN /\ ~f.random /\ ~f.canfail
          /\ f.type = "sendfile" => Stream /\ f.size > 0
          /\ f.count * Amount(f) = g.count * Amount(g)
          /\ profile.proto = "sctp" => f.repeat = 1 /\ f.batch = 1
  /\ Messages =>
       \A i, j \in DOMAIN profile.flowops :
         LET f == profile.flowops[i]
             g == profile.flowops[j]
         IN f.type \in Moving /\ g.type \in Moving => f.size = g.size /\ f.rsize <= f.size

\* What flowop i brings to side d in one iteration, and the first i of them.
Volume(d, i) ==
  LET f == Txn(d).flowops[i] IN IF f.type \in Receives THEN f.count * Amount(f) ELSE 0

IsSum(d, S) ==
  /\ S \in [0 .. Len(profile.flowops) -> Nat]
  /\ S[0] = 0
  /\ \A i \in 1 .. Len(profile.flowops) : S[i] = S[i - 1] + Volume(d, i)

Upto(d) == CHOOSE S : IsSum(d, S)

\* What the iterations before this one, and the first i flowops of this one, bring to side d.
Base(d, iter, i) == (iter - 1) * Upto(d)[Len(profile.flowops)] + Upto(d)[i]

\* The flowops of side x that move what side d gets.
Kinds(x, d) == IF x = d THEN Receives ELSE Transmits

\* A strand at flowop s.at has moved q with it.
Position(d, x, s, q) ==
  Base(d, s.iter, s.at - 1) + (IF FlowopAt(x, s).type \in Kinds(x, d) THEN q ELSE 0)

\* What the executions of the flowop have moved so far.
Progress(x, s) ==
  s.n * Amount(FlowopAt(x, s)) + (IF s.stage = "begin" THEN 0 ELSE IF Stream THEN s.sz ELSE s.rep)

Done(d, x, s) ==
  IF s.result = "success" THEN Base(d, s.iter, s.at) ELSE Position(d, x, s, Progress(x, s))

Well(s) == s.result \in {"running", "success"}

\* In a call the size is the flowop's.  One of a stream is for the rest of it; one for messages is
\* for whole messages, each of that size.
Sized(x, s) ==
  LET f == FlowopAt(x, s)
  IN /\ s.n < f.count
     /\ f.type \in Moving => s.size = f.size /\ (s.rep = 0 => s.total = 0)
     /\ f.type \in Moving /\ Stream => s.rep = 0 /\ s.left = s.size - s.sz
     /\ Messages => /\ s.sz = 0 /\ s.rep < Repeats(f) /\ s.left >= s.size
                    /\ s.rep > 0 => s.total >= s.size
                    /\ s.stage = "first" \/ f.type \in Transmits => s.left = s.size

Within(x, s) ==
  /\ s.iter <= profile.iter
  /\ s.result = "success" => s.iter = profile.iter /\ s.at = Len(profile.flowops)
  /\ s.result = "running" => s.n = 0 \/ s.n < FlowopAt(x, s).count
  /\ InCall(s) => Sized(x, s)

\* What is on its way.
Load(w) == IF ~Stream THEN Len(w) ELSE IF w = <<>> THEN 0 ELSE Head(w)

Whole(w) ==
  /\ Stream => Len(w) <= 1
  /\ Messages => \A x \in Side : \A i \in 1 .. Len(profile.flowops) : \A k \in 1 .. Len(w) :
       Txn(x).flowops[i].type \in Moving => w[k] = Txn(x).flowops[i].size

\* As long as no strand has failed: what one side has sent, the other has received or will.
Kept ==
  AmountsAgree /\ lost = 0 /\ (\A x \in Side : Well(st[x])) =>
    \A x \in Side :
      /\ Within(x, st[x])
      /\ Whole(wire[x])
      /\ Done(x, Peer(x), st[Peer(x)]) = Done(x, x, st[x]) + Load(wire[x])

LEMMA AmountIsNat ==
  ASSUME profile \in Profiles, NEW f \in Flowop
  PROVE  Repeats(f) \in Nat \ {0} /\ Amount(f) \in Nat /\ f.count * Amount(f) \in Nat
<1>1. /\ f.size \in Nat /\ f.count \in Nat /\ f.repeat \in Nat \ {0} /\ f.batch \in Nat \ {0}
      /\ FileSize \in Nat
  BY FlowopFields, ExchangeAssumption
<1>2. Repeats(f) \in Nat \ {0}
  <2>1. f.repeat * f.batch \in Nat \ {0}
    <3> DEFINE r == f.repeat
               b == f.batch
    <3>1. r \in Nat \ {0} /\ b \in Nat \ {0}
      BY <1>1
    <3> HIDE DEF r, b
    <3>2. r * b \in Nat \ {0}
      BY <3>1
    <3> QED BY <3>2 DEF r, b
  <2> QED BY <1>1, <2>1 DEF Repeats
<1>3. Amount(f) \in Nat
  BY <1>1, <1>2 DEF Amount, Each
<1>4. f.count * Amount(f) \in Nat
  <2> DEFINE a == Amount(f)
             c == f.count
  <2>1. a \in Nat /\ c \in Nat
    BY <1>1, <1>3
  <2> HIDE DEF a, c
  <2>2. c * a \in Nat
    BY <2>1
  <2> QED BY <2>2 DEF a, c
<1> QED BY <1>2, <1>3, <1>4

\* The flowop of the slave next to the master's.
LEMMA Opposites ==
  ASSUME profile \in Profiles, AmountsAgree, NEW i \in 1 .. Len(profile.flowops)
  PROVE  LET f == Txn("master").flowops[i]
             g == Txn("slave").flowops[i]
         IN /\ f \in Flowop /\ g \in Flowop /\ f = profile.flowops[i] /\ g.type = Opposite(f.type)
            /\ ~f.random /\ ~g.random /\ ~f.canfail /\ ~g.canfail
            /\ f.type = "sendfile" => Stream /\ f.size > 0
            /\ f.count * Amount(f) = g.count * Amount(g)
            /\ profile.proto = "sctp" => Repeats(f) = 1 /\ Repeats(g) = 1
            /\ Messages /\ f.type \in Moving => g.size = f.size
<1> DEFINE f == profile.flowops[i]
           m == Mirrored(f)
           g == Optimized(m)
<1>1. /\ f \in Flowop /\ i \in DOMAIN profile.flowops
      /\ Txn("master").flowops[i] = f /\ Txn("slave").flowops[i] = g
  BY ProfileFields, TxnFacts DEF Side
<1>2. /\ m \in Flowop /\ m.type = Opposite(f.type) /\ m.size = (IF f.type = "sendfile" THEN SlaveRead ELSE f.size)
      /\ m.rsize = f.rsize /\ m.random = f.random /\ m.canfail = f.canfail
      /\ m.repeat = f.repeat /\ m.batch = f.batch
  BY <1>1, MirroredFields
<1>3. /\ ~f.random /\ ~f.canfail /\ (f.type = "sendfile" => Stream /\ f.size > 0)
      /\ f.count * Amount(f) = g.count * Amount(g)
      /\ profile.proto = "sctp" => f.repeat = 1 /\ f.batch = 1
      /\ Messages /\ f.type \in Moving => f.rsize <= f.size
  BY <1>1 DEF AmountsAgree
<1> HIDE DEF m
<1>4. /\ g \in Flowop /\ g.type = m.type /\ g.size = (IF m.rsize > m.size THEN m.rsize ELSE m.size)
      /\ g.random = m.random /\ g.canfail = m.canfail /\ g.repeat = m.repeat /\ g.batch = m.batch
  BY <1>2, OptimizedFields
<1> HIDE DEF g
<1>5. Messages /\ f.type \in Moving => g.size = f.size
  <2>1. f.size \in Nat /\ f.rsize \in Nat
    BY <1>1, FlowopFields
  <2> QED BY <1>2, <1>3, <1>4, <2>1 DEF Moving
<1>6. profile.proto = "sctp" => Repeats(f) = 1 /\ Repeats(g) = 1
  BY <1>2, <1>3, <1>4 DEF Repeats, Stream
<1> HIDE DEF f
<1>7. g.type = Opposite(f.type) /\ ~g.random /\ ~g.canfail
  BY <1>2, <1>3, <1>4
<1>8. /\ f \in Flowop /\ g \in Flowop /\ g.type = Opposite(f.type)
      /\ ~f.random /\ ~g.random /\ ~f.canfail /\ ~g.canfail
      /\ f.type = "sendfile" => Stream /\ f.size > 0
      /\ f.count * Amount(f) = g.count * Amount(g)
      /\ profile.proto = "sctp" => Repeats(f) = 1 /\ Repeats(g) = 1
      /\ Messages /\ f.type \in Moving => g.size = f.size
  BY <1>1, <1>3, <1>4, <1>5, <1>6, <1>7, Zenon
<1> QED BY <1>1, <1>8, Zenon DEF f

\* What a flowop of a side moves, and where to.
LEMMA FlowopOfSide ==
  ASSUME profile \in Profiles, AmountsAgree, NEW x \in Side, NEW i \in 1 .. Len(profile.flowops)
  PROVE  LET f == Txn(x).flowops[i]
         IN /\ f \in Flowop /\ ~f.random /\ ~f.canfail /\ (f.type = "sendfile" => Stream /\ f.size > 0)
            /\ profile.proto = "sctp" => Repeats(f) = 1
            /\ \A d \in Side : /\ Volume(d, i) \in Nat
                               /\ Volume(d, i) = IF f.type \in Kinds(x, d) THEN f.count * Amount(f) ELSE 0
<1> DEFINE f == Txn("master").flowops[i]
           g == Txn("slave").flowops[i]
           h == Txn(x).flowops[i]
<1>1. /\ f \in Flowop /\ g \in Flowop /\ g.type = Opposite(f.type)
      /\ ~f.random /\ ~g.random /\ ~f.canfail /\ ~g.canfail
      /\ f.type = "sendfile" => Stream /\ f.size > 0
      /\ f.count * Amount(f) = g.count * Amount(g)
      /\ profile.proto = "sctp" => Repeats(f) = 1 /\ Repeats(g) = 1
  BY Opposites
<1>2. g.type # "sendfile"
  BY <1>1 DEF Opposite
<1>3. h = IF x = "master" THEN f ELSE g
  BY DEF Side
<1>4. f.type \in Receives <=> g.type \in Transmits
  BY <1>1, FlowopFields DEF Opposite, Receives, Transmits, FlowopType
<1>5. g.type \in Receives <=> f.type \in Transmits
  BY <1>1, FlowopFields DEF Opposite, Receives, Transmits, FlowopType
<1>6. ASSUME NEW d \in Side
      PROVE  /\ Volume(d, i) \in Nat
             /\ Volume(d, i) = IF h.type \in Kinds(x, d) THEN h.count * Amount(h) ELSE 0
  <2>1. f.count * Amount(f) \in Nat /\ g.count * Amount(g) \in Nat
    BY <1>1, AmountIsNat
  <2>2. Volume(d, i) = IF d = "master" THEN IF f.type \in Receives THEN f.count * Amount(f) ELSE 0
                       ELSE IF g.type \in Receives THEN g.count * Amount(g) ELSE 0
    BY DEF Volume, Side
  <2>3. Kinds(x, d) = IF x = d THEN Receives ELSE Transmits
    BY DEF Kinds
  <2>4. x \in {"master", "slave"} /\ d \in {"master", "slave"}
    BY DEF Side
  <2> HIDE DEF f, g
  <2>5. CASE x = "master"
    BY <1>1, <1>3, <1>4, <1>5, <2>1, <2>2, <2>3, <2>4, <2>5
  <2>6. CASE x = "slave"
    BY <1>1, <1>3, <1>4, <1>5, <2>1, <2>2, <2>3, <2>4, <2>6
  <2> QED BY <2>4, <2>5, <2>6
<1> HIDE DEF f, g, Volume
<1>7. /\ h \in Flowop /\ ~h.random /\ ~h.canfail /\ (h.type = "sendfile" => Stream /\ h.size > 0)
      /\ profile.proto = "sctp" => Repeats(h) = 1
  BY <1>1, <1>2, <1>3
<1> QED BY <1>6, <1>7

\* Messages are of one size.
LEMMA OneSize ==
  ASSUME profile \in Profiles, AmountsAgree, Messages,
         NEW x \in Side, NEW i \in 1 .. Len(profile.flowops), Txn(x).flowops[i].type \in Moving,
         NEW y \in Side, NEW j \in 1 .. Len(profile.flowops), Txn(y).flowops[j].type \in Moving
  PROVE  Txn(x).flowops[i].size = Txn(y).flowops[j].size
<1>1. ASSUME NEW z \in Side, NEW k \in 1 .. Len(profile.flowops), Txn(z).flowops[k].type \in Moving
      PROVE  /\ profile.flowops[k].type \in Moving
             /\ Txn(z).flowops[k].size = profile.flowops[k].size
  <2> DEFINE f == Txn("master").flowops[k]
             g == Txn("slave").flowops[k]
  <2>1. /\ f \in Flowop /\ f = profile.flowops[k] /\ g.type = Opposite(f.type)
        /\ f.type = "sendfile" => Stream
        /\ Messages /\ f.type \in Moving => g.size = f.size
    BY Opposites
  <2>2. f.type # "sendfile"
    BY <2>1 DEF Messages
  <2>3. CASE z = "master"
    BY <1>1, <2>1, <2>3
  <2>4. CASE z = "slave"
    <3>1. g.type \in Moving
      BY <1>1, <2>4
    <3>2. f.type \in Moving
      BY <2>1, <2>2, <3>1, FlowopFields DEF Opposite, Moving, FlowopType, Transmits
    <3> QED BY <2>1, <2>4, <3>2
  <2> QED BY <2>3, <2>4 DEF Side
<1>2. i \in DOMAIN profile.flowops /\ j \in DOMAIN profile.flowops
  BY ProfileFields
<1> QED BY <1>1, <1>2 DEF AmountsAgree

\* The sums exist: there is no least number of flowops that have none.
LEMMA SumsExist ==
  ASSUME profile \in Profiles, AmountsAgree, NEW d \in Side
  PROVE  \E S : IsSum(d, S)
<1> DEFINE L == Len(profile.flowops)
           Sums(m) == {S \in [0 .. m -> Nat] : S[0] = 0 /\ \A i \in 1 .. m : S[i] = S[i - 1] + Volume(d, i)}
           Bad == {m \in 0 .. L : Sums(m) = {}}
<1>1. L \in Nat /\ \A i \in 1 .. L : Volume(d, i) \in Nat
  BY ProfileFields, FlowopOfSide
<1>2. SUFFICES Bad = {}
  <2>1. ASSUME Bad = {} PROVE \E S : IsSum(d, S)
    <3>1. L \in 0 .. L /\ L \notin Bad
      <4> HIDE DEF Bad
      <4> QED BY <1>1, <2>1
    <3>2. PICK S \in Sums(L) : TRUE
      BY <3>1
    <3> QED BY <3>2 DEF IsSum
  <2> QED BY <2>1
<1>3. SUFFICES ASSUME Bad # {} PROVE FALSE
  OBVIOUS
<1>4. PICK m \in Bad : \A k \in Bad : m <= k
  <2>1. Bad \subseteq Nat
    BY <1>1
  <2> HIDE DEF Bad
  <2> QED BY <1>3, <2>1, Least
<1>5. m \in 0 .. L /\ m \in Nat
  BY <1>1, <1>4
<1>6. m # 0
  <2> DEFINE S == [i \in 0 .. 0 |-> 0]
  <2>1. S \in Sums(0)
    OBVIOUS
  <2> QED BY <1>4, <2>1
<1>7. m - 1 \in 0 .. L /\ m - 1 \notin Bad
  <2>1. m - 1 \in 0 .. L /\ ~(m <= m - 1)
    BY <1>1, <1>5, <1>6
  <2> HIDE DEF Bad
  <2> QED BY <1>4, <2>1
<1>8. PICK S \in Sums(m - 1) : TRUE
  BY <1>7
<1>9. /\ S \in [0 .. m - 1 -> Nat] /\ S[0] = 0 /\ \A i \in 1 .. m - 1 : S[i] = S[i - 1] + Volume(d, i)
      /\ S[m - 1] \in Nat /\ Volume(d, m) \in Nat
  BY <1>1, <1>5, <1>6, <1>8
<1> DEFINE v == S[m - 1] + Volume(d, m)
           R == [i \in 0 .. m |-> IF i = m THEN v ELSE S[i]]
<1>10. v \in Nat
  BY <1>9
<1>11. R \in [0 .. m -> Nat] /\ R[0] = 0
  BY <1>5, <1>6, <1>9, <1>10
<1>12. ASSUME NEW i \in 1 .. m PROVE R[i] = R[i - 1] + Volume(d, i)
  <2>1. CASE i = m
    <3>1. R[i] = v /\ R[i - 1] = S[m - 1]
      BY <1>5, <1>6, <2>1
    <3> QED BY <2>1, <3>1
  <2>2. CASE i # m
    <3>1. i \in 1 .. m - 1 /\ R[i] = S[i] /\ R[i - 1] = S[i - 1]
      BY <1>5, <2>2
    <3> QED BY <1>9, <3>1
  <2> QED BY <2>1, <2>2
<1>13. R \in Sums(m)
  BY <1>11, <1>12
<1> QED BY <1>4, <1>13

LEMMA UptoIsSum ==
  ASSUME profile \in Profiles, AmountsAgree, NEW d \in Side
  PROVE  IsSum(d, Upto(d))
BY SumsExist DEF Upto

\* What has come before a flowop of an iteration.
LEMMA BaseFacts ==
  ASSUME profile \in Profiles, AmountsAgree, NEW d \in Side, NEW iter \in Nat \ {0}
  PROVE  /\ \A i \in 0 .. Len(profile.flowops) : Base(d, iter, i) \in Nat
         /\ \A i \in 1 .. Len(profile.flowops) : Base(d, iter, i) = Base(d, iter, i - 1) + Volume(d, i)
         /\ Base(d, iter + 1, 0) = Base(d, iter, Len(profile.flowops))
         /\ Base(d, 1, 0) = 0
<1> DEFINE L == Len(profile.flowops)
           U == Upto(d)
           T == U[L]
           k == iter - 1
<1>1. /\ U \in [0 .. L -> Nat] /\ U[0] = 0
      /\ \A i \in 1 .. L : U[i] = U[i - 1] + Volume(d, i)
  BY UptoIsSum DEF IsSum
<1>2. L \in Nat /\ \A i \in 1 .. L : Volume(d, i) \in Nat
  BY ProfileFields, FlowopOfSide
<1>3. T \in Nat /\ k \in Nat /\ \A i \in 0 .. L : U[i] \in Nat
  <2>1. L \in 0 .. L /\ k \in Nat
    BY <1>2
  <2> HIDE DEF L, U
  <2>2. \A i \in 0 .. L : U[i] \in Nat
    BY <1>1
  <2> QED BY <2>1, <2>2
<1>4. k * T \in Nat /\ (k + 1) * T = k * T + T /\ 0 * T = 0
  <2> HIDE DEF k, T
  <2> QED BY <1>3
<1> DEFINE B == k * T
<1>5. \A i : Base(d, iter, i) = B + U[i]
  BY DEF Base
<1>6. Base(d, iter + 1, 0) = (k + 1) * T + U[0]
  <2>1. (iter + 1) - 1 = k + 1
    OBVIOUS
  <2> HIDE DEF k
  <2> QED BY <2>1 DEF Base
<1>7. Base(d, 1, 0) = 0 * T + U[0]
  <2>1. 1 - 1 = 0
    OBVIOUS
  <2> QED BY <2>1 DEF Base
<1>8. B \in Nat /\ (k + 1) * T = B + T
  BY <1>4
<1>9. \A i \in 1 .. L : i - 1 \in 0 .. L /\ i \in 0 .. L
  BY <1>2
<1> DEFINE Z == 0 * T
           N == (k + 1) * T
<1>10. Z = 0 /\ N = B + T /\ Base(d, iter + 1, 0) = N + U[0] /\ Base(d, 1, 0) = Z + U[0]
  BY <1>4, <1>6, <1>7, <1>8
<1> HIDE DEF U, B, k, Z, N
<1>11. ASSUME NEW i \in 0 .. L PROVE Base(d, iter, i) \in Nat
  BY <1>3, <1>5, <1>8
<1>12. ASSUME NEW i \in 1 .. L PROVE Base(d, iter, i) = Base(d, iter, i - 1) + Volume(d, i)
  <2>1. U[i] = U[i - 1] + Volume(d, i) /\ U[i - 1] \in Nat /\ Volume(d, i) \in Nat
    BY <1>1, <1>2, <1>3, <1>9
  <2> QED BY <1>5, <1>8, <2>1
<1>13. Base(d, iter + 1, 0) = Base(d, iter, L)
  <2>1. Base(d, iter, L) = B + T
    BY <1>5 DEF U
  <2>2. N + U[0] = B + T
    BY <1>1, <1>3, <1>8, <1>10
  <2> QED BY <1>10, <2>1, <2>2
<1> QED BY <1>1, <1>10, <1>11, <1>12, <1>13

\* What is derived from the profile stays with it.
LEMMA SameSums ==
  ASSUME profile' = profile
  PROVE  /\ AmountsAgree' = AmountsAgree
         /\ \A d : Upto(d)' = Upto(d)
BY DEF AmountsAgree, Amount, Stream, Messages, Repeats, Upto, IsSum, Volume, Txn

\* Where a strand that has not failed is after a flowop.
LEMMA FlowopEndsAt ==
  ASSUME profile \in Profiles, NEW x \in Side, NEW s, Placed(x, s), s.result = "running",
         s.iter <= profile.iter, NEW ret \in Int, NEW n \in Nat, Well(FlowopEnds(x, s, ret, n))
  PROVE  LET e == FlowopEnds(x, s, ret, n)
             L == Len(profile.flowops)
         IN /\ e.n = 0 /\ e.stage = "begin"
            /\ \/ e.result = "running" /\ s.at < L /\ e.at = s.at + 1 /\ e.iter = s.iter
               \/ e.result = "running" /\ s.at = L /\ s.iter < profile.iter /\ e.at = 1 /\ e.iter = s.iter + 1
               \/ e.result = "success" /\ s.at = L /\ s.iter = profile.iter /\ e.at = s.at /\ e.iter = s.iter
<1> DEFINE d == s.counted + ret * n
           zero == 0
           c == [s EXCEPT !.counted = d, !.n = zero, !.stage = "begin"]
           e == FlowopEnds(x, s, ret, n)
           L == Len(profile.flowops)
<1>1. /\ s \in Strand /\ s.at \in 1 .. L /\ s.iter \in Nat /\ L \in Nat /\ profile.iter \in Nat
      /\ Txn(x).iter = profile.iter /\ Len(Txn(x).flowops) = L
  BY TxnFacts, ProfileFields DEF Placed, Strand
<1>2. c = [Count(s, ret, n) EXCEPT !.n = 0, !.stage = "begin"]
  BY <1>1 DEF Count, Strand
<1>3. e \in {[c EXCEPT !.result = "expired"], [c EXCEPT !.result = "failure"], NextFlowop(x, c)}
  BY <1>2 DEF FlowopEnds
<1>4. zero = 0
  OBVIOUS
<1> HIDE DEF d, zero, e
<1>5. /\ c.n = zero /\ c.stage = "begin" /\ c.at = s.at /\ c.iter = s.iter /\ c.result = "running"
      /\ {"counted", "n", "stage", "moved", "result", "at", "iter"} \subseteq DOMAIN c
  BY <1>1 DEF Strand
<1> HIDE DEF c
<1>6. e = NextFlowop(x, c)
  <2>1. \A v : [c EXCEPT !.result = v].result = v
    BY ONLY <1>5
  <2>2. e.result \notin {"expired", "failure"}
    BY DEF Well, e
  <2> DEFINE a == [c EXCEPT !.result = "expired"]
             b == [c EXCEPT !.result = "failure"]
  <2>3. a.result = "expired" /\ b.result = "failure" /\ e \in {a, b, NextFlowop(x, c)}
    BY <1>3, <2>1
  <2> HIDE DEF a, b
  <2> QED BY ONLY <2>2, <2>3
<1> DEFINE v == c.at + 1
           u == c.iter + 1
           one == 1
<1>7. v = s.at + 1 /\ u = s.iter + 1 /\ one = 1
  BY <1>5
<1>8. CASE s.at < L
  <2>1. e = [c EXCEPT !.at = v]
    BY <1>1, <1>5, <1>6, <1>8 DEF NextFlowop
  <2> HIDE DEF v, u, one
  <2>2. e.at = v /\ e.n = c.n /\ e.stage = c.stage /\ e.result = c.result /\ e.iter = c.iter
    BY ONLY <1>5, <2>1
  <2> QED BY <1>4, <1>5, <1>7, <1>8, <2>2 DEF e
<1>9. CASE s.at = L /\ s.iter < profile.iter
  <2>1. e = [c EXCEPT !.at = one, !.iter = u]
    BY <1>1, <1>5, <1>6, <1>9 DEF NextFlowop
  <2> HIDE DEF v, u, one
  <2>2. e.at = one /\ e.n = c.n /\ e.stage = c.stage /\ e.result = c.result /\ e.iter = u
    BY ONLY <1>5, <2>1
  <2> QED BY <1>4, <1>5, <1>7, <1>9, <2>2 DEF e
<1>10. CASE s.at = L /\ ~(s.iter < profile.iter)
  <2>1. e = [c EXCEPT !.result = "success"]
    BY <1>1, <1>5, <1>6, <1>10 DEF NextFlowop
  <2>2. e.at = c.at /\ e.n = c.n /\ e.stage = c.stage /\ e.result = "success" /\ e.iter = c.iter
    BY ONLY <1>5, <2>1
  <2>3. s.iter = profile.iter
    BY <1>1, <1>10
  <2> QED BY <1>4, <1>5, <1>10, <2>2, <2>3 DEF e
<1> QED BY <1>1, <1>8, <1>9, <1>10

\* A strand of which the flowop has moved q when it was at s is now at t, unless it has failed.
Reaches(x, s, t, q) == Well(t) => Within(x, t) /\ \A d \in Side : Done(d, x, t) = Position(d, x, s, q)

\* A strand in the executions of a flowop.
Ready(x, s) ==
  /\ Placed(x, s) /\ s.result = "running" /\ CurrentFlowop(x) = FlowopAt(x, s)
  /\ s.iter <= profile.iter

\* A strand that has failed reaches whatever was meant.
LEMMA FailedReaches ==
  ASSUME profile \in Profiles, AmountsAgree, NEW x \in Side, NEW s, Ready(x, s), NEW n \in Int, n < 0, NEW q
  PROVE  /\ ~Well(Executed(x, s, n)) /\ ~Well(Returned(x, s, n))
         /\ Reaches(x, s, Executed(x, s, n), q) /\ Reaches(x, s, Returned(x, s, n), q)
<1>1. /\ s \in Strand /\ s.n \in Nat /\ CurrentFlowop(x) = FlowopAt(x, s) /\ s.at \in 1 .. Len(profile.flowops)
  BY DEF Ready, Placed, Strand
<1>2. ~FlowopAt(x, s).canfail
  BY <1>1, FlowopOfSide DEF FlowopAt
<1>3. ASSUME NEW k \in Int, k < 0 PROVE ~Well(Executed(x, s, k))
  <2>1. Executed(x, s, k) = FlowopEnds(x, s, k, s.n)
    BY <1>1, <1>2, <1>3 DEF Executed
  <2>2. FlowopEnds(x, s, k, s.n).result \in {"expired", "failure"}
    BY <1>1, <1>3, FlowopEndsCounts
  <2> QED BY <2>1, <2>2 DEF Well
<1>4. Returned(x, s, n) = Executed(x, s, -1) /\ -1 \in Int /\ -1 < 0
  BY DEF Returned
<1> QED BY <1>3, <1>4 DEF Reaches

\* The end of a flowop that has been executed as often as it must.
LEMMA EndReaches ==
  ASSUME profile \in Profiles, AmountsAgree, NEW x \in Side, NEW s, Ready(x, s),
         NEW ret \in Int, NEW n \in Nat
  PROVE  Reaches(x, s, FlowopEnds(x, s, ret, n), FlowopAt(x, s).count * Amount(FlowopAt(x, s)))
<1> DEFINE e == FlowopEnds(x, s, ret, n)
           L == Len(profile.flowops)
           f == FlowopAt(x, s)
           q == f.count * Amount(f)
<1>1. SUFFICES ASSUME Well(e) PROVE Within(x, e) /\ \A d \in Side : Done(d, x, e) = Position(d, x, s, q)
  BY DEF Reaches
<1>2. /\ s.at \in 1 .. L /\ s.iter \in Nat \ {0} /\ s.iter <= profile.iter /\ Placed(x, s) /\ s.result = "running"
      /\ L \in Nat \ {0} /\ profile.iter \in Nat
  BY ProfileFields DEF Ready, Placed, Strand
<1>3. /\ e.n = 0 /\ e.stage = "begin"
      /\ \/ e.result = "running" /\ s.at < L /\ e.at = s.at + 1 /\ e.iter = s.iter
         \/ e.result = "running" /\ s.at = L /\ s.iter < profile.iter /\ e.at = 1 /\ e.iter = s.iter + 1
         \/ e.result = "success" /\ s.at = L /\ s.iter = profile.iter /\ e.at = s.at /\ e.iter = s.iter
  BY <1>1, <1>2, FlowopEndsAt
<1> HIDE DEF e
<1>4. Within(x, e)
  BY <1>2, <1>3 DEF Within, InCall
<1>5. ASSUME NEW d \in Side PROVE Done(d, x, e) = Position(d, x, s, q)
  <2>1. Position(d, x, s, q) = Base(d, s.iter, s.at)
    <3>1. Volume(d, s.at) = IF f.type \in Kinds(x, d) THEN q ELSE 0
      BY <1>2, FlowopOfSide DEF FlowopAt
    <3>2. Base(d, s.iter, s.at) = Base(d, s.iter, s.at - 1) + Volume(d, s.at)
      BY <1>2, BaseFacts
    <3> QED BY <3>1, <3>2 DEF Position
  <2>2. CASE e.result = "success"
    BY <1>3, <2>1, <2>2 DEF Done
  <2>3. CASE e.result = "running"
    <3>1. Progress(x, e) = 0
      <4> DEFINE a == Amount(FlowopAt(x, e))
      <4>1. a \in Nat
        <5>1. e.at \in 1 .. L
          BY <1>2, <1>3, <2>3
        <5> QED BY <5>1, TxnFacts, AmountIsNat DEF FlowopAt
      <4>2. 0 * a + 0 = 0
        <5> HIDE DEF a
        <5> QED BY <4>1
      <4> QED BY <1>3, <4>2 DEF Progress
    <3>2. e.iter \in Nat \ {0} /\ e.at - 1 \in 0 .. L
      BY <1>2, <1>3, <2>3
    <3>3. Base(d, e.iter, e.at - 1) \in Nat
      BY <3>2, BaseFacts
    <3>4. Done(d, x, e) = Base(d, e.iter, e.at - 1)
      BY <2>3, <3>1, <3>3 DEF Done, Position
    <3>5. CASE s.at < L /\ e.at = s.at + 1 /\ e.iter = s.iter
      <4>1. e.at - 1 = s.at
        BY <1>2, <3>5
      <4> QED BY <2>1, <3>4, <3>5, <4>1
    <3>6. CASE s.at = L /\ e.at = 1 /\ e.iter = s.iter + 1
      <4>1. e.at - 1 = 0
        BY <3>6
      <4>2. Base(d, s.iter + 1, 0) = Base(d, s.iter, L)
        BY <1>2, BaseFacts
      <4> QED BY <2>1, <3>4, <3>6, <4>1, <4>2
    <3> QED BY <1>3, <2>3, <3>5, <3>6
  <2> QED BY <1>1, <2>2, <2>3 DEF Well
<1> QED BY <1>4, <1>5

\* A strand that stays at its flowop.
LEMMA StaysReaches ==
  ASSUME profile \in Profiles, NEW x \in Side, NEW s, Ready(x, s),
         NEW t \in Strand, t.at = s.at, t.iter = s.iter, t.result = "running",
         t.n = 0 \/ t.n < FlowopAt(x, t).count, InCall(t) => Sized(x, t)
  PROVE  Reaches(x, s, t, Progress(x, t))
<1>1. s.iter <= profile.iter
  BY DEF Ready
<1>2. Within(x, t)
  BY <1>1 DEF Within
<1>3. ASSUME NEW d \in Side PROVE Done(d, x, t) = Position(d, x, s, Progress(x, t))
  BY DEF Done, Position, FlowopAt
<1> QED BY <1>2, <1>3 DEF Reaches

\* Where a flowop is, and how far.
LEMMA ReadyFlowop ==
  ASSUME profile \in Profiles, AmountsAgree, NEW x \in Side, NEW s, Ready(x, s)
  PROVE  LET f == FlowopAt(x, s)
         IN /\ f \in Flowop /\ f.count \in Nat /\ Amount(f) \in Nat /\ Repeats(f) \in Nat \ {0}
            /\ f.size \in Nat /\ ~f.random /\ ~f.canfail
            /\ f.type = "sendfile" => Stream /\ f.size > 0
            /\ profile.proto = "sctp" => Repeats(f) = 1
            /\ s \in Strand /\ s.n \in Nat /\ s.n * Amount(f) \in Nat
            /\ (s.n + 1) * Amount(f) = s.n * Amount(f) + Amount(f)
<1> DEFINE f == FlowopAt(x, s)
           a == Amount(f)
           n == s.n
<1>1. s \in Strand /\ n \in Nat /\ s.at \in 1 .. Len(profile.flowops)
  BY DEF Ready, Placed, Strand
<1>2. /\ f \in Flowop /\ ~f.random /\ ~f.canfail /\ (f.type = "sendfile" => Stream /\ f.size > 0)
      /\ profile.proto = "sctp" => Repeats(f) = 1
  BY <1>1, FlowopOfSide DEF FlowopAt
<1>3. a \in Nat /\ Repeats(f) \in Nat \ {0}
  BY <1>2, AmountIsNat
<1>4. f.count \in Nat /\ f.size \in Nat
  BY <1>2, FlowopFields
<1>5. n * a \in Nat /\ (n + 1) * a = n * a + a
  <2> HIDE DEF n, a
  <2> QED BY <1>1, <1>3
<1> QED BY <1>1, <1>2, <1>3, <1>4, <1>5, Zenon

\* One execution has ended well.
LEMMA ExecutedReaches ==
  ASSUME profile \in Profiles, AmountsAgree, NEW x \in Side, NEW s, Ready(x, s), s.n < FlowopAt(x, s).count,
         NEW r \in Int, r >= 0
  PROVE  Reaches(x, s, Executed(x, s, r), s.n * Amount(FlowopAt(x, s)) + Amount(FlowopAt(x, s)))
<1> DEFINE f == FlowopAt(x, s)
           v == s.n + 1
           t == [s EXCEPT !.n = v, !.stage = "begin"]
<1>1. /\ s \in Strand /\ s.n \in Nat /\ f.count \in Nat /\ Amount(f) \in Nat /\ s.n < f.count
      /\ v * Amount(f) = s.n * Amount(f) + Amount(f) /\ v * Amount(f) \in Nat
  <2>1. /\ s \in Strand /\ s.n \in Nat /\ f.count \in Nat /\ Amount(f) \in Nat /\ s.n * Amount(f) \in Nat
        /\ v * Amount(f) = s.n * Amount(f) + Amount(f)
    BY ReadyFlowop
  <2> DEFINE a == Amount(f)
             b == s.n * a
             c == v * a
  <2>2. a \in Nat /\ b \in Nat /\ c = b + a
    BY <2>1
  <2> HIDE DEF a, b, c
  <2>3. c \in Nat
    BY <2>2
  <2> QED BY <2>1, <2>3 DEF c, a
<1>2. CurrentFlowop(x) = f /\ s.result = "running"
  BY DEF Ready
<1>3. v \in Nat /\ v = s.n + 1
  BY <1>1
<1> HIDE DEF v
<1>4. CASE v = f.count
  <2>1. Executed(x, s, r) = FlowopEnds(x, s, r, v)
    BY <1>2, <1>4 DEF Executed, v
  <2>2. Reaches(x, s, FlowopEnds(x, s, r, v), f.count * Amount(f))
    BY <1>3, EndReaches
  <2>3. f.count * Amount(f) = s.n * Amount(f) + Amount(f)
    <3> HIDE DEF f
    <3> QED BY <1>1, <1>4, Zenon
  <2> HIDE DEF f
  <2> QED BY <2>1, <2>2, <2>3, Zenon DEF f
<1>5. CASE v # f.count
  <2>1. Executed(x, s, r) = t
    BY <1>2, <1>5 DEF Executed, v
  <2>2. /\ t \in Strand /\ t.at = s.at /\ t.iter = s.iter /\ t.result = "running" /\ t.n = v /\ t.stage = "begin"
    BY <1>1, <1>2, <1>3 DEF Strand
  <2> HIDE DEF t
  <2>3. FlowopAt(x, t) = f /\ t.n < f.count /\ ~InCall(t)
    BY <1>1, <1>3, <1>5, <2>2 DEF FlowopAt, InCall
  <2>4. Progress(x, t) = s.n * Amount(f) + Amount(f)
    <3> DEFINE c == v * Amount(f)
    <3>1. Progress(x, t) = c + 0
      BY <2>2, <2>3 DEF Progress
    <3>2. c \in Nat /\ c = s.n * Amount(f) + Amount(f)
      BY <1>1
    <3> HIDE DEF c
    <3>3. c + 0 = c
      BY <3>2
    <3> HIDE DEF f
    <3> QED BY <3>1, <3>2, <3>3, Zenon
  <2>5. Reaches(x, s, t, Progress(x, t))
    BY <2>2, <2>3, StaysReaches
  <2> HIDE DEF f
  <2> QED BY <2>1, <2>4, <2>5, Zenon DEF f
<1> QED BY <1>4, <1>5

\* What a call of a stream has moved, or how many messages.
Far(s) == IF Stream THEN s.sz ELSE s.rep

\* A call for the rest of the size.
LEMMA CallReaches ==
  ASSUME profile \in Profiles, AmountsAgree, NEW x \in Side, NEW s, Ready(x, s), s.n < FlowopAt(x, s).count,
         FlowopAt(x, s).type \in Moving, s.size = FlowopAt(x, s).size, s.sz < s.size, Messages => s.sz = 0
  PROVE  Reaches(x, s, Call(s, FlowopAt(x, s)),
                 s.n * Amount(FlowopAt(x, s)) + (IF Stream THEN s.sz ELSE 0))
<1> DEFINE f == FlowopAt(x, s)
           c == Call(s, f)
<1>1. s \in Strand /\ s.sz \in Nat /\ s.size \in Nat /\ Placed(x, s) /\ s.result = "running"
  BY DEF Ready, Placed, Strand
<1>2. /\ StrandOK(x, c) /\ c.result = "running" /\ c.stage = FirstStage(f)
      /\ c.at = s.at /\ c.size = s.size /\ c.sz = s.sz /\ c.left = s.size - s.sz
      /\ c.total = 0 /\ c.rep = 0 /\ c.iter = s.iter /\ c.n = s.n
  BY <1>1, CallOK
<1>3. Repeats(f) \in Nat \ {0} /\ s.n < f.count /\ f.type \in Moving /\ s.size = f.size
  BY ReadyFlowop
<1> HIDE DEF c
<1>4. c \in Strand /\ FlowopAt(x, c) = f /\ c.stage # "begin"
  BY <1>2 DEF StrandOK, Placed, FlowopAt, FirstStage
<1> HIDE DEF f
<1>5. Messages => c.left = c.size
  BY <1>1, <1>2
<1>6. Sized(x, c)
  BY <1>1, <1>2, <1>3, <1>4, <1>5 DEF Sized, Messages
<1>7. Reaches(x, s, c, Progress(x, c))
  BY <1>2, <1>3, <1>4, <1>6, StaysReaches
<1>8. Progress(x, c) = s.n * Amount(f) + (IF Stream THEN s.sz ELSE 0)
  BY <1>2, <1>4 DEF Progress
<1> QED BY <1>7, <1>8 DEF c, f

\* The protocol's function returned n, which is what is left, a part of it, or at least one message.
LEMMA ReturnedReaches ==
  ASSUME profile \in Profiles, AmountsAgree, NEW x \in Side, NEW s, Ready(x, s), s.n < FlowopAt(x, s).count,
         FlowopAt(x, s).type \in Moving, s.size = FlowopAt(x, s).size, s.sz < s.size,
         NEW n \in Nat \ {0},
         Stream => s.sz + n <= s.size,
         Messages => s.sz = 0 /\ n >= s.size
  PROVE  Reaches(x, s, Returned(x, s, n),
                 s.n * Amount(FlowopAt(x, s)) + (IF Stream THEN s.sz + n ELSE Amount(FlowopAt(x, s))))
<1> DEFINE f == FlowopAt(x, s)
           v == s.sz + n
           t == [s EXCEPT !.sz = v]
           e == Amount(f)
           b == s.n * e
<1>1. /\ s \in Strand /\ s.sz \in Nat /\ s.size \in Nat /\ s.at \in 1 .. Len(profile.flowops)
      /\ s.result = "running" /\ CurrentFlowop(x) = f /\ ~f.random /\ s.iter <= profile.iter
      /\ b \in Nat /\ e \in Nat /\ s.n < f.count /\ f.type \in Moving /\ s.size = f.size
  BY ReadyFlowop DEF Ready, Placed, Strand
<1>2. v \in Nat /\ v > 0 /\ (Stream => v <= s.size) /\ (Messages => v >= s.size)
  BY <1>1
<1>3. Returned(x, s, n) = IF Loops(f, t) THEN Call(t, f) ELSE Executed(x, t, t.sz)
  BY <1>1 DEF Returned
<1>4. Stream => v = s.sz + n
  OBVIOUS
<1> HIDE DEF v
<1>5. /\ t \in Strand /\ t.sz = v /\ t.at = s.at /\ t.result = "running" /\ t.size = s.size
      /\ t.n = s.n /\ t.iter = s.iter
  BY <1>1, <1>2 DEF Strand
<1> HIDE DEF t
<1>6. FlowopAt(x, t) = f /\ Ready(x, t)
  BY <1>1, <1>5 DEF FlowopAt, Ready, Placed
<1>7. \A u, q : Reaches(x, t, u, q) => Reaches(x, s, u, q)
  BY <1>5 DEF Reaches, Position, FlowopAt
<1>8. Stream => e = s.size
  BY <1>1 DEF Amount, Each, Moving
<1> HIDE DEF f, e, b
<1>9. CASE Loops(f, t)
  <2>1. t.sz < t.size /\ Returned(x, s, n) = Call(t, f)
    BY <1>3, <1>9 DEF Loops
  <2>2. Stream
    BY <1>1, <1>2, <1>5, <2>1 DEF Messages
  <2>3. Reaches(x, t, Call(t, FlowopAt(x, t)), t.n * Amount(FlowopAt(x, t)) + (IF Stream THEN t.sz ELSE 0))
    BY <1>1, <1>5, <1>6, <2>1, <2>2, CallReaches DEF Messages
  <2>4. t.n * Amount(FlowopAt(x, t)) + (IF Stream THEN t.sz ELSE 0) = b + v
    BY <1>5, <1>6, <2>2 DEF b, e
  <2>5. Reaches(x, t, Call(t, f), b + v)
    BY <1>6, <2>3, <2>4, Zenon
  <2> QED BY <1>4, <1>7, <2>1, <2>2, <2>5, Zenon DEF b, e, f
<1>10. CASE ~Loops(f, t)
  <2>1. Returned(x, s, n) = Executed(x, t, t.sz) /\ t.sz \in Int /\ t.sz >= 0 /\ t.n < FlowopAt(x, t).count
    BY <1>1, <1>2, <1>3, <1>5, <1>6, <1>10
  <2>2. Reaches(x, t, Executed(x, t, t.sz), t.n * Amount(FlowopAt(x, t)) + Amount(FlowopAt(x, t)))
    BY <1>6, <2>1, ExecutedReaches
  <2>3. Reaches(x, s, Returned(x, s, n), b + e)
    BY <1>5, <1>6, <1>7, <2>1, <2>2, Zenon DEF b, e
  <2>4. Stream => e = v
    <3>1. v >= s.size
      BY <1>1, <1>2, <1>5, <1>10 DEF Loops
    <3> QED BY <1>1, <1>2, <1>8, <3>1
  <2>5. b + e = b + (IF Stream THEN v ELSE e)
    BY <2>4
  <2> QED BY <2>3, <2>5, Zenon DEF b, e, f, v
<1> QED BY <1>9, <1>10

\* A repetition has ended: all of the bytes of the call, or one message more.
LEMMA RepeatReaches ==
  ASSUME profile \in Profiles, AmountsAgree, NEW x \in Side, NEW s, Ready(x, s), s.n < FlowopAt(x, s).count,
         FlowopAt(x, s).type \in Moving, s.size = FlowopAt(x, s).size, s.sz < s.size,
         Stream => s.rep = 0 /\ s.total > 0 /\ s.sz + s.total <= s.size,
         Messages => s.sz = 0 /\ s.rep < Repeats(FlowopAt(x, s)) /\ s.total >= s.size
  PROVE  Reaches(x, s, Repeat(x, s),
                 s.n * Amount(FlowopAt(x, s)) + (IF Stream THEN s.sz + s.total ELSE s.rep + 1))
<1> DEFINE f == FlowopAt(x, s)
           e == Amount(f)
           b == s.n * e
<1>1. /\ s \in Strand /\ s.sz \in Nat /\ s.size \in Nat /\ s.rep \in Nat /\ s.total \in Nat
      /\ s.at \in 1 .. Len(profile.flowops) /\ s.result = "running" /\ CurrentFlowop(x) = f
      /\ s.n < f.count /\ f.type \in Moving /\ s.size = f.size /\ Repeats(f) \in Nat \ {0}
  BY ReadyFlowop DEF Ready, Placed, Strand
<1>2. (Stream => Repeats(f) = 1) /\ (Messages => e = Repeats(f))
  <2>1. Stream => Repeats(f) = 1
    BY DEF Repeats, Stream
  <2>2. f.type \in Moving \cup {"sendfile"}
    BY <1>1
  <2>3. Messages => e = Repeats(f)
    <3> HIDE DEF f
    <3> QED BY <2>2 DEF Amount, Messages
  <2> QED BY <2>1, <2>3
<1>3. CASE s.rep + 1 < Repeats(f)
  <2> DEFINE rep == s.rep + 1
             rest == s.size - s.sz
             stage == FirstStage(f)
             c == [s EXCEPT !.rep = rep, !.left = rest, !.stage = stage]
  <2>1. Repeat(x, s) = c
    BY <1>1, <1>3 DEF Repeat
  <2>2. /\ stage \in {"first", "rest"} /\ rep \in Nat /\ rest \in Nat /\ rep = s.rep + 1
        /\ rep < Repeats(f) /\ rep > 0 /\ Messages /\ rest = s.size
    <3>1. Messages
      BY <1>1, <1>2, <1>3 DEF Messages
    <3> QED BY <1>1, <1>3, <3>1 DEF FirstStage
  <2> HIDE DEF rep, rest, stage
  <2>3. /\ c \in Strand /\ c.stage = stage /\ c.at = s.at /\ c.sz = s.sz /\ c.total = s.total /\ c.n = s.n
        /\ c.rep = rep /\ c.left = rest /\ c.result = "running" /\ c.size = s.size /\ c.iter = s.iter
    BY <1>1, <2>2 DEF Strand
  <2> HIDE DEF c
  <2>4. FlowopAt(x, c) = f
    BY <2>3 DEF FlowopAt
  <2>5. Sized(x, c)
    <3> HIDE DEF f
    <3> QED BY <1>1, <2>2, <2>3, <2>4 DEF Sized, Messages, f
  <2>6. Progress(x, c) = b + (IF Stream THEN s.sz + s.total ELSE s.rep + 1)
    BY <2>2, <2>3, <2>4 DEF Progress, Messages
  <2>7. c.n < FlowopAt(x, c).count
    BY <1>1, <2>3, <2>4
  <2>8. Reaches(x, s, c, Progress(x, c))
    BY <2>3, <2>5, <2>7, StaysReaches
  <2> QED BY <2>1, <2>6, <2>8, Zenon
<1>4. CASE ~(s.rep + 1 < Repeats(f))
  <2>1. Repeat(x, s) = Returned(x, s, s.total)
    BY <1>1, <1>4 DEF Repeat
  <2>2. s.total \in Nat \ {0} /\ (Messages => e = s.rep + 1)
    BY <1>1, <1>2, <1>4 DEF Messages
  <2>3. Reaches(x, s, Returned(x, s, s.total), b + (IF Stream THEN s.sz + s.total ELSE e))
    BY <1>1, <2>2, ReturnedReaches DEF Messages
  <2>4. b + (IF Stream THEN s.sz + s.total ELSE e) = b + (IF Stream THEN s.sz + s.total ELSE s.rep + 1)
    BY <2>2 DEF Messages
  <2> QED BY <2>1, <2>3, <2>4, Zenon
<1> QED BY <1>3, <1>4

\* What a read takes, the wire loses: bytes of a stream, or one message that fits.
LEMMA TakesLoad ==
  ASSUME profile \in Profiles, NEW w \in Seq(Nat \ {0}), w # <<>>, NEW n \in Nat \ {0}, NEW t \in Takes(w, n),
         Whole(w), Messages => n >= Head(w)
  PROVE  /\ Whole(t.rest)
         /\ Load(w) = Load(t.rest) + (IF Stream THEN t.got ELSE 1)
         /\ Messages => t.got = Head(w)
<1>1. Head(w) \in Nat \ {0} /\ Tail(w) \in Seq(Nat \ {0}) /\ Len(w) \in Nat \ {0} /\ Len(Tail(w)) = Len(w) - 1
  OBVIOUS
<1> DEFINE h == Head(w)
           m == Min({n, h})
<1>2. m \in Nat \ {0} /\ m <= n /\ m <= h /\ m \in {n, h}
  BY <1>1, MinOfTwo
<1> HIDE DEF m
<1>3. CASE Stream
  <2>1. Takes(w, n) = {[got |-> k, rest |-> IF k = h THEN <<>> ELSE <<h - k>>] : k \in 1 .. m}
    BY <1>3 DEF Takes, m
  <2>2. PICK k \in 1 .. m : t = [got |-> k, rest |-> IF k = h THEN <<>> ELSE <<h - k>>]
    <3> HIDE DEF h
    <3> QED BY ONLY t \in Takes(w, n), <2>1
  <2>3. t.got = k /\ t.rest = (IF k = h THEN <<>> ELSE <<h - k>>) /\ k \in Nat
    BY <1>2, <2>2
  <2>4. Load(w) = h
    BY <1>3 DEF Load
  <2>5. CASE k = h
    <3>1. t.rest = <<>> /\ Len(<<>>) = 0
      BY <2>3, <2>5
    <3> QED BY <1>1, <1>3, <2>3, <2>4, <2>5, <3>1 DEF Load, Whole, Messages
  <2>6. CASE k # h
    <3> DEFINE j == h - k
    <3>1. t.rest = <<j>> /\ Len(<<j>>) = 1 /\ Head(<<j>>) = j /\ <<j>> # <<>> /\ h = j + k
      BY <1>1, <1>2, <2>3, <2>6
    <3> HIDE DEF j
    <3> QED BY <1>3, <2>3, <2>4, <3>1 DEF Load, Whole, Messages
  <2> QED BY <2>5, <2>6
<1>4. CASE Messages
  <2>1. m = h
    BY <1>1, <1>2, <1>4
  <2>2. t = [got |-> m, rest |-> IF profile.proto = "sctp" /\ h > n THEN <<h - n>> \o Tail(w) ELSE Tail(w)]
    BY <1>4 DEF Takes, m, Messages
  <2>3. t.got = h /\ t.rest = Tail(w)
    <3>1. ~(h > n)
      BY <1>1, <1>4
    <3>2. t = [got |-> m, rest |-> Tail(w)]
      BY <2>2, <3>1
    <3> QED BY <2>1, <3>2
  <2>4. Load(w) = Len(w) /\ Load(Tail(w)) = Len(Tail(w))
    BY <1>4 DEF Load, Messages
  <2>5. Whole(Tail(w))
    <3>1. \A k \in 1 .. Len(Tail(w)) : Tail(w)[k] = w[k + 1] /\ k + 1 \in 1 .. Len(w)
      BY <1>1
    <3> QED BY <1>4, <3>1 DEF Whole, Messages
  <2> QED BY <1>1, <1>4, <2>3, <2>4, <2>5 DEF Messages
<1> QED BY <1>3, <1>4 DEF Messages

\* What a write puts, the wire gains: bytes of a stream, or one message of the size.
LEMMA PutLoad ==
  ASSUME profile \in Profiles, AmountsAgree, NEW w \in Seq(Nat \ {0}), NEW n \in Nat \ {0}, Whole(w),
         NEW x \in Side, NEW i \in 1 .. Len(profile.flowops),
         Messages => Txn(x).flowops[i].type \in Moving /\ n = Txn(x).flowops[i].size
  PROVE  /\ Whole(Put(w, n))
         /\ Load(Put(w, n)) = Load(w) + (IF Stream THEN n ELSE 1)
         /\ Messages => Put(w, n) = Append(w, n)
<1>1. CASE Stream
  <2>1. CASE w = <<>>
    <3>1. Put(w, n) = Append(w, n)
      BY <2>1 DEF Put
    <3>2. Append(w, n) = <<n>> /\ Len(<<n>>) = 1 /\ Head(<<n>>) = n /\ <<n>> # <<>>
      BY <2>1
    <3>3. Load(w) = 0 /\ 0 + n = n
      BY <1>1, <2>1 DEF Load
    <3> QED BY <1>1, <3>1, <3>2, <3>3 DEF Load, Whole, Messages
  <2>2. CASE w # <<>>
    <3> DEFINE j == Head(w) + n
    <3>1. Put(w, n) = <<j>>
      BY <1>1, <2>2 DEF Put
    <3>2. Len(<<j>>) = 1 /\ Head(<<j>>) = j /\ <<j>> # <<>>
      OBVIOUS
    <3>3. Load(w) = Head(w)
      BY <1>1, <2>2 DEF Load
    <3>4. j = Head(w) + n
      OBVIOUS
    <3> HIDE DEF j
    <3> QED BY <1>1, <3>1, <3>2, <3>3, <3>4 DEF Load, Whole, Messages
  <2> QED BY <2>1, <2>2
<1>2. CASE Messages
  <2> DEFINE a == Append(w, n)
  <2>1. Put(w, n) = a
    BY <1>2 DEF Put, Messages
  <2>2. /\ Len(a) = Len(w) + 1 /\ a[Len(w) + 1] = n /\ \A k \in 1 .. Len(w) : a[k] = w[k]
        /\ Len(w) \in Nat
    OBVIOUS
  <2> HIDE DEF a
  <2>3. Load(a) = Load(w) + 1
    BY <1>2, <2>2 DEF Load, Messages
  <2>4. ASSUME NEW y \in Side, NEW j \in 1 .. Len(profile.flowops), NEW k \in 1 .. Len(a),
               Txn(y).flowops[j].type \in Moving
        PROVE  a[k] = Txn(y).flowops[j].size
    <3>1. CASE k \in 1 .. Len(w)
      BY <1>2, <2>2, <2>4, <3>1 DEF Whole, Messages
    <3>2. CASE k = Len(w) + 1
      BY <1>2, <2>2, <2>4, <3>2, OneSize
    <3> QED BY <2>2, <3>1, <3>2
  <2>5. Whole(a)
    BY <1>2, <2>4 DEF Whole, Messages
  <2> QED BY <1>2, <2>1, <2>3, <2>5 DEF Messages, a
<1> QED BY <1>1, <1>2 DEF Messages

KeptInv == TypeInv /\ Kept

\* What is said of a state from which something is to be kept.
Keeping ==
  /\ KeptInv /\ SizesAreGiven /\ AmountsAgree /\ lost = 0
  /\ \A x \in Side : Well(st[x])

\* A running strand in such a state.
LEMMA KeepingSide ==
  ASSUME Keeping, NEW x \in Side, st[x].result = "running"
  PROVE  /\ TypeInv /\ profile \in Profiles /\ AmountsAgree
         /\ Ready(x, st[x]) /\ st[x].n \in Nat /\ CurrentFlowop(x) = FlowopAt(x, st[x])
         /\ st[x].at \in 1 .. Len(profile.flowops)
         /\ st[x].n = 0 \/ st[x].n < FlowopAt(x, st[x]).count
         /\ InCall(st[x]) => Sized(x, st[x]) /\ Called(x, st[x])
         /\ Whole(wire[x]) /\ Whole(wire[Peer(x)])
         /\ \A t \in Strand : t.at = st[x].at /\ t.iter = st[x].iter /\ t.result = "running" =>
              Ready(x, t) /\ FlowopAt(x, t) = FlowopAt(x, st[x])
<1> DEFINE s == st[x]
<1>1. TypeInv /\ AmountsAgree /\ Within(x, s) /\ \A y \in Side : Whole(wire[y])
  BY DEF Keeping, KeptInv, Kept
<1>2. /\ profile \in Profiles /\ Placed(x, s) /\ s \in Strand /\ CurrentFlowop(x) = FlowopAt(x, s)
      /\ InCall(s) => Called(x, s)
  BY <1>1, StrandOfSide
<1>3. /\ s.iter <= profile.iter /\ (s.n = 0 \/ s.n < FlowopAt(x, s).count)
      /\ InCall(s) => Sized(x, s)
  BY <1>1 DEF Within
<1>4. s.n \in Nat /\ s.at \in 1 .. Len(profile.flowops)
  BY <1>2 DEF Placed, Strand
<1>5. Whole(wire[x]) /\ Whole(wire[Peer(x)])
  BY <1>1 DEF Peer, Side
<1>6. Ready(x, s)
  BY <1>2, <1>3 DEF Ready
<1>7. ASSUME NEW t \in Strand, t.at = s.at, t.iter = s.iter, t.result = "running"
      PROVE  Ready(x, t) /\ FlowopAt(x, t) = FlowopAt(x, s)
  <2>1. FlowopAt(x, t) = FlowopAt(x, s)
    BY <1>7 DEF FlowopAt
  <2> QED BY <1>2, <1>3, <1>4, <1>7, <2>1 DEF Ready, Placed
<1> QED BY <1>1, <1>2, <1>3, <1>4, <1>5, <1>6, <1>7

\* What is said of a strand and of the wire is said with the profile, which stays.
LEMMA SameWords ==
  ASSUME profile' = profile
  PROVE  /\ \A d \in Side, x \in Side, z \in Side : Done(d, x, st[z])' = Done(d, x, st'[z])
         /\ \A x \in Side : Within(x, st[x])' <=> Within(x, st'[x])
         /\ \A x \in Side : Whole(wire[x])' <=> Whole(wire'[x])
         /\ \A x \in Side : Load(wire[x])' = Load(wire'[x])
         /\ AmountsAgree' <=> AmountsAgree
         /\ \A x \in Side : Well(st[x])' <=> Well(st'[x])
<1>1. \A d : Upto(d)' = Upto(d)
  BY SameSums
<1>2. \A x : Txn(x)' = Txn(x)
  BY DEF Txn
<1>3. Stream' <=> Stream
  BY DEF Stream
<1>4. \A f : Repeats(f)' = Repeats(f)
  BY DEF Repeats, Stream
<1>5. \A f : Amount(f)' = Amount(f)
  BY <1>3, <1>4 DEF Amount
<1>6. ASSUME NEW d \in Side, NEW x \in Side, NEW z \in Side
      PROVE  Done(d, x, st[z])' = Done(d, x, st'[z])
  BY <1>1, <1>2, <1>3, <1>5 DEF Done, Position, Progress, Base, FlowopAt
<1>7. ASSUME NEW x \in Side PROVE Within(x, st[x])' <=> Within(x, st'[x])
  BY <1>2, <1>3, <1>4 DEF Within, Sized, FlowopAt, Messages
<1>8. ASSUME NEW x \in Side PROVE (Whole(wire[x])' <=> Whole(wire'[x])) /\ Load(wire[x])' = Load(wire'[x])
  BY <1>2, <1>3 DEF Whole, Load, Messages
<1>9. AmountsAgree' <=> AmountsAgree
  BY SameSums
<1> QED BY <1>6, <1>7, <1>8, <1>9 DEF Well

\* What a step of side x does to the wires: nothing, or it takes k from its own, or puts k on the
\* other's.
Carried(x, k) ==
  \/ k = 0 /\ wire' = wire
  \/ \E w \in Seq(Nat \ {0}) :
       /\ FlowopAt(x, st[x]).type \in Receives
       /\ wire' = [wire EXCEPT ![x] = w]
       /\ Whole(w) /\ Load(wire[x]) = Load(w) + k
  \/ \E w \in Seq(Nat \ {0}) :
       /\ FlowopAt(x, st[x]).type \in Transmits
       /\ wire' = [wire EXCEPT ![Peer(x)] = w]
       /\ Whole(w) /\ Load(w) = Load(wire[Peer(x)]) + k

\* The strand fails, or it is k further and the wires too.
Advances(x) ==
  \E t :
    /\ Becomes(x, t)
    /\ Well(t) => \E k \in Nat : Reaches(x, st[x], t, Progress(x, st[x]) + k) /\ Carried(x, k)

\* What a strand has moved is a number.
LEMMA DoneIsNat ==
  ASSUME TypeInv, AmountsAgree, NEW d \in Side, NEW x \in Side
  PROVE  /\ Base(d, st[x].iter, st[x].at - 1) \in Nat /\ Progress(x, st[x]) \in Nat
         /\ Done(d, x, st[x]) \in Nat
<1> DEFINE s == st[x]
           f == FlowopAt(x, s)
           b == Base(d, s.iter, s.at - 1)
           p == Progress(x, s)
           q == s.n * Amount(f)
<1>1. /\ profile \in Profiles /\ s \in Strand /\ s.at \in 1 .. Len(profile.flowops)
      /\ s.iter \in Nat \ {0} /\ s.n \in Nat /\ s.sz \in Nat /\ s.rep \in Nat
  BY StrandOfSide DEF Placed, Strand
<1>2. s.at - 1 \in 0 .. Len(profile.flowops) /\ s.at \in 0 .. Len(profile.flowops)
  BY <1>1, ProfileFields
<1>3. b \in Nat /\ Base(d, s.iter, s.at) \in Nat
  BY <1>1, <1>2, BaseFacts
<1>4. f \in Flowop
  BY <1>1, FlowopOfSide DEF FlowopAt
<1>5. q \in Nat
  <2> DEFINE a == Amount(f)
             n == s.n
  <2>1. a \in Nat /\ n \in Nat
    BY <1>1, <1>4, AmountIsNat
  <2> HIDE DEF a, n
  <2>2. n * a \in Nat
    BY <2>1
  <2> QED BY <2>2 DEF a, n
<1>6. p \in Nat
  <2>1. p = q + (IF s.stage = "begin" THEN 0 ELSE IF Stream THEN s.sz ELSE s.rep)
    BY DEF Progress
  <2> HIDE DEF p, q
  <2> QED BY <1>1, <1>5, <2>1
<1>7. Done(d, x, s) = IF s.result = "success" THEN Base(d, s.iter, s.at)
                      ELSE b + (IF f.type \in Kinds(x, d) THEN p ELSE 0)
  BY DEF Done, Position
<1> HIDE DEF b, p, f
<1>8. Done(d, x, s) \in Nat
  BY <1>3, <1>6, <1>7
<1> QED BY <1>3, <1>6, <1>8 DEF b, p

\* So what one has sent remains what the other has received or will.
LEMMA AdvanceKeeps ==
  ASSUME Keeping, NEW x \in Side, st[x].result = "running", Advances(x), profile' = profile, TypeInv'
  PROVE  Kept'
<1> DEFINE s == st[x]
           f == FlowopAt(x, s)
           z == Peer(x)
<1>1. /\ TypeInv /\ profile \in Profiles /\ AmountsAgree /\ Ready(x, s)
      /\ \A y \in Side : /\ Within(y, st[y]) /\ Whole(wire[y])
                         /\ Done(y, Peer(y), st[Peer(y)]) = Done(y, y, st[y]) + Load(wire[y])
  BY KeepingSide DEF Keeping, KeptInv, Kept
<1>2. st \in [Side -> Strand] /\ wire \in [Side -> Seq(Nat \ {0})] /\ wire' \in [Side -> Seq(Nat \ {0})]
  BY <1>1 DEF TypeInv, TypeOK
<1>3. x \in Side /\ z \in Side /\ x # z /\ Side = {x, z} /\ Peer(z) = x /\ Peer(x) = z
  BY DEF Side, Peer
<1> HIDE DEF z
<1>4. PICK t :
        /\ Becomes(x, t)
        /\ Well(t) => \E k \in Nat : Reaches(x, s, t, Progress(x, s) + k) /\ Carried(x, k)
  BY DEF Advances
<1>5. st'[x] = t /\ st'[z] = st[z]
  BY <1>2, <1>3, <1>4 DEF Becomes
<1>6. SUFFICES ASSUME Well(t)
               PROVE \A y \in Side :
                       /\ Within(y, st'[y]) /\ Whole(wire'[y])
                       /\ Done(y, Peer(y), st'[Peer(y)]) = Done(y, y, st'[y]) + Load(wire'[y])
  <2>1. SUFFICES ASSUME \A y \in Side : Well(st[y])'
                 PROVE  \A y \in Side :
                          /\ Within(y, st[y])' /\ Whole(wire[y])'
                          /\ Done(y, Peer(y), st[Peer(y)])' = Done(y, y, st[y])' + Load(wire[y])'
    BY DEF Kept
  <2>2. Well(t)
    BY <1>5, <2>1, SameWords
  <2>3. \A y \in Side : Peer(y) \in Side
    BY DEF Side, Peer
  <2> QED BY <1>6, <2>2, <2>3, SameWords
<1>7. PICK k \in Nat : Reaches(x, s, t, Progress(x, s) + k) /\ Carried(x, k)
  BY <1>4, <1>6
<1>8. ASSUME NEW d \in Side
      PROVE  /\ Done(d, x, s) \in Nat
             /\ Done(d, x, t) = Done(d, x, s) + (IF f.type \in Kinds(x, d) THEN k ELSE 0)
  <2> DEFINE b == Base(d, s.iter, s.at - 1)
             p == Progress(x, s)
  <2>1. b \in Nat /\ p \in Nat /\ Done(d, x, s) \in Nat
    BY <1>1, DoneIsNat
  <2>2. Done(d, x, s) = b + (IF f.type \in Kinds(x, d) THEN p ELSE 0)
    BY DEF Done, Position
  <2>3. Done(d, x, t) = b + (IF f.type \in Kinds(x, d) THEN p + k ELSE 0)
    BY <1>6, <1>7 DEF Reaches, Position
  <2>4. Done(d, x, t) = Done(d, x, s) + (IF f.type \in Kinds(x, d) THEN k ELSE 0)
    <3> HIDE DEF b, p, f
    <3> QED BY <2>1, <2>2, <2>3
  <2> QED BY <2>1, <2>4
<1>9. Within(x, t)
  BY <1>6, <1>7 DEF Reaches
<1>10. /\ Kinds(x, x) = Receives /\ Kinds(x, z) = Transmits
       /\ f.type \in Receives => f.type \notin Transmits
  BY <1>3 DEF Kinds, Receives, Transmits
<1> DEFINE in == IF f.type \in Receives THEN k ELSE 0
           out == IF f.type \in Transmits THEN k ELSE 0
           fits == /\ Whole(wire'[x]) /\ Whole(wire'[z])
                   /\ Load(wire[x]) = Load(wire'[x]) + in /\ Load(wire'[z]) = Load(wire[z]) + out
<1>11. /\ Done(x, x, t) = Done(x, x, s) + in /\ Done(z, x, t) = Done(z, x, s) + out
       /\ Done(x, x, s) \in Nat /\ Done(z, x, s) \in Nat
  BY <1>3, <1>8, <1>10
<1>12. fits
  <2>0. Load(wire[x]) \in Nat /\ Load(wire[z]) \in Nat
    <3>1. \A w \in Seq(Nat \ {0}) : Load(w) \in Nat
      BY DEF Load
    <3> QED BY <1>2, <1>3, <3>1
  <2>1. CASE k = 0 /\ wire' = wire
    <3>1. in = 0 /\ out = 0
      BY <2>1
    <3> HIDE DEF in, out
    <3> QED BY <1>1, <1>3, <2>0, <2>1, <3>1
  <2>2. ASSUME NEW w \in Seq(Nat \ {0}), f.type \in Receives, wire' = [wire EXCEPT ![x] = w],
               Whole(w), Load(wire[x]) = Load(w) + k
        PROVE  fits
    <3>1. wire'[x] = w /\ wire'[z] = wire[z] /\ in = k /\ out = 0
      BY <1>2, <1>3, <1>10, <2>2
    <3> HIDE DEF in, out
    <3> QED BY <1>1, <1>3, <2>0, <2>2, <3>1
  <2>3. ASSUME NEW w \in Seq(Nat \ {0}), f.type \in Transmits, wire' = [wire EXCEPT ![z] = w],
               Whole(w), Load(w) = Load(wire[z]) + k
        PROVE  fits
    <3>1. wire'[z] = w /\ wire'[x] = wire[x] /\ in = 0 /\ out = k
      BY <1>2, <1>3, <1>10, <2>3
    <3> HIDE DEF in, out
    <3> QED BY <1>1, <1>3, <2>0, <2>3, <3>1
  <2> HIDE DEF in, out
  <2> QED BY <1>3, <1>7, <2>1, <2>2, <2>3 DEF Carried
<1> DEFINE lx == Load(wire'[x])
           lz == Load(wire[z])
<1>13. Done(x, z, st[z]) = Done(x, x, t) + lx
  <2>1. Done(x, z, st[z]) = Done(x, x, s) + Load(wire[x])
    BY <1>1, <1>3
  <2>2. lx \in Nat /\ in \in Nat
    <3>1. \A w \in Seq(Nat \ {0}) : Load(w) \in Nat
      BY DEF Load
    <3> QED BY <1>2, <1>3, <3>1
  <2>3. Load(wire[x]) = lx + in
    BY <1>12
  <2> HIDE DEF in, lx
  <2> QED BY <1>11, <2>1, <2>2, <2>3
<1>14. Done(z, x, t) = Done(z, z, st[z]) + Load(wire'[z])
  <2>1. Done(z, x, s) = Done(z, z, st[z]) + lz
    BY <1>1, <1>3
  <2>2. lz \in Nat /\ out \in Nat
    <3>1. \A w \in Seq(Nat \ {0}) : Load(w) \in Nat
      BY DEF Load
    <3> QED BY <1>2, <1>3, <3>1
  <2>3. Load(wire'[z]) = lz + out
    BY <1>12
  <2>4. Done(z, z, st[z]) \in Nat
    BY <1>1, <1>3, DoneIsNat
  <2> HIDE DEF out, lz
  <2> QED BY <1>11, <2>1, <2>2, <2>3, <2>4
<1> QED BY <1>1, <1>3, <1>5, <1>9, <1>12, <1>13, <1>14

\* A step that leaves the wires alone, and the strand as far as it was, or failed.
LEMMA StandsStill ==
  ASSUME NEW x \in Side, NEW t, Becomes(x, t), wire' = wire, Progress(x, st[x]) \in Nat,
         Reaches(x, st[x], t, Progress(x, st[x]))
  PROVE  Advances(x)
<1>1. Progress(x, st[x]) + 0 = Progress(x, st[x])
  OBVIOUS
<1>2. Reaches(x, st[x], t, Progress(x, st[x]) + 0) /\ Carried(x, 0) /\ 0 \in Nat
  BY <1>1 DEF Carried
<1> QED BY <1>2 DEF Advances

\* The start of an execution.
LEMMA ExecuteAdvances ==
  ASSUME Keeping, NEW x \in Side, Execute(x)
  PROVE  Advances(x)
<1> DEFINE s == st[x]
           f == FlowopAt(x, s)
           A == Amount(f)
           b == s.n * A
<1>1. s.result = "running" /\ s.stage = "begin" /\ wire' = wire
  BY DEF Execute, Runs
<1>2. /\ TypeInv /\ profile \in Profiles /\ AmountsAgree /\ Ready(x, s) /\ s.n \in Nat
      /\ CurrentFlowop(x) = f /\ (s.n = 0 \/ s.n < f.count)
      /\ \A t \in Strand : t.at = s.at /\ t.iter = s.iter /\ t.result = "running" =>
           Ready(x, t) /\ FlowopAt(x, t) = f
  BY <1>1, KeepingSide
<1>3. /\ f \in Flowop /\ f.count \in Nat /\ A \in Nat /\ f.size \in Nat /\ ~f.random
      /\ f.type = "sendfile" => Stream
      /\ s \in Strand /\ b \in Nat
  BY <1>2, ReadyFlowop
<1>4. Progress(x, s) = b /\ Progress(x, s) \in Nat
  <2>1. Progress(x, s) = b + 0
    BY <1>1 DEF Progress
  <2> HIDE DEF b
  <2> QED BY <1>3, <2>1
<1>5. ASSUME NEW t, Becomes(x, t), Reaches(x, s, t, b) PROVE Advances(x)
  <2>1. Reaches(x, s, t, Progress(x, s))
    BY <1>4, <1>5, Zenon
  <2> QED BY <1>1, <1>4, <1>5, <2>1, StandsStill
<1>6. s.at \in 1 .. Len(profile.flowops)
  BY <1>2 DEF Ready, Placed
<1>7. CASE f.count = 0
  <2>1. Becomes(x, FlowopEnds(x, s, 0, 0))
    BY <1>2, <1>7 DEF Execute
  <2>2. Reaches(x, s, FlowopEnds(x, s, 0, 0), f.count * A)
    BY <1>2, EndReaches
  <2>3. f.count * A = 0 /\ b = 0
    <3>1. s.n = 0 /\ 0 * A = 0
      <4> HIDE DEF A
      <4> QED BY <1>2, <1>3, <1>7
    <3> HIDE DEF A, f
    <3> QED BY <1>7, <3>1
  <2>4. Reaches(x, s, FlowopEnds(x, s, 0, 0), b)
    BY <2>2, <2>3, Zenon
  <2> QED BY <1>5, <2>1, <2>4
<1>8. ASSUME f.count # 0, f.type = "nop" \/ (f.type = "disconnect" /\ open[x]) PROVE Advances(x)
  <2>1. Becomes(x, Executed(x, s, 0))
    BY <1>2, <1>8 DEF Execute
  <2>2. A = 0
    BY <1>8 DEF Amount, Moving
  <2>3. Reaches(x, s, Executed(x, s, 0), b + A)
    BY <1>2, <1>3, <1>8, ExecutedReaches
  <2>4. b + A = b
    <3> HIDE DEF A, b
    <3> QED BY <1>3, <2>2
  <2>5. Reaches(x, s, Executed(x, s, 0), b)
    BY <2>3, <2>4, Zenon
  <2> QED BY <1>5, <2>1, <2>5
<1>9. ASSUME f.count # 0, f.type = "sendfile", open[x] PROVE Advances(x)
  <2> DEFINE size == FileSize
             zero == 0
             t == [s EXCEPT !.size = size, !.sz = zero, !.stage = "rest"]
  <2>1. Becomes(x, t)
    BY <1>2, <1>9 DEF Execute
  <2>2. size \in Nat /\ zero \in Nat /\ zero = 0
    BY ExchangeAssumption
  <2> HIDE DEF size, zero
  <2>3. /\ t \in Strand /\ t.sz = zero /\ t.stage = "rest" /\ t.at = s.at /\ t.n = s.n
        /\ t.result = "running" /\ t.iter = s.iter
    BY <1>1, <1>3, <2>2 DEF Strand
  <2> HIDE DEF t
  <2>4. FlowopAt(x, t) = f /\ Stream /\ f.type \notin Moving /\ s.n < f.count
    BY <1>2, <1>3, <1>9, <2>3 DEF Moving
  <2>5. Sized(x, t)
    BY <2>3, <2>4 DEF Sized, Messages
  <2>6. Reaches(x, s, t, Progress(x, t))
    BY <1>2, <2>3, <2>4, <2>5, StaysReaches
  <2>7. Progress(x, t) = b
    <3>1. Progress(x, t) = b + 0
      BY <2>2, <2>3, <2>4 DEF Progress
    <3> HIDE DEF b
    <3> QED BY <1>3, <3>1
  <2>8. Reaches(x, s, t, b)
    BY <2>6, <2>7, Zenon
  <2> QED BY <1>5, <2>1, <2>8
<1>10. ASSUME f.count # 0, f.type # "nop", ~open[x] PROVE Advances(x)
  <2> DEFINE u == [s EXCEPT !.errno = "EINTR"]
  <2>1. Becomes(x, Executed(x, IF f.type = "disconnect" THEN u ELSE s, -1))
    BY <1>2, <1>10 DEF Execute
  <2>2. u \in Strand /\ u.at = s.at /\ u.iter = s.iter /\ u.result = "running"
    BY <1>1, <1>3 DEF Strand
  <2> HIDE DEF u
  <2>3. Ready(x, u) /\ -1 \in Int /\ -1 < 0
    BY <1>2, <2>2
  <2>4. ~Well(Executed(x, u, -1)) /\ ~Well(Executed(x, s, -1))
    BY <1>2, <2>3, FailedReaches
  <2>5. ~Well(Executed(x, IF f.type = "disconnect" THEN u ELSE s, -1))
    BY ONLY <2>4
  <2> QED BY <2>1, <2>5, Zenon DEF Advances
<1>11. ASSUME f.count # 0, f.type \notin {"nop", "disconnect", "sendfile"}, open[x] PROVE Advances(x)
  <2>1. f.type \in Moving
    BY <1>3, <1>11, FlowopFields DEF FlowopType, Transmits, Moving
  <2>2. IF Supported(f) THEN \E n \in Sizes(f) : Becomes(x, Call([s EXCEPT !.size = n, !.sz = 0], f))
        ELSE Becomes(x, Executed(x, s, -1))
    BY <1>2, <1>11 DEF Execute
  <2>3. CASE Supported(f)
    <3> DEFINE zero == 0
               n == f.size
               t == [s EXCEPT !.size = n, !.sz = zero]
    <3>1. Sizes(f) = {n}
      BY <1>3 DEF Sizes
    <3>2. Becomes(x, Call(t, f))
      BY <2>2, <2>3, <3>1
    <3>3. n \in Nat /\ n > 0
      <4>1. f = Txn(x).flowops[s.at] /\ SizesAreGiven
        BY DEF FlowopAt, Keeping
      <4> HIDE DEF f, s
      <4> QED BY <1>2, <1>6, <2>1, <3>1, <4>1, SizesArePositive DEF n
    <3>4. zero \in Nat /\ zero < n /\ zero = 0 /\ n = f.size
      BY <3>3
    <3> HIDE DEF zero, n
    <3>5. /\ t \in Strand /\ t.size = n /\ t.sz = zero /\ t.at = s.at /\ t.n = s.n /\ t.result = "running"
          /\ t.iter = s.iter
      BY <1>1, <1>3, <3>3, <3>4 DEF Strand
    <3> HIDE DEF t
    <3>6. Ready(x, t) /\ FlowopAt(x, t) = f
      BY <1>2, <3>5
    <3>7. s.n < f.count
      BY <1>2, <1>3, <1>11
    <3>8. Reaches(x, t, Call(t, f), t.n * Amount(FlowopAt(x, t)) + (IF Stream THEN t.sz ELSE 0))
      BY <1>2, <2>1, <3>4, <3>5, <3>6, <3>7, CallReaches
    <3>9. t.n * Amount(FlowopAt(x, t)) + (IF Stream THEN t.sz ELSE 0) = b
      <4>1. (IF Stream THEN t.sz ELSE 0) = 0 /\ t.n * Amount(FlowopAt(x, t)) = b
        BY <3>4, <3>5, <3>6
      <4> HIDE DEF b
      <4> QED BY <1>3, <4>1
    <3>10. \A u, q : Reaches(x, t, u, q) => Reaches(x, s, u, q)
      BY <3>5 DEF Reaches, Position, FlowopAt
    <3>11. Reaches(x, s, Call(t, f), b)
      BY <3>8, <3>9, <3>10, Zenon
    <3> QED BY <1>5, <3>2, <3>11
  <2>4. CASE ~Supported(f)
    <3>1. -1 \in Int /\ -1 < 0
      OBVIOUS
    <3>2. ~Well(Executed(x, s, -1))
      BY <1>2, <3>1, FailedReaches
    <3>3. Becomes(x, Executed(x, s, -1))
      BY ONLY <2>2, <2>4
    <3> QED BY <3>2, <3>3, Zenon DEF Advances
  <2> QED BY <2>3, <2>4
<1>12. open[x] \in BOOLEAN
  BY <1>2 DEF TypeInv, TypeOK
<1> QED BY <1>7, <1>8, <1>9, <1>10, <1>11, <1>12, Zenon

\* A strand in a call of a protocol's function.
LEMMA KeepingCall ==
  ASSUME Keeping, NEW x \in Side, InCall(st[x]), CurrentFlowop(x).type \in Moving
  PROVE  LET s == st[x]
             f == FlowopAt(x, s)
         IN /\ s \in Strand /\ s.n \in Nat /\ s.sz \in Nat /\ s.size \in Nat /\ s.left \in Nat \ {0}
            /\ s.total \in Nat /\ s.rep \in Nat /\ s.result = "running" /\ s.stage # "begin"
            /\ f.type \in Moving /\ s.n < f.count /\ s.size = f.size /\ s.sz < s.size
            /\ s.rep = 0 => s.total = 0
            /\ Stream => s.rep = 0 /\ s.left = s.size - s.sz
            /\ Messages => /\ s.sz = 0 /\ s.rep < Repeats(f) /\ s.left >= s.size
                           /\ s.rep > 0 => s.total >= s.size
                           /\ s.stage = "first" \/ f.type \in Transmits => s.left = s.size
            /\ s.stage = "first" => profile.proto = "udp"
            /\ s.n * Amount(f) \in Nat
            /\ Progress(x, s) = s.n * Amount(f) + Far(s) /\ Progress(x, s) \in Nat
<1> DEFINE s == st[x]
           f == FlowopAt(x, s)
           b == s.n * Amount(f)
<1>1. s.result = "running" /\ s.stage # "begin"
  BY DEF InCall
<1>2. /\ TypeInv /\ profile \in Profiles /\ AmountsAgree /\ Ready(x, s) /\ CurrentFlowop(x) = f
      /\ Sized(x, s) /\ Called(x, s)
  BY <1>1, KeepingSide
<1>3. s \in Strand /\ s.n \in Nat /\ b \in Nat
  BY <1>2, ReadyFlowop
<1>4. /\ s.sz \in Nat /\ s.size \in Nat /\ s.left \in Nat /\ s.total \in Nat /\ s.rep \in Nat
  BY <1>3 DEF Strand
<1>5. f.type \in Moving /\ s.sz < s.size /\ s.left > 0 /\ (s.stage = "first" => profile.proto = "udp")
  BY <1>2 DEF Called
<1>6. /\ s.n < f.count /\ s.size = f.size /\ (s.rep = 0 => s.total = 0)
      /\ Stream => s.rep = 0 /\ s.left = s.size - s.sz
      /\ Messages => /\ s.sz = 0 /\ s.rep < Repeats(f) /\ s.left >= s.size
                     /\ s.rep > 0 => s.total >= s.size
                     /\ s.stage = "first" \/ f.type \in Transmits => s.left = s.size
  BY <1>2, <1>5 DEF Sized
<1>7. Progress(x, s) = b + Far(s) /\ Progress(x, s) \in Nat
  <2>1. Progress(x, s) = b + Far(s)
    BY <1>1 DEF Progress, Far
  <2>2. Far(s) \in Nat
    BY <1>4 DEF Far
  <2> HIDE DEF b
  <2> QED BY <1>3, <2>1, <2>2
<1>8. s.left \in Nat \ {0}
  BY <1>4, <1>5
<1> QED BY <1>1, <1>3, <1>4, <1>5, <1>6, <1>7, <1>8, Zenon

\* A repetition that moved n bytes, of a message all.
LEMMA MovedReaches ==
  ASSUME Keeping, NEW x \in Side, InCall(st[x]), CurrentFlowop(x).type \in Moving,
         NEW n \in Nat \ {0}, n <= st[x].left, Messages => n >= st[x].size,
         NEW m \in Strand, m.total = st[x].total + n, m.at = st[x].at, m.iter = st[x].iter, m.n = st[x].n,
         m.size = st[x].size, m.sz = st[x].sz, m.rep = st[x].rep, m.result = "running"
  PROVE  Reaches(x, st[x], Repeat(x, m), Progress(x, st[x]) + (IF Stream THEN n ELSE 1))
<1> DEFINE s == st[x]
           f == FlowopAt(x, s)
           b == s.n * Amount(f)
<1>1. /\ s \in Strand /\ s.sz \in Nat /\ s.size \in Nat /\ s.left \in Nat \ {0}
      /\ s.total \in Nat /\ s.rep \in Nat /\ s.result = "running"
      /\ f.type \in Moving /\ s.n < f.count /\ s.size = f.size /\ s.sz < s.size
      /\ s.rep = 0 => s.total = 0
      /\ Stream => s.rep = 0 /\ s.left = s.size - s.sz
      /\ Messages => s.sz = 0 /\ s.rep < Repeats(f)
      /\ b \in Nat /\ Progress(x, s) = b + Far(s)
  BY KeepingCall
<1>2. profile \in Profiles /\ AmountsAgree /\ Ready(x, m) /\ FlowopAt(x, m) = f
  BY <1>1, KeepingSide
<1> HIDE DEF b
<1>3. Reaches(x, m, Repeat(x, m), b + (IF Stream THEN m.sz + m.total ELSE m.rep + 1))
  <2>1. Stream => m.rep = 0 /\ m.total > 0 /\ m.sz + m.total <= m.size
    BY <1>1
  <2>2. Messages => m.sz = 0 /\ m.rep < Repeats(FlowopAt(x, m)) /\ m.total >= m.size
    BY <1>1, <1>2
  <2>3. /\ m.n < FlowopAt(x, m).count /\ FlowopAt(x, m).type \in Moving
        /\ m.size = FlowopAt(x, m).size /\ m.sz < m.size
    BY <1>1, <1>2
  <2>4. Reaches(x, m, Repeat(x, m),
                m.n * Amount(FlowopAt(x, m)) + (IF Stream THEN m.sz + m.total ELSE m.rep + 1))
    BY <1>2, <2>1, <2>2, <2>3, RepeatReaches
  <2>5. m.n * Amount(FlowopAt(x, m)) = b
    BY <1>2 DEF b
  <2> QED BY <2>4, <2>5, Zenon
<1>4. b + (IF Stream THEN m.sz + m.total ELSE m.rep + 1) = Progress(x, s) + (IF Stream THEN n ELSE 1)
  <2>1. CASE Stream
    <3>1. Far(s) = s.sz /\ m.sz + m.total = s.sz + n
      BY <1>1, <2>1 DEF Far
    <3> QED BY <1>1, <2>1, <3>1
  <2>2. CASE ~Stream
    <3>1. Far(s) = s.rep
      BY <2>2 DEF Far
    <3> QED BY <1>1, <2>2, <3>1
  <2> QED BY <2>1, <2>2
<1>5. \A u, q : Reaches(x, m, u, q) => Reaches(x, s, u, q)
  BY DEF Reaches, Position, FlowopAt
<1> QED BY <1>3, <1>4, <1>5, Zenon

\* A message on its way is as large as the flowop that reads it.
LEMMA HeadIsSize ==
  ASSUME Keeping, NEW x \in Side, InCall(st[x]), CurrentFlowop(x).type \in Moving, Messages, wire[x] # <<>>
  PROVE  Head(wire[x]) = st[x].size
<1>1. /\ st[x].result = "running" /\ FlowopAt(x, st[x]).type \in Moving /\ st[x].size = FlowopAt(x, st[x]).size
  BY KeepingCall
<1>2. TypeInv /\ Whole(wire[x]) /\ st[x].at \in 1 .. Len(profile.flowops)
  BY <1>1, KeepingSide
<1>3. wire[x] \in Seq(Nat \ {0})
  BY <1>2, Frame
<1>4. 1 \in 1 .. Len(wire[x]) /\ Head(wire[x]) = wire[x][1]
  BY <1>3
<1>5. wire[x][1] = Txn(x).flowops[st[x].at].size
  BY <1>1, <1>2, <1>4 DEF Whole, FlowopAt
<1> QED BY <1>1, <1>4, <1>5 DEF FlowopAt

\* The two reads.
LEMMA ReadAdvances ==
  ASSUME Keeping, NEW x \in Side, FirstRead(x) \/ Read(x)
  PROVE  Advances(x)
<1> DEFINE s == st[x]
           f == FlowopAt(x, s)
<1>1. s.result = "running" /\ s.stage # "begin" /\ IsRead(CurrentFlowop(x))
  BY DEF FirstRead, Read, Runs
<1>2. InCall(s) /\ CurrentFlowop(x).type \in Moving
  BY <1>1 DEF InCall, IsRead, Moving
<1>3. /\ s \in Strand /\ s.n \in Nat /\ s.sz \in Nat /\ s.size \in Nat /\ s.left \in Nat \ {0}
      /\ s.total \in Nat /\ s.rep \in Nat
      /\ f.type \in Moving /\ s.n < f.count /\ s.size = f.size
      /\ Messages => /\ s.left >= s.size /\ s.sz = 0 /\ s.rep < Repeats(f) /\ (s.rep > 0 => s.total >= s.size)
                     /\ s.stage = "first" => s.left = s.size
      /\ s.stage = "first" => Messages
      /\ s.rep = 0 => s.total = 0
      /\ Progress(x, s) \in Nat
  <2>1. s.stage = "first" => profile.proto = "udp"
    BY <1>2, KeepingCall
  <2>2. s.stage = "first" => Messages
    BY <2>1 DEF Messages, Stream
  <2> QED BY <1>2, <2>2, KeepingCall
<1>4. /\ TypeInv /\ profile \in Profiles /\ AmountsAgree /\ Ready(x, s) /\ CurrentFlowop(x) = f
      /\ Whole(wire[x])
  BY <1>1, KeepingSide
<1>5. f.type \in Receives /\ f.type \notin Transmits
  BY <1>1, <1>4 DEF IsRead, Receives, Transmits
<1>6. wire[x] \in Seq(Nat \ {0})
  BY <1>4, Frame
<1>7. ASSUME wire[x] # <<>>, NEW t \in Takes(wire[x], s.left), wire' = [wire EXCEPT ![x] = t.rest]
      PROVE  /\ t.got \in Nat \ {0} /\ t.got <= s.left
             /\ Messages => t.got = s.size
             /\ Carried(x, IF Stream THEN t.got ELSE 1)
  <2>1. Messages => Head(wire[x]) = s.size
    BY <1>2, <1>7, HeadIsSize
  <2>2. /\ Whole(t.rest) /\ Load(wire[x]) = Load(t.rest) + (IF Stream THEN t.got ELSE 1)
        /\ Messages => t.got = Head(wire[x])
    BY <1>3, <1>4, <1>6, <1>7, <2>1, TakesLoad
  <2>3. t.got \in Nat \ {0} /\ t.got <= s.left /\ t.rest \in Seq(Nat \ {0})
    BY <1>3, <1>6, <1>7, TakesSome
  <2>4. Carried(x, IF Stream THEN t.got ELSE 1)
    BY <1>5, <1>7, <2>2, <2>3, Zenon DEF Carried
  <2> QED BY <2>1, <2>2, <2>3, <2>4
<1>8. CASE Read(x)
  <2>1. PICK t \in Takes(wire[x], s.left) :
          wire' = [wire EXCEPT ![x] = t.rest] /\ Becomes(x, Repeat(x, Moved(x, t.got)))
    BY <1>8 DEF Read
  <2>2. wire[x] # <<>>
    BY <1>8 DEF Read
  <2>3. /\ t.got \in Nat \ {0} /\ t.got <= s.left /\ (Messages => t.got = s.size)
        /\ Carried(x, IF Stream THEN t.got ELSE 1)
    BY <1>7, <2>1, <2>2
  <2> DEFINE m == Moved(x, t.got)
             k == IF Stream THEN t.got ELSE 1
  <2>4. /\ m \in Strand /\ m.total = s.total + t.got /\ m.at = s.at /\ m.iter = s.iter /\ m.n = s.n
        /\ m.size = s.size /\ m.sz = s.sz /\ m.rep = s.rep /\ m.result = s.result
    <3>1. s \in Strand /\ t.got \in Nat
      BY <1>3, <2>3
    <3>2. m \in Strand /\ m.total = s.total + t.got /\ m.at = s.at /\ m.iter = s.iter /\ m.n = s.n
      BY ONLY <3>1, MovedFields, x \in Side, Zenon
    <3>3. m.size = s.size /\ m.sz = s.sz /\ m.rep = s.rep /\ m.result = s.result
      BY ONLY <3>1, MovedFields, x \in Side, Zenon
    <3> QED BY <3>2, <3>3, Zenon
  <2> HIDE DEF m
  <2>5. Reaches(x, s, Repeat(x, m), Progress(x, s) + k)
    BY <1>1, <1>2, <1>3, <2>3, <2>4, MovedReaches
  <2>6. Becomes(x, Repeat(x, m)) /\ k \in Nat /\ Carried(x, k)
    BY <2>1, <2>3 DEF m
  <2> HIDE DEF k
  <2> QED BY <2>5, <2>6 DEF Advances
<1>9. CASE FirstRead(x) /\ wire[x] = <<>>
  <2> DEFINE left == Left(s.left, -1)
             t == [s EXCEPT !.left = left, !.errno = "EAGAIN", !.stage = "rest"]
  <2>1. Becomes(x, t) /\ wire' = wire /\ s.stage = "first" /\ Messages
    BY <1>3, <1>9 DEF FirstRead, Runs
  <2>2. left \in Nat /\ left >= s.size
    BY <1>3, <2>1 DEF Left
  <2> HIDE DEF left
  <2>3. /\ t \in Strand /\ t.stage = "rest" /\ t.result = "running" /\ t.at = s.at /\ t.n = s.n
        /\ t.sz = s.sz /\ t.total = s.total /\ t.rep = s.rep /\ t.size = s.size /\ t.left = left
        /\ t.iter = s.iter
    BY <1>1, <1>3, <2>2 DEF Strand
  <2> HIDE DEF t
  <2>4. FlowopAt(x, t) = f
    BY <2>3 DEF FlowopAt
  <2>5. Sized(x, t)
    <3> HIDE DEF f
    <3> QED BY <1>3, <1>5, <2>1, <2>2, <2>3, <2>4 DEF Sized, Messages, f
  <2>6. t.n < FlowopAt(x, t).count
    BY <1>3, <2>3, <2>4
  <2>7. Reaches(x, s, t, Progress(x, t))
    BY <1>4, <2>3, <2>5, <2>6, StaysReaches
  <2>8. Progress(x, t) = Progress(x, s)
    BY <1>1, <2>3, <2>4 DEF Progress
  <2>9. Reaches(x, s, t, Progress(x, s))
    BY <2>7, <2>8, Zenon
  <2> QED BY <1>3, <2>1, <2>9, StandsStill
<1>10. CASE FirstRead(x) /\ wire[x] # <<>>
  <2>1. PICK t \in Takes(wire[x], s.left) :
          LET m == [Moved(x, t.got) EXCEPT !.left = Left(@, t.got), !.stage = "rest"]
          IN wire' = [wire EXCEPT ![x] = t.rest] /\ Becomes(x, IF m.left > 0 THEN m ELSE Repeat(x, m))
    BY <1>10 DEF FirstRead
  <2>2. /\ t.got \in Nat \ {0} /\ t.got <= s.left /\ (Messages => t.got = s.size)
        /\ Carried(x, IF Stream THEN t.got ELSE 1)
    BY <1>7, <1>10, <2>1
  <2>3. Messages /\ t.got = s.left
    <3>1. s.stage = "first"
      BY <1>10 DEF FirstRead, Runs
    <3> QED BY <1>3, <2>2, <3>1
  <2> DEFINE v == Moved(x, t.got)
             left == Left(v.left, t.got)
             m == [v EXCEPT !.left = left, !.stage = "rest"]
             k == IF Stream THEN t.got ELSE 1
  <2>4. Becomes(x, IF m.left > 0 THEN m ELSE Repeat(x, m))
    BY <2>1
  <2>5. /\ v \in Strand /\ v.left = s.left /\ v.at = s.at /\ v.sz = s.sz /\ v.size = s.size
        /\ v.result = s.result /\ v.n = s.n /\ v.total = s.total + t.got /\ v.rep = s.rep /\ v.iter = s.iter
    <3>1. s \in Strand /\ t.got \in Nat
      BY <1>3, <2>2
    <3>2. v \in Strand /\ v.left = s.left /\ v.at = s.at /\ v.sz = s.sz /\ v.size = s.size
      BY ONLY <3>1, MovedFields, x \in Side, Zenon
    <3>3. /\ v.result = s.result /\ v.n = s.n /\ v.total = s.total + t.got /\ v.rep = s.rep /\ v.iter = s.iter
      BY ONLY <3>1, MovedFields, x \in Side, Zenon
    <3> QED BY <3>2, <3>3, Zenon
  <2>6. left \in Nat /\ left = 0
    BY <1>3, <2>3, <2>5 DEF Left
  <2> HIDE DEF v, left
  <2>7. /\ m \in Strand /\ m.left = left /\ m.result = "running" /\ m.at = s.at /\ m.n = s.n /\ m.rep = s.rep
        /\ m.sz = s.sz /\ m.size = s.size /\ m.total = s.total + t.got /\ m.iter = s.iter
    BY <1>1, <2>5, <2>6 DEF Strand
  <2> HIDE DEF m
  <2>8. Reaches(x, s, Repeat(x, m), Progress(x, s) + k)
    BY <1>2, <1>3, <2>2, <2>7, MovedReaches
  <2>9. ~(m.left > 0)
    BY <2>6, <2>7
  <2>10. Becomes(x, Repeat(x, m)) /\ k \in Nat /\ Carried(x, k)
    BY <2>2, <2>4, <2>9
  <2> HIDE DEF k
  <2> QED BY <2>8, <2>10 DEF Advances
<1> QED BY <1>8, <1>9, <1>10

\* The two writes.
LEMMA WriteAdvances ==
  ASSUME Keeping, NEW x \in Side, FirstWrite(x) \/ Write(x)
  PROVE  Advances(x)
<1> DEFINE s == st[x]
           f == FlowopAt(x, s)
           w == wire[Peer(x)]
           room == Room(w)
           t == [s EXCEPT !.errno = "EAGAIN", !.stage = "rest"]
<1>1. s.result = "running" /\ s.stage # "begin" /\ CurrentFlowop(x).type \in {"write", "send"}
  BY DEF FirstWrite, Write, Runs
<1>2. InCall(s) /\ CurrentFlowop(x).type \in Moving
  BY <1>1 DEF InCall, Moving
<1>3. /\ s \in Strand /\ s.n \in Nat /\ s.left \in Nat \ {0}
      /\ s.total \in Nat /\ s.rep \in Nat /\ s.size \in Nat
      /\ f.type \in Moving /\ s.n < f.count /\ s.size = f.size /\ (s.rep = 0 => s.total = 0)
      /\ Messages => /\ s.sz = 0 /\ s.rep < Repeats(f) /\ (s.rep > 0 => s.total >= s.size)
                     /\ s.left >= s.size
                     /\ f.type \in Transmits => s.left = s.size
      /\ s.stage = "first" => profile.proto = "udp"
      /\ Progress(x, s) \in Nat
  BY <1>2, KeepingCall
<1>4. /\ TypeInv /\ profile \in Profiles /\ AmountsAgree /\ Ready(x, s) /\ CurrentFlowop(x) = f
      /\ Whole(w) /\ s.at \in 1 .. Len(profile.flowops)
  BY <1>1, KeepingSide
<1>5. f.type \in Transmits /\ (Messages => s.left = s.size) /\ (s.stage = "first" => Messages)
  BY <1>1, <1>3, <1>4 DEF Transmits, Messages, Stream
<1>6. w \in Seq(Nat \ {0})
  BY <1>4, Frame
<1>7. ASSUME NEW n \in Nat \ {0}, n <= s.left, Messages => n = s.left,
             wire' = [wire EXCEPT ![Peer(x)] = Put(w, n)], Becomes(x, Repeat(x, Moved(x, n)))
      PROVE  Advances(x)
  <2> DEFINE m == Moved(x, n)
             k == IF Stream THEN n ELSE 1
  <2>1. /\ m \in Strand /\ m.total = s.total + n /\ m.at = s.at /\ m.iter = s.iter /\ m.n = s.n
        /\ m.size = s.size /\ m.sz = s.sz /\ m.rep = s.rep /\ m.result = s.result
    <3>1. s \in Strand /\ n \in Nat
      BY <1>3, <1>7
    <3>2. m \in Strand /\ m.total = s.total + n /\ m.at = s.at /\ m.iter = s.iter /\ m.n = s.n
      BY ONLY <3>1, MovedFields, x \in Side, Zenon
    <3>3. m.size = s.size /\ m.sz = s.sz /\ m.rep = s.rep /\ m.result = s.result
      BY ONLY <3>1, MovedFields, x \in Side, Zenon
    <3> QED BY <3>2, <3>3, Zenon
  <2> HIDE DEF m
  <2>2. Reaches(x, s, Repeat(x, m), Progress(x, s) + k)
    BY <1>1, <1>2, <1>3, <1>5, <1>7, <2>1, MovedReaches
  <2>3. Whole(Put(w, n)) /\ Load(Put(w, n)) = Load(w) + k
    <3>1. Messages => Txn(x).flowops[s.at].type \in Moving /\ n = Txn(x).flowops[s.at].size
      BY <1>3, <1>5, <1>7 DEF FlowopAt
    <3> HIDE DEF w
    <3> QED BY <1>4, <1>6, <1>7, <3>1, PutLoad
  <2>4. Put(w, n) \in Seq(Nat \ {0})
    BY <1>6, <1>7, PutOK
  <2>5. Carried(x, k)
    BY <1>5, <1>7, <2>3, <2>4, Zenon DEF Carried
  <2>6. Becomes(x, Repeat(x, m)) /\ k \in Nat
    BY <1>7 DEF m
  <2> HIDE DEF k
  <2> QED BY <2>2, <2>5, <2>6 DEF Advances
<1>8. CASE Write(x)
  <2>1. PICK n \in IF Stream THEN 1 .. Min({s.left, room}) ELSE {s.left} :
          wire' = [wire EXCEPT ![Peer(x)] = Put(@, n)] /\ Becomes(x, Repeat(x, Moved(x, n)))
    BY <1>8 DEF Write
  <2>2. room \in Nat \ {0}
    BY <1>4, <1>8, RoomIsNat, Frame DEF Write
  <2>3. n \in Nat \ {0} /\ n <= s.left /\ (Messages => n = s.left)
    <3>1. Min({s.left, room}) \in Nat /\ Min({s.left, room}) <= s.left
      BY <1>3, <2>2, MinOfTwo
    <3> QED BY <1>3, <2>1, <3>1 DEF Messages
  <2>4. wire' = [wire EXCEPT ![Peer(x)] = Put(w, n)]
    BY <2>1
  <2> QED BY <1>7, <2>1, <2>3, <2>4
<1>9. CASE FirstWrite(x)
  <2>1. s.stage = "first" /\ Messages
    BY <1>5, <1>9 DEF FirstWrite, Runs
  <2>2. CASE wire' = [wire EXCEPT ![Peer(x)] = Append(@, s.left)] /\ Becomes(x, Repeat(x, Moved(x, s.left)))
    <3>1. Put(w, s.left) = Append(w, s.left)
      BY <2>1 DEF Put, Messages
    <3>2. wire' = [wire EXCEPT ![Peer(x)] = Put(w, s.left)]
      BY <2>2, <3>1
    <3>3. s.left \in Nat \ {0} /\ s.left <= s.left
      BY <1>3
    <3> QED BY <1>7, <2>2, <3>2, <3>3, Zenon
  <2>3. CASE Becomes(x, t) /\ wire' = wire
    <3>1. /\ t \in Strand /\ t.stage = "rest" /\ t.result = "running" /\ t.at = s.at /\ t.n = s.n
          /\ t.sz = s.sz /\ t.total = s.total /\ t.rep = s.rep /\ t.size = s.size /\ t.left = s.left
          /\ t.iter = s.iter
      BY <1>1, <1>3 DEF Strand
    <3>2. Becomes(x, t)
      BY <2>3
    <3> HIDE DEF t
    <3>3. FlowopAt(x, t) = f
      BY <3>1 DEF FlowopAt
    <3>4. Sized(x, t)
      <4> HIDE DEF f
      <4> QED BY <1>3, <1>5, <2>1, <3>1, <3>3 DEF Sized, Messages, f
    <3>5. t.n < FlowopAt(x, t).count
      BY <1>3, <3>1, <3>3
    <3>6. Reaches(x, s, t, Progress(x, t))
      BY <1>4, <3>1, <3>4, <3>5, StaysReaches
    <3>7. Progress(x, t) = Progress(x, s)
      BY <1>1, <3>1, <3>3 DEF Progress
    <3>8. Reaches(x, s, t, Progress(x, s))
      BY <3>6, <3>7, Zenon
    <3> QED BY <1>3, <2>3, <3>2, <3>8, StandsStill
  <2> QED BY <1>9, <2>2, <2>3 DEF FirstWrite
<1> QED BY <1>8, <1>9

\* The end of the connection, of the time, or of the room: the strand fails.
LEMMA FailureAdvances ==
  ASSUME Keeping, NEW x \in Side, HangUp(x) \/ GivesUp(x) \/ WriteFails(x)
  PROVE  Advances(x)
<1> DEFINE s == st[x]
           f == FlowopAt(x, s)
           u == [s EXCEPT !.errno = "EAGAIN"]
           v == [s EXCEPT !.errno = "other"]
           z == [s EXCEPT !.errno = "EINTR"]
<1>1. s.result = "running" /\ s.stage = "rest"
  BY DEF HangUp, GivesUp, WriteFails, Runs
<1>2. /\ profile \in Profiles /\ AmountsAgree /\ Ready(x, s) /\ CurrentFlowop(x) = f
      /\ \A t \in Strand : t.at = s.at /\ t.iter = s.iter /\ t.result = "running" => Ready(x, t)
  BY <1>1, KeepingSide
<1>3. s \in Strand /\ (profile.proto = "sctp" => Repeats(f) = 1)
  BY <1>2, ReadyFlowop
<1>4. /\ u \in Strand /\ u.at = s.at /\ u.iter = s.iter /\ u.result = "running"
      /\ v \in Strand /\ v.at = s.at /\ v.iter = s.iter /\ v.result = "running"
      /\ z \in Strand /\ z.at = s.at /\ z.iter = s.iter /\ z.result = "running"
  BY <1>1, <1>3 DEF Strand
<1>5. ASSUME HangUp(x) PROVE Becomes(x, Executed(x, z, -1))
  <2>1. /\ IsRead(CurrentFlowop(x)) /\ profile.proto # "udp" /\ Becomes(x, Returned(x, s, s.total))
    BY <1>5 DEF HangUp
  <2>2. InCall(s) /\ CurrentFlowop(x).type \in Moving
    BY <1>1, <2>1 DEF InCall, IsRead, Moving
  <2>3. /\ s.rep \in Nat /\ (s.rep = 0 => s.total = 0) /\ (Stream => s.rep = 0)
        /\ Messages => s.rep < Repeats(f)
    BY <2>2, KeepingCall
  <2>4. Messages => profile.proto = "sctp"
    BY <1>2, <2>1, ProfileFields DEF Messages, Stream
  <2>5. s.rep = 0
    BY <1>3, <2>3, <2>4 DEF Messages
  <2>6. s.total = 0
    BY <2>3, <2>5
  <2>7. Returned(x, s, s.total) = Executed(x, z, -1)
    BY <2>6 DEF Returned
  <2> QED BY <2>1, <2>7
<1>6. \/ Becomes(x, Executed(x, z, -1))
      \/ Becomes(x, Returned(x, s, -1)) \/ Becomes(x, Returned(x, u, -1)) \/ Becomes(x, Returned(x, v, -1))
      \/ Becomes(x, Executed(x, v, -1))
  BY <1>5 DEF GivesUp, WriteFails
<1> HIDE DEF u, v, z
<1>7. Ready(x, u) /\ Ready(x, v) /\ Ready(x, z) /\ -1 \in Int /\ -1 < 0
  BY <1>2, <1>4
<1>8. /\ ~Well(Executed(x, z, -1)) /\ ~Well(Executed(x, v, -1))
      /\ ~Well(Returned(x, s, -1)) /\ ~Well(Returned(x, u, -1)) /\ ~Well(Returned(x, v, -1))
  BY <1>2, <1>7, FailedReaches
<1> HIDE DEF s
<1> QED BY ONLY <1>6, <1>8, Zenon DEF Advances

\* do_sendfile.
LEMMA SendFileAdvances ==
  ASSUME Keeping, NEW x \in Side, SendFile(x)
  PROVE  Advances(x)
<1> DEFINE s == st[x]
           f == FlowopAt(x, s)
           w == wire[Peer(x)]
           room == Room(w)
           A == Amount(f)
           b == s.n * A
           chunk == IF f.size = 0 THEN FileSize ELSE f.size
<1>1. s.result = "running" /\ s.stage = "rest" /\ InCall(s)
  BY DEF SendFile, Runs, InCall
<1>2. /\ TypeInv /\ profile \in Profiles /\ AmountsAgree /\ Ready(x, s) /\ CurrentFlowop(x) = f
      /\ Whole(w) /\ s.at \in 1 .. Len(profile.flowops) /\ Sized(x, s) /\ Called(x, s)
      /\ \A t \in Strand : t.at = s.at /\ t.iter = s.iter /\ t.result = "running" =>
           Ready(x, t) /\ FlowopAt(x, t) = f
  BY <1>1, KeepingSide
<1>3. f.type = "sendfile" /\ room > 0
  BY <1>2 DEF SendFile
<1>4. /\ Stream /\ f.size > 0 /\ f.size \in Nat /\ s \in Strand /\ s.n \in Nat /\ b \in Nat /\ A \in Nat
      /\ s.n < f.count
  BY <1>2, <1>3, ReadyFlowop DEF Sized
<1>5. /\ s.sz \in Nat /\ s.moved \in Nat /\ s.sz < FileSize /\ FileSize \in Nat /\ A = FileSize
      /\ f.type \notin Moving /\ f.type \in Transmits
  BY <1>2, <1>3, <1>4, ExchangeAssumption DEF Called, Strand, Amount, Each, Moving, Transmits
<1>6. w \in Seq(Nat \ {0}) /\ room \in Nat
  <2>1. w \in Seq(Nat \ {0})
    BY <1>2, Frame
  <2>2. room \in Nat
    BY <1>3, <2>1, RoomIsNat
  <2> QED BY <2>1, <2>2
<1>7. PICK n \in 1 .. Min({chunk, FileSize - s.sz, room}) :
        /\ wire' = [wire EXCEPT ![Peer(x)] = Put(@, n)]
        /\ LET t == [s EXCEPT !.sz = @ + n, !.moved = @ + n]
           IN Becomes(x, IF t.sz < FileSize /\ f.size > 0 THEN t ELSE Executed(x, t, t.sz))
  BY <1>2 DEF SendFile
<1>8. n \in Nat \ {0} /\ s.sz + n <= FileSize
  <2> DEFINE rest == FileSize - s.sz
  <2>1. rest \in Nat /\ n \in 1 .. Min({chunk, rest, room})
    BY <1>5, <1>7
  <2>2. chunk \in Nat /\ room \in Nat
    BY <1>4, <1>5, <1>6
  <2> HIDE DEF rest, chunk, room
  <2>3. Min({chunk, rest, room}) \in Nat /\ Min({chunk, rest, room}) <= rest
    BY ONLY <2>1, <2>2, MinOfThree
  <2>4. n \in Nat \ {0} /\ n <= rest
    BY ONLY <2>1, <2>3
  <2> QED BY <1>5, <2>4 DEF rest
<1> DEFINE sz == s.sz + n
           moved == s.moved + n
           t == [s EXCEPT !.sz = sz, !.moved = moved]
<1>9. Becomes(x, IF t.sz < FileSize /\ f.size > 0 THEN t ELSE Executed(x, t, t.sz))
  BY <1>7
<1>10. sz \in Nat /\ moved \in Nat /\ sz = s.sz + n /\ sz <= FileSize
  BY <1>5, <1>8
<1> HIDE DEF sz, moved
<1>11. /\ t \in Strand /\ t.sz = sz /\ t.at = s.at /\ t.stage = "rest" /\ t.result = "running" /\ t.n = s.n
       /\ t.iter = s.iter
  BY <1>1, <1>4, <1>10 DEF Strand
<1> HIDE DEF t
<1>12. Ready(x, t) /\ FlowopAt(x, t) = f
  BY <1>2, <1>11
<1>13. Progress(x, s) = b + s.sz /\ Progress(x, t) = b + sz
  BY <1>1, <1>4, <1>11, <1>12 DEF Progress
<1>14. b + sz = Progress(x, s) + n /\ n \in Nat
  <2> HIDE DEF b
  <2> QED BY <1>4, <1>5, <1>8, <1>10, <1>13
<1>15. Carried(x, n)
  <2>1. /\ Whole(Put(w, n)) /\ Load(Put(w, n)) = Load(w) + (IF Stream THEN n ELSE 1)
        /\ Put(w, n) \in Seq(Nat \ {0})
    <3> HIDE DEF w
    <3> QED BY <1>2, <1>4, <1>6, <1>8, PutLoad, PutOK DEF Messages
  <2>2. wire' = [wire EXCEPT ![Peer(x)] = Put(w, n)]
    BY <1>7
  <2>3. Load(Put(w, n)) = Load(w) + n
    BY <1>4, <2>1
  <2> QED BY <1>5, <2>1, <2>2, <2>3, Zenon DEF Carried
<1>16. ASSUME NEW u, Becomes(x, u), Reaches(x, s, u, b + sz) PROVE Advances(x)
  <2>1. Reaches(x, s, u, Progress(x, s) + n)
    BY <1>14, <1>16, Zenon
  <2> QED BY <1>14, <1>15, <1>16, <2>1, Zenon DEF Advances
<1>17. CASE t.sz < FileSize
  <2>1. Sized(x, t)
    <3> HIDE DEF f
    <3> QED BY <1>4, <1>5, <1>11, <1>12 DEF Sized, Messages
  <2>2. t.n < FlowopAt(x, t).count
    BY <1>4, <1>11, <1>12
  <2>3. Reaches(x, s, t, Progress(x, t))
    BY <1>2, <1>11, <2>1, <2>2, StaysReaches
  <2>4. Becomes(x, t)
    BY <1>4, <1>9, <1>17
  <2>5. Reaches(x, s, t, b + sz)
    BY <1>13, <2>3, Zenon
  <2> QED BY <1>16, <2>4, <2>5
<1>18. CASE ~(t.sz < FileSize)
  <2>1. Becomes(x, Executed(x, t, t.sz))
    BY <1>9, <1>18
  <2>2. sz = A /\ t.sz \in Int /\ t.sz >= 0
    BY <1>5, <1>10, <1>11, <1>18
  <2>3. t.n < FlowopAt(x, t).count
    BY <1>4, <1>11, <1>12
  <2>4. Reaches(x, t, Executed(x, t, t.sz), t.n * Amount(FlowopAt(x, t)) + Amount(FlowopAt(x, t)))
    BY <1>2, <1>12, <2>2, <2>3, ExecutedReaches
  <2>5. \A a, q : Reaches(x, t, a, q) => Reaches(x, s, a, q)
    BY <1>11 DEF Reaches, Position, FlowopAt
  <2>6. t.n * Amount(FlowopAt(x, t)) + Amount(FlowopAt(x, t)) = b + sz
    BY <1>11, <1>12, <2>2
  <2>7. Reaches(x, s, Executed(x, t, t.sz), b + sz)
    BY <2>4, <2>5, <2>6, Zenon
  <2> QED BY <1>16, <2>1, <2>7
<1> QED BY <1>17, <1>18

LEMMA StepKeeps ==
  ASSUME KeptInv, SizesAreGiven, [Next]_vars
  PROVE  KeptInv'
<1>1. TypeInv /\ TypeInv' /\ st \in [Side -> Strand] /\ lost \in Nat
  BY StepOK DEF KeptInv, TypeInv, TypeOK
<1>2. ASSUME UNCHANGED vars PROVE Kept'
  <2>1. /\ profile' = profile /\ lost' = lost
        /\ \A x : st'[x] = st[x] /\ wire'[x] = wire[x]
    BY <1>2 DEF vars
  <2>2. SUFFICES ASSUME AmountsAgree, lost = 0, \A x \in Side : Well(st[x])
                 PROVE  \A y \in Side :
                          /\ Within(y, st[y])' /\ Whole(wire[y])'
                          /\ Done(y, Peer(y), st[Peer(y)])' = Done(y, y, st[y])' + Load(wire[y])'
    BY <2>1, SameWords DEF Kept
  <2>3. \A y \in Side : Peer(y) \in Side
    BY DEF Side, Peer
  <2>4. \A y \in Side : /\ Within(y, st[y]) /\ Whole(wire[y])
                        /\ Done(y, Peer(y), st[Peer(y)]) = Done(y, y, st[y]) + Load(wire[y])
    BY <2>2 DEF KeptInv, Kept
  <2> QED BY <2>1, <2>3, <2>4, SameWords
<1>3. ASSUME NEW x \in Side, Lose(x) PROVE Kept'
  <2>1. lost' # 0
    BY <1>1, <1>3 DEF Lose
  <2> QED BY <2>1 DEF Kept
<1>4. ASSUME NEW x \in Side, Step(x) PROVE Kept'
  <2>1. profile' = profile /\ lost' = lost /\ st[x].result = "running"
    BY <1>4 DEF Step, Execute, FirstRead, Read, HangUp, GivesUp, FirstWrite, Write, WriteFails, SendFile, Runs
  <2>2. CASE Keeping
    <3>1. Advances(x)
      BY <1>4, <2>2, ExecuteAdvances, ReadAdvances, WriteAdvances, FailureAdvances, SendFileAdvances DEF Step
    <3> QED BY <1>1, <2>1, <2>2, <3>1, AdvanceKeeps
  <2>3. CASE ~Keeping
    <3>1. \A y \in Side \ {x} : st'[y] = st[y]
      <4>1. \E t : Becomes(x, t)
        BY <1>4 DEF Step, Execute, FirstRead, Read, HangUp, GivesUp, FirstWrite, Write, WriteFails, SendFile
      <4> QED BY <1>1, <4>1 DEF Becomes
    <3>2. Well(st[x])
      BY <2>1 DEF Well
    <3>3. ~AmountsAgree \/ lost # 0 \/ \E y \in Side \ {x} : ~Well(st[y])
      BY <2>3, <3>2 DEF Keeping
    <3>4. CASE ~AmountsAgree
      BY <2>1, <3>4, SameWords DEF Kept
    <3>5. CASE lost # 0
      BY <2>1, <3>5 DEF Kept
    <3>6. CASE \E y \in Side \ {x} : ~Well(st[y])
      <4>1. PICK y \in Side \ {x} : ~Well(st[y])
        BY <3>6
      <4>2. ~Well(st'[y])
        BY <3>1, <4>1, Zenon
      <4>3. ~Well(st[y])'
        BY <2>1, <4>2, SameWords
      <4> QED BY <4>3 DEF Kept
    <3> QED BY <3>3, <3>4, <3>5, <3>6
  <2> QED BY <2>2, <2>3
<1> QED BY <1>1, <1>2, <1>3, <1>4 DEF Next, Stopped, KeptInv

\* When both sides come to the end of the transaction, what one has written the other has read, if
\* their flowops amount to the same, one by one: short reads and writes, larger reads of the slave,
\* repetitions, datagrams that were not there at the first attempt, and the order of the steps make
\* no difference (group_opposite, optimize_txn_for_slave, flowop_rw).
THEOREM NothingIsLeft == SizesAreGiven /\ Spec => [](AmountsAgree => NothingLeft)
<1>1. Init => KeptInv
  <2>1. SUFFICES ASSUME Init PROVE KeptInv
    OBVIOUS
  <2>2. TypeInv
    BY <2>1, InitOK
  <2>3. SUFFICES ASSUME AmountsAgree, NEW x \in Side
                 PROVE  /\ Within(x, st[x]) /\ Whole(wire[x])
                        /\ Done(x, Peer(x), st[Peer(x)]) = Done(x, x, st[x]) + Load(wire[x])
    BY <2>2 DEF KeptInv, Kept
  <2>4. profile \in Profiles /\ profile.iter \in Nat \ {0} /\ Peer(x) \in Side
    BY <2>2, StrandOfSide, ProfileFields DEF Peer, Side
  <2>5. ASSUME NEW y \in Side
        PROVE  /\ st[y].iter = 1 /\ st[y].at = 1 /\ st[y].n = 0 /\ st[y].stage = "begin"
               /\ st[y].result = "running" /\ wire[y] = <<>>
    <3>1. Txn(y).iter # 0
      BY <2>4, TxnFacts
    <3> QED BY <2>1, <3>1 DEF Init
  <2>6. ASSUME NEW y \in Side PROVE Done(x, y, st[y]) = 0
    <3> DEFINE a == Amount(FlowopAt(y, st[y]))
    <3>1. a \in Nat
      BY <2>2, <2>4, StrandOfSide, AmountIsNat
    <3>2. 0 * a + 0 = 0
      <4> HIDE DEF a
      <4> QED BY <3>1
    <3>3. Progress(y, st[y]) = 0
      BY <2>5, <3>2 DEF Progress
    <3>4. Base(x, 1, 0) = 0 /\ 1 - 1 = 0
      BY <2>3, <2>4, BaseFacts
    <3>5. Position(x, y, st[y], 0) = 0
      <4>1. Position(x, y, st[y], 0) = Base(x, 1, 1 - 1) + 0
        BY <2>5 DEF Position
      <4> QED BY <3>4, <4>1
    <3> QED BY <2>5, <3>3, <3>5 DEF Done
  <2>7. Within(x, st[x])
    BY <2>4, <2>5 DEF Within, InCall
  <2>8. Whole(wire[x]) /\ Load(wire[x]) = 0
    <3>1. Len(<<>>) = 0 /\ wire[x] = <<>>
      BY <2>5
    <3> QED BY <3>1 DEF Whole, Load
  <2>9. 0 = 0 + 0
    OBVIOUS
  <2> QED BY <2>4, <2>6, <2>7, <2>8, <2>9
<1>2. SizesAreGiven /\ KeptInv /\ [Next]_vars => SizesAreGiven' /\ KeptInv'
  BY StepKeeps DEF SizesAreGiven
<1>3. KeptInv => (AmountsAgree => NothingLeft)
  <2>1. SUFFICES ASSUME KeptInv, AmountsAgree, \A y \in Side : st[y].result = "success", lost = 0,
                        NEW x \in Side
                 PROVE  wire[x] = <<>>
    BY DEF NothingLeft
  <2>2. /\ \A y \in Side : Within(y, st[y])
        /\ Done(x, Peer(x), st[Peer(x)]) = Done(x, x, st[x]) + Load(wire[x])
    BY <2>1 DEF KeptInv, Kept, Well
  <2>3. Peer(x) \in Side /\ TypeInv /\ wire[x] \in Seq(Nat \ {0})
    BY <2>1, Frame DEF KeptInv
  <2>4. \A y \in Side : Done(x, y, st[y]) = Base(x, profile.iter, Len(profile.flowops))
    BY <2>1, <2>2 DEF Done, Within
  <2>5. Done(x, x, st[x]) \in Nat /\ Load(wire[x]) \in Nat
    BY <2>1, <2>3, DoneIsNat DEF Load
  <2>6. Load(wire[x]) = 0
    <3>1. Done(x, Peer(x), st[Peer(x)]) = Done(x, x, st[x])
      BY <2>3, <2>4
    <3> QED BY <2>2, <2>5, <3>1
  <2>7. wire[x] # <<>> => Load(wire[x]) # 0
    BY <2>3 DEF Load
  <2> QED BY <2>6, <2>7
<1> QED BY <1>1, <1>2, <1>3, PTL DEF Spec
=============================================================================
