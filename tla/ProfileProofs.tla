--------------------------- MODULE ProfileProofs ---------------------------
(***************************************************************************)
(* The theorems of Profile, for any files, any environment and any width of *)
(* the numbers.                                                             *)
(***************************************************************************)
EXTENDS Profile, FiniteSetTheorems, SequenceTheorems, TLAPS

-----------------------------------------------------------------------------
(* The invariant                                                            *)

\* s is a sequence.
Indexed(s) == s \in Seq(ToSet(s))

\* The work order: its parts have their fields, numbers in their ranges, and counts that are
\* the lengths of the lists.
OptionsInRange(o) ==
  /\ {"repeat", "batch_size"} \subseteq DOMAIN o
  /\ o.repeat \in 1 .. MaxInt /\ o.batch_size \in 1 .. MaxInt
  /\ \A k \in DOMAIN o \cap ({"size", "port", "conn"} \cup Unranged) : o[k] \in UnsignedInts

BuiltFlowop(f) == {"type", "options"} \subseteq DOMAIN f /\ OptionsInRange(f.options)

BuiltTxn(t) ==
  /\ {"iter", "duration", "rate", "nflowop", "flowops"} \subseteq DOMAIN t
  /\ t.rate \in UnsignedInts
  /\ Indexed(t.flowops) /\ t.nflowop = Len(t.flowops)
  /\ \A i \in DOMAIN t.flowops : BuiltFlowop(t.flowops[i])

BuiltGroup(g) ==
  /\ {"nthreads", "ntxn", "txns"} \subseteq DOMAIN g
  /\ g.nthreads \in UnsignedInts
  /\ Indexed(g.txns) /\ g.ntxn = Len(g.txns)
  /\ \A i \in DOMAIN g.txns : BuiltTxn(g.txns[i])

Built(v) == Indexed(v) /\ \A i \in DOMAIN v : BuiltGroup(v[i])

\* curr_txn is in curr_grp, and curr_flowop in curr_txn, each the last one of its list; a list
\* without a current element is empty, so that what is linked at its head loses nothing.
GroupIsCurrent ==
  /\ grp = Len(w)
  /\ inGroup => grp # 0
TxnIsCurrent ==
  /\ txn # <<>> => /\ grp # 0 /\ txn[1] = grp /\ txn[2] \in DOMAIN w[grp].txns
                   /\ txn[2] = Len(w[grp].txns)
  /\ txn = <<>> /\ grp # 0 => Len(w[grp].txns) = 0
FlowopIsCurrent ==
  /\ flowop # <<>> => /\ txn # <<>> /\ flowop[1] = txn[1] /\ flowop[2] = txn[2]
                      /\ flowop[3] \in DOMAIN w[txn[1]].txns[txn[2]].flowops
                      /\ flowop[3] = Len(w[txn[1]].txns[txn[2]].flowops)
  /\ flowop = <<>> /\ txn # <<>> => Len(w[txn[1]].txns[txn[2]].flowops) = 0
  /\ opts # <<>> => flowop # <<>>

\* What is stored comes from the file or the environment.
AreSymbols(s) ==
  /\ Indexed(s)
  /\ \A i \in DOMAIN s : IsToken(s[i].token) /\ (s[i].type \in Attrs => s[i].token.kind = "attr")
AreOptions(s) == Indexed(s) /\ \A i \in DOMAIN s : IsArgument(s[i].value)

Scalars ==
  /\ phase \in {"parse", "build", "accepted", "rejected", "crash"}
  /\ errors \in Nat /\ txnid \in Nat /\ fid \in Nat
  /\ inGroup \in BOOLEAN /\ inTxn \in BOOLEAN

\* What build_worklist has built, and what parse has left to it.
BInv == Scalars /\ Built(w) /\ GroupIsCurrent /\ TxnIsCurrent /\ FlowopIsCurrent /\ AreOptions(opts)
PInv == BInv /\ pos \in Nat \ {0} /\ file \in Files /\ AreSymbols(list)

-----------------------------------------------------------------------------
(* Sequences                                                                *)

LEMMA SeqIsIndexed ==
  ASSUME NEW S, NEW s \in Seq(S)
  PROVE  Indexed(s)
<1>1. Len(s) \in Nat /\ DOMAIN s = 1 .. Len(s) /\ s \in [1 .. Len(s) -> S]
  BY LenProperties
<1>2. s \in [1 .. Len(s) -> ToSet(s)]
  <2>1. \A i \in 1 .. Len(s) : s[i] \in ToSet(s)
    BY <1>1 DEF ToSet
  <2> QED BY <1>1, <2>1
<1>3. s \in UNION {[1 .. n -> ToSet(s)] : n \in Nat}
  BY <1>1, <1>2
<1> QED BY <1>3, SeqDef DEF Indexed

LEMMA IndexedDomain ==
  ASSUME NEW s, Indexed(s)
  PROVE  Len(s) \in Nat /\ DOMAIN s = 1 .. Len(s)
BY LenProperties DEF Indexed

LEMMA IndexedIn ==
  ASSUME NEW s, Indexed(s), NEW e
  PROVE  s \in Seq(ToSet(s) \cup {e})
BY SeqMonotonic DEF Indexed

LEMMA NothingIndexed == Indexed(<<>>) /\ Len(<<>>) = 0 /\ DOMAIN <<>> = {}
<1>1. <<>> \in Seq({}) /\ Len(<<>>) = 0
  BY EmptySeq
<1>2. Indexed(<<>>)
  BY <1>1, SeqIsIndexed, Zenon
<1>3. DOMAIN <<>> = 1 .. 0
  BY <1>1, <1>2, IndexedDomain
<1>4. 1 .. 0 = {}
  OBVIOUS
<1> QED BY <1>1, <1>2, <1>3, <1>4, Zenon

LEMMA EmptyIsNothing ==
  ASSUME NEW s, Indexed(s), s # <<>>
  PROVE  Len(s) \in Nat \ {0} /\ Len(s) \in DOMAIN s
BY IndexedDomain, EmptySeq DEF Indexed

LEMMA PutIndexed ==
  ASSUME NEW s, Indexed(s), NEW i \in DOMAIN s, NEW e
  PROVE  LET t == [s EXCEPT ![i] = e]
         IN /\ Indexed(t) /\ Len(t) = Len(s) /\ DOMAIN t = DOMAIN s
            /\ t[i] = e /\ \A j \in DOMAIN s : j # i => t[j] = s[j]
<1> DEFINE t == [s EXCEPT ![i] = e]
           S == ToSet(s) \cup {e}
<1>1. s \in Seq(S) /\ i \in 1 .. Len(s)
  BY IndexedIn, IndexedDomain
<1>2. e \in S
  OBVIOUS
<1>3. t \in Seq(S) /\ Len(t) = Len(s)
  <2> HIDE DEF S
  <2> QED BY <1>1, <1>2, ExceptSeq
<1>4. Indexed(t)
  BY <1>3, SeqIsIndexed, Zenon
<1>5. DOMAIN t = DOMAIN s /\ t[i] = e /\ \A j \in DOMAIN s : j # i => t[j] = s[j]
  OBVIOUS
<1> QED BY <1>3, <1>4, <1>5, Zenon

LEMMA AppendIndexed ==
  ASSUME NEW s, Indexed(s), NEW e
  PROVE  LET t == Append(s, e)
         IN /\ Indexed(t) /\ Len(t) = Len(s) + 1 /\ DOMAIN t = 1 .. Len(s) + 1
            /\ t[Len(s) + 1] = e /\ \A j \in DOMAIN s : t[j] = s[j]
<1> DEFINE t == Append(s, e)
<1>1. s \in Seq(ToSet(s) \cup {e}) /\ DOMAIN s = 1 .. Len(s)
  BY IndexedIn, IndexedDomain
<1>2. /\ t \in Seq(ToSet(s) \cup {e}) /\ Len(t) = Len(s) + 1
      /\ t[Len(s) + 1] = e /\ \A j \in DOMAIN s : t[j] = s[j]
  BY <1>1, AppendProperties
<1>3. Indexed(t)
  BY <1>2, SeqIsIndexed, Zenon
<1>4. DOMAIN t = 1 .. Len(s) + 1
  BY <1>2, <1>3, IndexedDomain
<1> QED BY <1>2, <1>3, <1>4, Zenon

LEMMA OneIndexed ==
  ASSUME NEW e
  PROVE  Indexed(<<e>>) /\ DOMAIN <<e>> = {1}
<1>1. <<e>> \in Seq({e}) /\ DOMAIN <<e>> = {1}
  OBVIOUS
<1>2. Indexed(<<e>>)
  BY <1>1, SeqIsIndexed, Zenon
<1> QED BY <1>1, <1>2

-----------------------------------------------------------------------------
(* Numbers                                                                  *)

\* The subsets of a set with one more element: those without it and those with it.
LEMMA TwiceTheSubsets ==
  ASSUME NEW S, IsFiniteSet(S), NEW x, x \notin S
  PROVE  Cardinality(SUBSET (S \cup {x})) = 2 * Cardinality(SUBSET S)
<1> DEFINE P == SUBSET S
           Q == {R \cup {x} : R \in P}
           T == SUBSET (S \cup {x})
<1>1. IsFiniteSet(P) /\ Cardinality(P) \in Nat
  BY FS_SUBSET, FS_CardinalityType
<1>2. \A R : R \in T => R \in P \/ R \in Q
  <2> SUFFICES ASSUME NEW R, R \in T, R \notin P PROVE R \in Q
    OBVIOUS
  <2>1. R \ {x} \in P
    OBVIOUS
  <2>2. R = (R \ {x}) \cup {x}
    OBVIOUS
  <2> QED BY <2>1, <2>2, Zenon
<1>3. \A R : R \in P \/ R \in Q => R \in T
  OBVIOUS
<1>4. \A R \in P : x \notin R
  OBVIOUS
<1>5. \A R \in Q : x \in R
  OBVIOUS
<1>6. ExistsBijection(P, Q)
  <2> DEFINE f == [R \in P |-> R \cup {x}]
  <2>1. f \in [P -> Q]
    OBVIOUS
  <2>2. ASSUME NEW R \in P, NEW O \in P, f[R] = f[O] PROVE R = O
    <3>1. R = (R \cup {x}) \ {x} /\ O = (O \cup {x}) \ {x}
      BY <1>4
    <3> QED BY <2>2, <3>1
  <2>3. \A O \in Q : \E R \in P : f[R] = O
    OBVIOUS
  <2> HIDE DEF f, P, Q
  <2>4. f \in Bijection(P, Q)
    BY <2>1, <2>2, <2>3 DEF Bijection, Injection, Surjection, IsInjective
  <2> QED BY <2>4 DEF ExistsBijection
<1> HIDE DEF P, Q, T
<1>7. IsFiniteSet(Q) /\ Cardinality(Q) = Cardinality(P)
  BY <1>1, <1>6, FS_Bijection
<1>8. T = P \cup Q /\ P \cap Q = {}
  BY <1>2, <1>3, <1>4, <1>5
<1>9. Cardinality(T) = Cardinality(P) + Cardinality(P)
  BY <1>1, <1>7, <1>8, FS_Union, FS_EmptySet
<1>10. Cardinality(T) = 2 * Cardinality(P)
  BY <1>1, <1>9
<1> QED BY <1>10 DEF P, T

LEMMA Doubled ==
  ASSUME NEW n \in Nat
  PROVE  2 ^ n \in Nat \ {0} /\ 2 ^ (n + 1) = 2 * 2 ^ n
<1> DEFINE S == 1 .. n
           T == 1 .. n + 1
<1>1. IsFiniteSet(S) /\ Cardinality(S) = n /\ IsFiniteSet(T) /\ Cardinality(T) = n + 1
  <2>1. 1 \in Int /\ n \in Int /\ n + 1 \in Int
    OBVIOUS
  <2>2. /\ IsFiniteSet(S) /\ Cardinality(S) = (IF 1 > n THEN 0 ELSE n - 1 + 1)
        /\ IsFiniteSet(T) /\ Cardinality(T) = (IF 1 > n + 1 THEN 0 ELSE n + 1 - 1 + 1)
    BY <2>1, FS_Interval
  <2> QED BY <2>2
<1>2. T = S \cup {n + 1} /\ n + 1 \notin S
  OBVIOUS
<1> HIDE DEF S, T
<1>3. IsFiniteSet(SUBSET S) /\ Cardinality(SUBSET S) = 2 ^ n /\ Cardinality(SUBSET T) = 2 ^ (n + 1)
  BY <1>1, FS_SUBSET
<1>4. Cardinality(SUBSET S) \in Nat /\ Cardinality(SUBSET S) # 0
  BY <1>3, FS_CardinalityType, FS_EmptySet
<1>5. Cardinality(SUBSET T) = 2 * Cardinality(SUBSET S)
  BY <1>1, <1>2, TwiceTheSubsets
<1> QED BY <1>3, <1>4, <1>5

LEMMA Widths ==
  /\ MaxInt \in Nat \ {0}
  /\ 2 ^ IntBits = 2 * (MaxInt + 1)
  /\ 2 ^ (IntBits - 1) = MaxInt + 1
  /\ UnsignedInts = 0 .. 2 * MaxInt + 1
<1> DEFINE m == IntBits - 2
<1>1. m \in Nat /\ m + 1 = IntBits - 1 /\ IntBits - 1 \in Nat /\ IntBits - 1 + 1 = IntBits
  BY ProfileAssumption
<1>2. 2 ^ (IntBits - 1) \in Nat \ {0} /\ 2 ^ (IntBits - 1 + 1) = 2 * 2 ^ (IntBits - 1)
  BY <1>1, Doubled
<1>3. 2 ^ IntBits = 2 * 2 ^ (IntBits - 1)
  BY <1>1, <1>2
<1>4. 2 ^ (IntBits - 1) > 1
  <2> HIDE DEF m
  <2>1. 2 ^ m \in Nat \ {0} /\ 2 ^ (m + 1) = 2 * 2 ^ m
    BY <1>1, Doubled
  <2> QED BY <1>1, <2>1
<1> QED BY <1>2, <1>3, <1>4 DEF MaxInt, UnsignedInts

LEMMA WrapInRange == \A n \in Int : Wrap(n) \in -MaxInt - 1 .. MaxInt
<1> DEFINE h == MaxInt + 1
<1>1. h \in Nat \ {0}
  BY Widths
<1>2. ASSUME NEW n \in Int PROVE ((n + h) % (2 * h)) - h \in -h .. h - 1
  <2>1. 2 * h \in Nat \ {0} /\ n + h \in Int
    BY <1>1
  <2>2. (n + h) % (2 * h) \in 0 .. 2 * h - 1
    <3> HIDE DEF h
    <3> QED BY <1>1, <2>1
  <2> HIDE DEF h
  <2> QED BY <1>1, <2>2
<1>3. 2 ^ IntBits = 2 * h /\ 2 ^ (IntBits - 1) = h
  BY Widths
<1>4. ASSUME NEW n \in Int PROVE Wrap(n) = ((n + h) % (2 * h)) - h
  <2> HIDE DEF h
  <2> QED BY <1>3, Zenon DEF Wrap
<1>5. ASSUME NEW n \in Int PROVE Wrap(n) \in -h .. h - 1
  <2> HIDE DEF h
  <2> QED BY <1>2, <1>4
<1>6. -h = -MaxInt - 1 /\ h - 1 = MaxInt
  BY Widths
<1> QED BY <1>5, <1>6

LEMMA UnsignedInRange == \A n \in Int : Unsigned(n) \in UnsignedInts
<1> DEFINE m == 2 * (MaxInt + 1)
<1>1. m \in Nat \ {0} /\ UnsignedInts = 0 .. m - 1
  BY Widths
<1>2. ASSUME NEW n \in Int PROVE n % m \in 0 .. m - 1
  <2> HIDE DEF m
  <2> QED BY <1>1
<1> QED BY <1>1, <1>2, Widths DEF Unsigned

LEMMA ShiftType ==
  ASSUME NEW unit, HasShift(unit)
  PROVE  Shift(unit) \in Nat
<1>1. DOMAIN Letters = 1 .. 8 /\ UnitShift \in Nat
  BY ProfileAssumption DEF Letters
<1>2. CASE unit = ""
  BY <1>2 DEF Shift
<1>3. CASE unit # ""
  <2> DEFINE i == CHOOSE i \in DOMAIN Letters : Letters[i] = unit
  <2>1. \E j \in DOMAIN Letters : Letters[j] = unit
    BY <1>3 DEF HasShift
  <2>2. i \in DOMAIN Letters
    BY <2>1, Zenon
  <2>3. Shift(unit) = UnitShift * (i - 1)
    BY <1>3, Zenon DEF Shift
  <2> HIDE DEF i
  <2>4. i - 1 \in Nat
    BY <1>1, <2>2
  <2>5. UnitShift * (i - 1) \in Nat
    BY <1>1, <2>4
  <2> QED BY <2>3, <2>5
<1> QED BY <1>2, <1>3

\* string_to_int returns an int.
LEMMA StringToIntInRange ==
  ASSUME NEW v, IsNumeral(v), NEW n \in StringToInt(v)
  PROVE  n \in -MaxInt - 1 .. MaxInt
<1>1. MaxInt \in Nat /\ -1 \in -MaxInt - 1 .. MaxInt
  BY Widths
<1>2. CASE v.kind \notin {"number", "fraction"} \/ ~HasShift(v.unit)
  BY <1>1, <1>2 DEF StringToInt
<1>3. CASE v.kind \in {"number", "fraction"} /\ HasShift(v.unit)
  <2> DEFINE power == 2 ^ Shift(v.unit)
             whole == v.num * power
  <2>1. v.num \in Nat /\ power \in Nat
    BY <1>3, ShiftType, Doubled DEF IsNumeral
  <2>2. whole \in Nat
    <3> HIDE DEF power
    <3> QED BY <2>1
  <2>3. CASE v.kind = "number"
    <3>1. Wrap(v.num) \in Int
      BY <1>1, <2>1, WrapInRange
    <3>2. Wrap(v.num) * power \in Int
      <4> HIDE DEF power
      <4> QED BY <2>1, <3>1
    <3>3. Wrap(Wrap(v.num) * power) \in -MaxInt - 1 .. MaxInt
      BY <3>2, WrapInRange
    <3>4. n = -1 \/ n = Wrap(Wrap(v.num) * power)
      BY <1>3, <2>3 DEF StringToInt
    <3> QED BY <1>1, <3>3, <3>4
  <2>4. CASE v.kind = "fraction"
    <3>1. \/ n = -1 \/ n = -MaxInt - 1 \/ n = MaxInt
          \/ whole \div 2 <= MaxInt /\ n = whole \div 2
      BY <1>3, <2>4 DEF StringToInt
    <3>2. whole \div 2 \in Nat
      <4> HIDE DEF whole
      <4> QED BY <2>2
    <3> HIDE DEF whole
    <3> QED BY <1>1, <3>1, <3>2
  <2> QED BY <1>3, <2>3, <2>4
<1> QED BY <1>2, <1>3

LEMMA AtoiInRange ==
  ASSUME NEW v, IsNumeral(v)
  PROVE  Atoi(v) \in -MaxInt - 1 .. MaxInt
<1>1. 0 \in -MaxInt - 1 .. MaxInt
  BY Widths
<1>2. CASE v.kind = "number"
  BY <1>2, WrapInRange DEF Atoi, IsNumeral
<1>3. CASE v.kind = "fraction"
  <2>1. v.num \div 2 \in Int
    BY <1>3 DEF IsNumeral
  <2> QED BY <1>3, <2>1, WrapInRange DEF Atoi
<1>4. CASE v.kind = "negative"
  <2>1. -v.num \in Int
    BY <1>4 DEF IsNumeral
  <2> QED BY <1>4, <2>1, WrapInRange DEF Atoi
<1>5. CASE v.kind \notin {"number", "fraction", "negative"}
  BY <1>1, <1>5 DEF Atoi
<1> QED BY <1>2, <1>3, <1>4, <1>5

LEMMA LookupType ==
  ASSUME NEW v
  PROVE  /\ IsArgument(v) => IsArgument(Lookup(v))
         /\ IsText(v) => IsText(Lookup(v))
BY TokensAssumption DEF Lookup, IsUnset, IsText

-----------------------------------------------------------------------------
(* Options                                                                  *)

LEMMA StoreInRange ==
  ASSUME NEW o, OptionsInRange(o), NEW k, NEW n,
         k \in Counts => n \in 1 .. MaxInt,
         k \in {"size", "port", "conn"} \cup Unranged => n \in UnsignedInts
  PROVE  OptionsInRange(Store(o, k, n))
<1> DEFINE s == Store(o, k, n)
<1>1. DOMAIN s = DOMAIN o \cup {k} /\ \A x \in DOMAIN o \cup {k} : s[x] = IF x = k THEN n ELSE o[x]
  BY DEF Store
<1> HIDE DEF s
<1>2. {"repeat", "batch_size"} \subseteq DOMAIN s
  BY <1>1 DEF OptionsInRange
<1>3. s.repeat \in 1 .. MaxInt /\ s.batch_size \in 1 .. MaxInt
  BY <1>1 DEF OptionsInRange, Counts
<1>4. \A x \in DOMAIN s \cap ({"size", "port", "conn"} \cup Unranged) : s[x] \in UnsignedInts
  BY <1>1 DEF OptionsInRange
<1>5. OptionsInRange(s)
  BY <1>2, <1>3, <1>4 DEF OptionsInRange
<1> QED BY <1>5 DEF s

\* An outcome: options in their ranges, and a number of errors.
IsOutcome(r) == OptionsInRange(r.options) /\ r.errs \in Nat

LEMMA KeptIsOutcome ==
  ASSUME NEW o, OptionsInRange(o), NEW k, NEW n, NEW e \in Nat,
         k \in Counts => n \in 1 .. MaxInt,
         k \in {"size", "port", "conn"} \cup Unranged => n \in UnsignedInts
  PROVE  IsOutcome(Kept(o, k, n, e)) /\ IsOutcome(Dropped(o, e))
<1>1. OptionsInRange(Store(o, k, n))
  BY StoreInRange
<1>2. /\ Kept(o, k, n, e).options = Store(o, k, n) /\ Kept(o, k, n, e).errs = e
      /\ Dropped(o, e).options = o /\ Dropped(o, e).errs = e
  BY DEF Kept, Dropped
<1> QED BY <1>1, <1>2 DEF IsOutcome

LEMMA NegatedType == \A n : Negated(n) \in Nat
BY DEF Negated

LEMMA Ints == \A n \in -MaxInt - 1 .. MaxInt : n \in Int /\ (n > 0 => n \in UnsignedInts)
BY Widths

\* parse_size
LEMMA SizeInRange ==
  ASSUME NEW o, OptionsInRange(o), NEW v, IsArgument(v), NEW r \in ParseSize(o, v)
  PROVE  IsOutcome(r)
<1>1. Unsigned(-1) \in UnsignedInts /\ 0 \in UnsignedInts
  <2>1. -1 \in Int
    OBVIOUS
  <2>2. Unsigned(-1) \in UnsignedInts
    BY <2>1, UnsignedInRange, Zenon
  <2> QED BY <2>2, Widths
<1>2. "size" \notin Counts /\ "rand" \notin Counts \cup {"size", "port", "conn"} \cup Unranged
  BY DEF Counts, Unranged
<1>3. CASE v.kind = "rand"
  <2>1. PICK a \in StringToInt(v.min), b \in StringToInt(v.max) :
          r = LET t == Store(Store(o, "rand", <<Unsigned(a), Unsigned(b)>>), "size", 0)
                  errs == Negated(a) + Negated(b)
              IN IF a # 0 /\ b # 0 THEN Dropped(t, errs) ELSE Kept(t, "size", Unsigned(-1), errs + 1)
    BY <1>3 DEF ParseSize
  <2> DEFINE p == Store(o, "rand", <<Unsigned(a), Unsigned(b)>>)
             t == Store(p, "size", 0)
             errs == Negated(a) + Negated(b)
  <2>2. OptionsInRange(p)
    BY <1>2, StoreInRange
  <2>3. OptionsInRange(t)
    <3> HIDE DEF p
    <3> QED BY <1>1, <1>2, <2>2, StoreInRange
  <2>4. errs \in Nat /\ errs + 1 \in Nat
    BY NegatedType
  <2>5. r = Dropped(t, errs) \/ r = Kept(t, "size", Unsigned(-1), errs + 1)
    BY <2>1
  <2> HIDE DEF t, errs
  <2>6. IsOutcome(Dropped(t, errs)) /\ IsOutcome(Kept(t, "size", Unsigned(-1), errs + 1))
    BY <1>1, <1>2, <2>3, <2>4, KeptIsOutcome
  <2> QED BY <2>5, <2>6
<1>4. CASE v.kind # "rand"
  <2>1. PICK n \in StringToInt(v) :
          r = IF n > 0 THEN Kept(o, "size", n, 0) ELSE Kept(o, "size", Unsigned(-1), 1)
    BY <1>4 DEF ParseSize
  <2>2. n > 0 => n \in UnsignedInts
    BY StringToIntInRange, Ints DEF IsArgument
  <2>3. n > 0 => IsOutcome(Kept(o, "size", n, 0))
    BY <1>2, <2>2, KeptIsOutcome
  <2>4. IsOutcome(Kept(o, "size", Unsigned(-1), 1))
    BY <1>1, <1>2, KeptIsOutcome
  <2> QED BY <2>1, <2>3, <2>4
<1> QED BY <1>3, <1>4

LEMMA KeyInRange ==
  ASSUME NEW o, OptionsInRange(o), NEW k, NEW v, IsArgument(v), NEW r \in ParseKey(o, k, v)
  PROVE  IsOutcome(r)
<1>1. \A n \in StringToInt(v) : n \in -MaxInt - 1 .. MaxInt
  BY StringToIntInRange DEF IsArgument
<1>2. Atoi(v) \in -MaxInt - 1 .. MaxInt
  BY AtoiInRange DEF IsArgument
<1>3. Unsigned(Atoi(v)) \in UnsignedInts /\ \A n \in StringToInt(v) : Unsigned(n) \in UnsignedInts
  BY <1>1, <1>2, Ints, UnsignedInRange
<1> USE DEF Counts, Unranged
<1>4. CASE k = "size"
  BY <1>4, SizeInRange DEF ParseKey, Ranged, Natural, Short, Streams, Times, Texts
<1>5. CASE k \in Unranged
  <2>1. PICK n \in StringToInt(v) : r = Kept(o, k, Unsigned(n), Negated(n))
    BY <1>5 DEF ParseKey, Ranged, Natural, Short, Streams, Times, Texts
  <2> QED BY <1>3, <1>5, <2>1, NegatedType, KeptIsOutcome
<1>6. CASE k = "wndsz"
  <2>1. PICK n \in StringToInt(v) : r = Kept(o, k, Unsigned64(n), Negated(n))
    BY <1>6 DEF ParseKey, Ranged, Natural, Short, Streams, Times, Texts
  <2> QED BY <1>6, <2>1, NegatedType, KeptIsOutcome
<1>7. CASE k = "port"
  <2>1. r = Kept(o, k, Unsigned(Atoi(v)), 0)
    BY <1>7 DEF ParseKey, Ranged, Natural, Short, Streams, Times, Texts
  <2> QED BY <1>3, <1>7, <2>1, KeptIsOutcome
<1>8. CASE k = "count"
  <2>1. r = Kept(o, k, Unsigned64(Atoi(v)), 0)
    BY <1>8 DEF ParseKey, Ranged, Natural, Short, Streams, Times, Texts
  <2> QED BY <1>8, <2>1, KeptIsOutcome
<1>9. CASE k \in Counts
  <2>1. r = IF Atoi(v) < 1 THEN Dropped(o, 1) ELSE Kept(o, k, Atoi(v), 0)
    BY <1>9 DEF ParseKey, Ranged, Natural, Short, Streams, Times, Texts
  <2>2. CASE Atoi(v) < 1
    <3>1. IsOutcome(Dropped(o, 1))
      BY KeptIsOutcome, Zenon DEF Dropped, IsOutcome
    <3> QED BY <2>1, <2>2, <3>1
  <2>3. CASE ~(Atoi(v) < 1)
    <3>1. Atoi(v) \in 1 .. MaxInt
      BY <1>2, <2>3, Widths
    <3>2. IsOutcome(Kept(o, k, Atoi(v), 0))
      BY <1>9, <3>1, KeptIsOutcome
    <3> QED BY <2>1, <2>3, <3>2
  <2> QED BY <2>2, <2>3
<1>10. CASE k = "conn"
  <2>1. r = Kept(o, k, Unsigned(Atoi(v)), IF Unsigned(Atoi(v)) <= 0 THEN 1 ELSE 0)
    BY <1>10 DEF ParseKey, Ranged, Natural, Short, Streams, Times, Texts
  <2> QED BY <1>3, <1>10, <2>1, KeptIsOutcome
<1> DEFINE others == {"size", "wndsz", "port", "count", "conn"} \cup Unranged \cup Counts
<1>11. CASE k \notin others
  <2> DEFINE stored(n, e) == Kept(o, k, n, e)
  <2>1. \/ \E n, e : e \in Nat /\ r = Kept(o, k, n, e)
        \/ \E e : e \in Nat /\ r = Dropped(o, e)
    <3>1. CASE k \in Ranged
      <4>1. PICK n \in StringToInt(v) :
              r = IF InRange(k, n) THEN Kept(o, k, n, 0) ELSE Dropped(o, Negated(n) + 1)
        BY <1>11, <3>1 DEF ParseKey, Ranged, Natural, Short, Streams, Times, Texts
      <4>2. Negated(n) + 1 \in Nat /\ 0 \in Nat
        BY NegatedType
      <4> QED BY <4>1, <4>2
    <3>2. CASE k \notin Ranged /\ k \in Times
      <4>1. PICK n \in StringToNsec(v) : r = Kept(o, k, n, IF n = 0 THEN 2 ELSE 0)
        BY <1>11, <3>2 DEF ParseKey, Ranged, Natural, Short, Streams, Times, Texts
      <4> QED BY <4>1
    <3>3. CASE k \notin Ranged \cup Times
      <4>1. \/ r = Kept(o, k, v, 0) \/ r = Kept(o, k, Missing, 1) \/ r = Kept(o, k, v, 1)
            \/ r = Dropped(o, 1)
        BY <1>11, <3>3 DEF ParseKey, Ranged, Natural, Short, Streams, Times, Texts
      <4> QED BY <4>1
    <3> QED BY <3>1, <3>2, <3>3
  <2>2. k \notin Counts \cup {"size", "port", "conn"} \cup Unranged
    BY <1>11
  <2>3. \A n, e : e \in Nat => IsOutcome(Kept(o, k, n, e)) /\ IsOutcome(Dropped(o, e))
    BY <2>2, KeptIsOutcome
  <2> QED BY <2>1, <2>3
<1> QED BY <1>4, <1>5, <1>6, <1>7, <1>8, <1>9, <1>10, <1>11

LEMMA OutcomesInRange ==
  ASSUME NEW o, OptionsInRange(o), NEW opt, IsArgument(opt.value), NEW r \in Outcomes(o, opt)
  PROVE  IsOutcome(r)
<1>1. CASE opt.key \in Flags /\ opt.value = Missing
  <2>1. r = Kept(o, opt.key, 1, 0)
    BY <1>1 DEF Outcomes, IsUnset, Missing
  <2>2. opt.key \notin Counts \cup {"size", "port", "conn"} \cup Unranged
    BY <1>1 DEF Flags, Counts, Unranged
  <2> QED BY <2>1, <2>2, KeptIsOutcome
<1>2. CASE \/ opt.key \notin Flags /\ opt.value = Missing
           \/ opt.value # Missing /\ IsUnset(opt.value)
  <2>1. r = Dropped(o, 1)
    BY <1>2 DEF Outcomes
  <2> QED BY <2>1 DEF Dropped, IsOutcome
<1>3. CASE opt.value # Missing /\ ~IsUnset(opt.value)
  <2>1. r \in ParseKey(o, opt.key, Lookup(opt.value))
    BY <1>3 DEF Outcomes
  <2> QED BY <2>1, LookupType, KeyInRange
<1> QED BY <1>1, <1>2, <1>3

\* flowop_parse_options begins with values in their ranges.
LEMMA DefaultsInRange ==
  ASSUME NEW o, OptionsInRange(o)
  PROVE  OptionsInRange(Store(Store(Store(Store(Store(Store(o, "count", 1), "repeat", 1),
                              "batch_size", 1), "size", 0), "duration", 0), "conn", 0))
<1>1. 1 \in 1 .. MaxInt /\ 0 \in UnsignedInts
  BY Widths
<1> USE DEF Counts, Unranged
<1>2. OptionsInRange(Store(o, "count", 1))
  BY StoreInRange
<1>3. \A p : OptionsInRange(p) => OptionsInRange(Store(p, "repeat", 1)) /\ OptionsInRange(Store(p, "batch_size", 1))
  BY <1>1, StoreInRange
<1>4. \A p : OptionsInRange(p) => OptionsInRange(Store(p, "size", 0)) /\ OptionsInRange(Store(p, "conn", 0))
  BY <1>1, StoreInRange
<1>5. \A p : OptionsInRange(p) => OptionsInRange(Store(p, "duration", 0))
  BY StoreInRange
<1> QED BY <1>2, <1>3, <1>4, <1>5, Zenon

-----------------------------------------------------------------------------
(* The work order changes in one place                                      *)

\* The same groups, transactions and flowops, with other contents.
SameLists(v, u) ==
  /\ Len(u) = Len(v) /\ DOMAIN u = DOMAIN v
  /\ \A g \in DOMAIN v :
       /\ Len(u[g].txns) = Len(v[g].txns) /\ DOMAIN u[g].txns = DOMAIN v[g].txns
       /\ \A i \in DOMAIN v[g].txns :
            /\ Len(u[g].txns[i].flowops) = Len(v[g].txns[i].flowops)
            /\ DOMAIN u[g].txns[i].flowops = DOMAIN v[g].txns[i].flowops

LEMMA GroupPut ==
  ASSUME NEW v, Built(v), NEW g \in DOMAIN v, NEW h, BuiltGroup(h)
  PROVE  LET u == [v EXCEPT ![g] = h]
         IN /\ Built(u) /\ Len(u) = Len(v) /\ DOMAIN u = DOMAIN v
            /\ u[g] = h /\ \A j \in DOMAIN v : j # g => u[j] = v[j]
<1> DEFINE u == [v EXCEPT ![g] = h]
<1>1. /\ Indexed(u) /\ Len(u) = Len(v) /\ DOMAIN u = DOMAIN v
      /\ u[g] = h /\ \A j \in DOMAIN v : j # g => u[j] = v[j]
  BY PutIndexed DEF Built
<1> HIDE DEF u
<1>2. Built(u)
  BY <1>1 DEF Built
<1> QED BY <1>1, <1>2 DEF u

LEMMA GroupAdded ==
  ASSUME NEW v, Built(v), NEW h, BuiltGroup(h)
  PROVE  LET u == Append(v, h)
         IN /\ Built(u) /\ Len(u) = Len(v) + 1 /\ Len(u) \in DOMAIN u /\ u[Len(u)] = h
<1> DEFINE u == Append(v, h)
<1>1. /\ Indexed(u) /\ Len(u) = Len(v) + 1 /\ DOMAIN u = 1 .. Len(v) + 1
      /\ u[Len(v) + 1] = h /\ \A j \in DOMAIN v : u[j] = v[j]
  BY AppendIndexed DEF Built
<1>2. Len(v) \in Nat /\ DOMAIN v = 1 .. Len(v)
  BY IndexedDomain DEF Built
<1> HIDE DEF u
<1>3. Built(u)
  BY <1>1, <1>2 DEF Built
<1> QED BY <1>1, <1>2, <1>3 DEF u

LEMMA TxnPut ==
  ASSUME NEW h, BuiltGroup(h), NEW i \in DOMAIN h.txns, NEW t, BuiltTxn(t)
  PROVE  LET k == [h EXCEPT !.txns[i] = t]
         IN /\ BuiltGroup(k) /\ Len(k.txns) = Len(h.txns) /\ DOMAIN k.txns = DOMAIN h.txns
            /\ k.txns[i] = t /\ \A j \in DOMAIN h.txns : j # i => k.txns[j] = h.txns[j]
<1> DEFINE k == [h EXCEPT !.txns[i] = t]
           s == [h.txns EXCEPT ![i] = t]
<1>1. k.txns = s /\ k.ntxn = h.ntxn /\ k.nthreads = h.nthreads /\ DOMAIN k = DOMAIN h
  BY DEF BuiltGroup
<1>2. /\ Indexed(s) /\ Len(s) = Len(h.txns) /\ DOMAIN s = DOMAIN h.txns
      /\ s[i] = t /\ \A j \in DOMAIN h.txns : j # i => s[j] = h.txns[j]
  BY PutIndexed DEF BuiltGroup
<1> HIDE DEF k, s
<1>3. BuiltGroup(k)
  BY <1>1, <1>2 DEF BuiltGroup
<1> QED BY <1>1, <1>2, <1>3 DEF k

LEMMA FlowopPut ==
  ASSUME NEW t, BuiltTxn(t), NEW i \in DOMAIN t.flowops, NEW f, BuiltFlowop(f)
  PROVE  LET k == [t EXCEPT !.flowops[i] = f]
         IN /\ BuiltTxn(k) /\ Len(k.flowops) = Len(t.flowops) /\ DOMAIN k.flowops = DOMAIN t.flowops
<1> DEFINE k == [t EXCEPT !.flowops[i] = f]
           s == [t.flowops EXCEPT ![i] = f]
<1>1. k.flowops = s /\ k.nflowop = t.nflowop /\ k.rate = t.rate /\ DOMAIN k = DOMAIN t
  BY DEF BuiltTxn
<1>2. /\ Indexed(s) /\ Len(s) = Len(t.flowops) /\ DOMAIN s = DOMAIN t.flowops
      /\ s[i] = f /\ \A j \in DOMAIN t.flowops : j # i => s[j] = t.flowops[j]
  BY PutIndexed DEF BuiltTxn
<1> HIDE DEF k, s
<1>3. BuiltTxn(k)
  BY <1>1, <1>2 DEF BuiltTxn
<1> QED BY <1>1, <1>2, <1>3 DEF k

\* One transaction changes, without its list.
LEMMA TxnChanged ==
  ASSUME NEW v, Built(v), NEW g \in DOMAIN v, NEW i \in DOMAIN v[g].txns, NEW t, BuiltTxn(t),
         Len(t.flowops) = Len(v[g].txns[i].flowops), DOMAIN t.flowops = DOMAIN v[g].txns[i].flowops
  PROVE  LET u == [v EXCEPT ![g].txns[i] = t]
         IN Built(u) /\ SameLists(v, u) /\ u[g].txns[i] = t
<1> DEFINE h == v[g]
           k == [h EXCEPT !.txns[i] = t]
           u == [v EXCEPT ![g] = k]
<1>1. BuiltGroup(h)
  BY DEF Built
<1>2. /\ BuiltGroup(k) /\ Len(k.txns) = Len(h.txns) /\ DOMAIN k.txns = DOMAIN h.txns
      /\ k.txns[i] = t /\ \A j \in DOMAIN h.txns : j # i => k.txns[j] = h.txns[j]
  <2> HIDE DEF h
  <2> QED BY <1>1, TxnPut DEF h
<1> HIDE DEF k
<1>3. /\ Built(u) /\ Len(u) = Len(v) /\ DOMAIN u = DOMAIN v
      /\ u[g] = k /\ \A j \in DOMAIN v : j # g => u[j] = v[j]
  BY <1>2, GroupPut
<1> HIDE DEF u
<1>4. SameLists(v, u)
  BY <1>2, <1>3 DEF SameLists
<1>5. Built(u) /\ SameLists(v, u) /\ u[g].txns[i] = t
  BY <1>2, <1>3, <1>4
<1> QED BY <1>5 DEF u, k

\* One flowop changes.
LEMMA FlowopChanged ==
  ASSUME NEW v, Built(v), NEW g \in DOMAIN v, NEW i \in DOMAIN v[g].txns,
         NEW n \in DOMAIN v[g].txns[i].flowops, NEW f, BuiltFlowop(f)
  PROVE  LET u == [v EXCEPT ![g].txns[i].flowops[n] = f]
         IN Built(u) /\ SameLists(v, u)
<1> DEFINE t == v[g].txns[i]
           k == [t EXCEPT !.flowops[n] = f]
           u == [v EXCEPT ![g].txns[i] = k]
<1>1. BuiltTxn(t)
  BY DEF Built, BuiltGroup
<1>2. BuiltTxn(k) /\ Len(k.flowops) = Len(t.flowops) /\ DOMAIN k.flowops = DOMAIN t.flowops
  <2> HIDE DEF t
  <2> QED BY <1>1, FlowopPut DEF t
<1> HIDE DEF k
<1>3. Built(u) /\ SameLists(v, u)
  BY <1>2, TxnChanged
<1> QED BY <1>3 DEF k

-----------------------------------------------------------------------------
(* Tokens and symbols                                                       *)

LEMMA SymbolIsToken ==
  ASSUME NEW t, IsToken(t), NEW moved
  PROVE  LET s == Symbol(t, moved)
         IN IsToken(s.token) /\ (s.type \in Attrs => s.token.kind = "attr")
<1> DEFINE s == Symbol(t, moved)
<1>1. s.type = TokenType(t)
      /\ s.token = IF moved /\ t.kind = "attr" THEN [t EXCEPT !.value = Lookup(@)] ELSE t
  BY DEF Symbol
<1>2. TokenType(t) \in Attrs => t.kind = "attr"
  BY DEF TokenType, Tags, Attrs, GroupAttrs, TxnAttrs
<1> HIDE DEF s
<1> DEFINE goal == IsToken(s.token) /\ (s.type \in Attrs => s.token.kind = "attr")
<1>3. ASSUME moved /\ t.kind = "attr" PROVE goal
  <2>1. t = Attr(t.name, t.value) /\ IsText(t.value)
    BY <1>3 DEF IsToken
  <2>2. s.token = Attr(t.name, Lookup(t.value))
    <3>1. [Attr(t.name, t.value) EXCEPT !.value = Lookup(@)] = Attr(t.name, Lookup(t.value))
      BY DEF Attr
    <3> QED BY <1>1, <1>3, <2>1, <3>1
  <2>3. s.token.kind = "attr" /\ s.token = Attr(s.token.name, s.token.value) /\ s.token.value = Lookup(t.value)
    BY <2>2 DEF Attr
  <2>4. IsToken(s.token)
    BY <2>1, <2>3, LookupType DEF IsToken
  <2> QED BY <2>3, <2>4
<1>4. ASSUME ~(moved /\ t.kind = "attr") PROVE goal
  BY <1>1, <1>2, <1>4
<1>5. goal
  BY <1>3, <1>4
<1> QED BY <1>5 DEF s

LEMMA MergedIsToken ==
  ASSUME NEW s, IsToken(s), NEW t, IsToken(t)
  PROVE  IsToken(Merged(s, t))
<1>1. \A x, v : IsText(v) => IsToken(Attr(x, v))
  BY DEF IsToken, Attr
<1>2. \A x : IsToken(Tag(x)) /\ IsToken(Word(x)) /\ IsText(Name(x))
  BY Zenon DEF IsToken, Tag, Word, Name, IsText, IsArgument, IsNumeral
<1>3. CASE s.kind = "word" /\ t.kind = "="
  BY <1>1, <1>3 DEF Merged, IsToken
<1>4. CASE ~(s.kind = "word" /\ t.kind = "=")
  <2>1. \/ \E x : Merged(s, t) = Tag(x) \/ Merged(s, t) = Word(x)
        \/ Merged(s, t) = s
        \/ Merged(s, t) = Attr(s.name, Name("?"))
    BY <1>4 DEF Merged
  <2> QED BY <1>1, <1>2, <2>1
<1> QED BY <1>3, <1>4

LEMMA ReadIsToken ==
  ASSUME PInv, pos <= Len(file)
  PROVE  IsToken(file[pos])
<1>1. Indexed(file) /\ \A i \in DOMAIN file : IsToken(file[i])
  BY TokensAssumption DEF PInv, Indexed
<1>2. pos \in DOMAIN file
  BY <1>1, IndexedDomain DEF PInv
<1> QED BY <1>1, <1>2

LEMMA SymbolAdded ==
  ASSUME NEW s, AreSymbols(s), NEW t, IsToken(t), NEW moved
  PROVE  AreSymbols(Append(s, Symbol(t, moved)))
<1> DEFINE e == Symbol(t, moved)
           u == Append(s, e)
<1>1. IsToken(e.token) /\ (e.type \in Attrs => e.token.kind = "attr")
  BY SymbolIsToken
<1> HIDE DEF e
<1>2. /\ Indexed(u) /\ DOMAIN u = 1 .. Len(s) + 1
      /\ u[Len(s) + 1] = e /\ \A j \in DOMAIN s : u[j] = s[j]
  BY AppendIndexed DEF AreSymbols
<1>3. DOMAIN s = 1 .. Len(s) /\ Len(s) \in Nat
  BY IndexedDomain DEF AreSymbols
<1> HIDE DEF u
<1>4. AreSymbols(u)
  BY <1>1, <1>2, <1>3 DEF AreSymbols
<1> QED BY <1>4 DEF u, e

LEMMA FrontOfSymbols ==
  ASSUME NEW s, AreSymbols(s), s # <<>>
  PROVE  AreSymbols(Front(s)) /\ IsToken(Last(s).token)
<1>1. Len(s) \in Nat \ {0} /\ Len(s) \in DOMAIN s /\ DOMAIN s = 1 .. Len(s)
  BY EmptyIsNothing, IndexedDomain DEF AreSymbols
<1>2. \A i \in 1 .. Len(s) - 1 : s[i] \in ToSet(s)
  BY <1>1 DEF ToSet
<1> DEFINE u == SubSeq(s, 1, Len(s) - 1)
<1>3. /\ u \in Seq(ToSet(s)) /\ Len(u) = IF 1 <= Len(s) - 1 THEN Len(s) - 1 - 1 + 1 ELSE 0
      /\ \A i \in 1 .. Len(s) - 1 - 1 + 1 : u[i] = s[1 + i - 1]
  <2>1. 1 \in Int /\ Len(s) - 1 \in Int
    BY <1>1
  <2> QED BY <1>2, <2>1, SubSeqProperties
<1> HIDE DEF u
<1>4. Indexed(u)
  BY <1>3, SeqIsIndexed, Zenon
<1>5. DOMAIN u = 1 .. Len(s) - 1 /\ \A i \in DOMAIN u : i \in DOMAIN s /\ u[i] = s[i]
  <2> DEFINE n == Len(s) - 1
  <2>1. DOMAIN u = 1 .. Len(u)
    BY <1>4, IndexedDomain
  <2>2. n \in Nat /\ (IF 1 <= n THEN n - 1 + 1 ELSE 0) = n
    BY <1>1
  <2>3. Len(u) = n
    BY <1>3, <2>2
  <2>4. ASSUME NEW i \in 1 .. n PROVE i \in DOMAIN s /\ u[i] = s[i]
    <3>1. i \in 1 .. n - 1 + 1 /\ 1 + i - 1 = i
      BY <2>2
    <3>2. u[i] = s[1 + i - 1]
      BY <1>3, <3>1
    <3>3. i \in DOMAIN s
      BY <1>1, <2>2
    <3> QED BY <3>1, <3>2, <3>3
  <2> QED BY <2>1, <2>3, <2>4
<1>6. AreSymbols(u)
  BY <1>4, <1>5 DEF AreSymbols
<1>7. Last(s) = s[Len(s)] /\ Front(s) = u
  BY DEF Last, Front, u
<1> QED BY <1>1, <1>6, <1>7 DEF AreSymbols

-----------------------------------------------------------------------------
(* The steps of parse                                                       *)

LEMMA InitPInv == Init => PInv
<1> SUFFICES ASSUME Init PROVE PInv
  OBVIOUS
<1>1. Indexed(<<>>) /\ Len(<<>>) = 0 /\ DOMAIN <<>> = {}
  BY NothingIndexed
<1>2. Scalars /\ w = <<>> /\ opts = <<>> /\ list = <<>> /\ pos = 1 /\ file \in Files
  BY DEF Init, Scalars
<1>3. Built(w) /\ AreOptions(opts) /\ AreSymbols(list)
  BY <1>1, <1>2 DEF Built, AreOptions, AreSymbols
<1>4. GroupIsCurrent /\ TxnIsCurrent /\ FlowopIsCurrent
  BY <1>1 DEF Init, GroupIsCurrent, TxnIsCurrent, FlowopIsCurrent
<1> QED BY <1>2, <1>3, <1>4 DEF PInv, BInv

LEMMA ErrorsAdded ==
  ASSUME Scalars, NEW n \in Nat, AddErrors(n)
  PROVE  errors' \in Nat /\ phase' \in {phase, "rejected"}
BY DEF Scalars, AddErrors

\* Only parse() and the end of parse_app_profile leave the work order alone.
LEMMA BInvKept ==
  ASSUME BInv, UNCHANGED <<w, cursor, opts>>, errors' \in Nat,
         phase' \in {"parse", "build", "accepted", "rejected", "crash"}
  PROVE  BInv'
<1>1. Scalars'
  BY DEF BInv, Scalars, cursor
<1>2. Built(w)' /\ AreOptions(opts)'
  BY DEF BInv, cursor
<1>3. GroupIsCurrent' /\ TxnIsCurrent' /\ FlowopIsCurrent'
  BY DEF BInv, cursor, GroupIsCurrent, TxnIsCurrent, FlowopIsCurrent
<1> QED BY <1>1, <1>2, <1>3 DEF BInv

LEMMA ParseTokenStep ==
  ASSUME PInv, ParseToken
  PROVE  PInv'
<1> DEFINE t == file[pos]
<1>1. IsToken(t) /\ pos' = pos + 1 /\ UNCHANGED <<file, w, cursor, opts>>
  BY ReadIsToken DEF ParseToken, Parsing
<1>2. AreSymbols(list) /\ Scalars
  BY DEF PInv, BInv
<1> HIDE DEF t
<1>3. AreSymbols(list') /\ errors' \in Nat /\ phase' \in {"parse", "build", "accepted", "rejected", "crash"}
  <2> DEFINE ok == phase \in {"parse", "build", "accepted", "rejected", "crash"}
  <2>1. ok /\ errors \in Nat /\ \A s : Unset(s) \in Nat
    BY <1>2 DEF Scalars, Unset
  <2>2. CASE ~Merges(t)
    <3>1. list' = Append(list, NewSymbol(t)) /\ AddErrors(Unset(NewSymbol(t)))
      BY <2>2 DEF ParseToken, t
    <3>2. AreSymbols(list')
      BY <1>1, <1>2, <3>1, SymbolAdded DEF NewSymbol
    <3>3. errors' \in Nat /\ phase' \in {phase, "rejected"}
      BY <1>2, <2>1, <3>1, ErrorsAdded
    <3> QED BY <2>1, <3>2, <3>3
  <2>3. CASE Merges(t) /\ (list = <<>> \/ Last(list).alien)
    BY <1>2, <2>1, <2>3 DEF ParseToken, Ends, t
  <2>4. CASE Merges(t) /\ ~(list = <<>> \/ Last(list).alien)
    <3> DEFINE s == MergedSymbol(Last(list).token, t)
    <3>1. list' = Append(Front(list), s) /\ AddErrors(Unset(s))
      BY <2>4 DEF ParseToken, t
    <3>2. AreSymbols(Front(list)) /\ IsToken(Last(list).token)
      BY <1>2, <2>4, FrontOfSymbols
    <3>3. AreSymbols(list')
      BY <1>1, <3>1, <3>2, MergedIsToken, SymbolAdded DEF MergedSymbol
    <3>4. errors' \in Nat /\ phase' \in {phase, "rejected"}
      BY <1>2, <2>1, <3>1, ErrorsAdded
    <3> QED BY <2>1, <3>3, <3>4
  <2> QED BY <2>2, <2>3, <2>4
<1>4. BInv'
  BY <1>1, <1>3, BInvKept DEF PInv
<1>5. pos' \in Nat \ {0} /\ file' \in Files
  BY <1>1 DEF PInv
<1> QED BY <1>3, <1>4, <1>5 DEF PInv

LEMMA OtherParseSteps ==
  ASSUME PInv, Skip \/ Cut \/ ParseEnds \/ BuildEnds \/ Ended \/ UNCHANGED vars
  PROVE  PInv'
<1>1. Scalars /\ Indexed(file)
  BY TokensAssumption DEF PInv, BInv, Indexed
<1>2. UNCHANGED <<file, list, w, cursor, opts>>
  BY DEF Skip, Cut, ParseEnds, BuildEnds, Ended, vars
<1>3. errors' \in Nat /\ phase' \in {"parse", "build", "accepted", "rejected", "crash"}
  <2>1. CASE Cut
    BY <1>1, <2>1, ErrorsAdded DEF Cut, Scalars
  <2>2. CASE Skip \/ ParseEnds \/ BuildEnds \/ Ended \/ UNCHANGED vars
    BY <1>1, <2>2 DEF Skip, ParseEnds, BuildEnds, Ended, vars, Scalars, Ends
  <2> QED BY <2>1, <2>2
<1>4. pos' \in Nat \ {0}
  BY <1>1, IndexedDomain DEF PInv, Skip, Cut, ParseEnds, BuildEnds, Ended, vars
<1>5. BInv'
  BY <1>2, <1>3, BInvKept DEF PInv
<1> QED BY <1>2, <1>4, <1>5 DEF PInv

-----------------------------------------------------------------------------
(* The steps of build_worklist                                              *)

LEMMA FailsStep ==
  ASSUME BInv, Fails \/ Crashes
  PROVE  BInv'
<1>1. UNCHANGED <<w, cursor, opts>> /\ errors \in Nat
  BY DEF Fails, Crashes, BInv, Scalars
<1>2. errors' \in Nat /\ phase' \in {"rejected", "crash"}
  BY <1>1 DEF Fails, Crashes, Reject, Ends
<1> QED BY <1>1, <1>2, BInvKept

\* The value of an attribute.
LEMMA ValueIsText ==
  ASSUME PInv, NEW types, types \subseteq Attrs, Building(types)
  PROVE  IsText(Value)
<1>1. pos \in DOMAIN list /\ list[pos].type \in Attrs
  BY IndexedDomain DEF PInv, AreSymbols, Building
<1> QED BY <1>1 DEF PInv, AreSymbols, IsToken, Value

\* A step that changes no list leaves curr_grp, curr_txn and curr_flowop where they are.
LEMMA CurrentKept ==
  ASSUME BInv, UNCHANGED cursor, SameLists(w, w'), opts' # <<>> => flowop # <<>>
  PROVE  GroupIsCurrent' /\ TxnIsCurrent' /\ FlowopIsCurrent'
<1>1. UNCHANGED <<grp, txn, flowop, inGroup>>
  BY DEF cursor
<1>2. DOMAIN w = 1 .. Len(w) /\ Len(w) \in Nat
  BY IndexedDomain DEF BInv, Built
<1>3. grp # 0 => grp \in DOMAIN w
  BY <1>2 DEF BInv, GroupIsCurrent
<1>4. GroupIsCurrent'
  BY <1>1 DEF BInv, GroupIsCurrent, SameLists
<1>5. TxnIsCurrent'
  BY <1>1, <1>3 DEF BInv, TxnIsCurrent, SameLists
<1>6. txn # <<>> => txn[1] \in DOMAIN w /\ txn[2] \in DOMAIN w[txn[1]].txns
  BY <1>3 DEF BInv, TxnIsCurrent
<1>7. FlowopIsCurrent'
  BY <1>1, <1>6 DEF BInv, FlowopIsCurrent, SameLists
<1> QED BY <1>4, <1>5, <1>7

\* Such a step keeps the invariant.
LEMMA ContentChanges ==
  ASSUME BInv, UNCHANGED cursor, Built(w'), SameLists(w, w'),
         AreOptions(opts'), opts' # <<>> => flowop # <<>>,
         errors' \in Nat, phase' \in {"parse", "build", "accepted", "rejected", "crash"}
  PROVE  BInv'
<1>1. Scalars'
  BY DEF BInv, Scalars, cursor
<1> QED BY <1>1, CurrentKept DEF BInv

LEMMA CurrentTxn ==
  ASSUME BInv, txn # <<>>
  PROVE  /\ grp \in DOMAIN w /\ txn[1] = grp /\ txn[2] \in DOMAIN w[grp].txns
         /\ BuiltGroup(w[grp]) /\ BuiltTxn(w[grp].txns[txn[2]])
<1>1. DOMAIN w = 1 .. Len(w) /\ Len(w) \in Nat
  BY IndexedDomain DEF BInv, Built
<1>2. grp \in DOMAIN w /\ txn[1] = grp /\ txn[2] \in DOMAIN w[grp].txns
  BY <1>1 DEF BInv, GroupIsCurrent, TxnIsCurrent
<1> QED BY <1>2 DEF BInv, Built, BuiltGroup

LEMMA CurrentFlowop ==
  ASSUME BInv, flowop # <<>>
  PROVE  /\ flowop[1] \in DOMAIN w /\ flowop[2] \in DOMAIN w[flowop[1]].txns
         /\ flowop[3] \in DOMAIN w[flowop[1]].txns[flowop[2]].flowops
         /\ BuiltFlowop(w[flowop[1]].txns[flowop[2]].flowops[flowop[3]])
<1>1. txn # <<>> /\ flowop[1] = txn[1] /\ flowop[2] = txn[2]
      /\ flowop[3] \in DOMAIN w[txn[1]].txns[txn[2]].flowops
  BY DEF BInv, FlowopIsCurrent
<1>2. BuiltTxn(w[txn[1]].txns[txn[2]])
  BY <1>1, CurrentTxn
<1> QED BY <1>1, <1>2, CurrentTxn, Zenon DEF BuiltTxn

LEMMA IgnoredStep ==
  ASSUME BInv, Ignored \/ GroupEnd \/ TxnEnd \/ UnknownSymbol
  PROVE  BInv'
<1>1. CASE UnknownSymbol
  BY <1>1, FailsStep DEF UnknownSymbol
<1>2. CASE Ignored \/ GroupEnd \/ TxnEnd
  <2>1. UNCHANGED <<w, grp, txn, flowop, txnid, fid, opts, phase, errors>>
    BY <1>2 DEF Ignored, GroupEnd, TxnEnd, GoesOn, cursor
  <2>2. inGroup' \in {inGroup, FALSE} /\ inTxn' \in {inTxn, FALSE}
    BY <1>2 DEF Ignored, GroupEnd, TxnEnd, cursor
  <2>3. Scalars'
    BY <2>1, <2>2 DEF BInv, Scalars
  <2>4. Built(w)' /\ AreOptions(opts)'
    BY <2>1 DEF BInv
  <2>5. inGroup' => inGroup
    BY <2>2
  <2>6. GroupIsCurrent'
    BY <2>1, <2>5 DEF BInv, GroupIsCurrent
  <2>7. TxnIsCurrent' /\ FlowopIsCurrent'
    BY <2>1 DEF BInv, TxnIsCurrent, FlowopIsCurrent
  <2> QED BY <2>3, <2>4, <2>6, <2>7 DEF BInv
<1> QED BY <1>1, <1>2

LEMMA GroupStartStep ==
  ASSUME BInv, GroupStart
  PROVE  BInv'
<1> SUFFICES ASSUME Len(w) < MaxGroups PROVE BInv'
  <2>1. CASE Len(w) >= MaxGroups
    BY <2>1, FailsStep DEF GroupStart
  <2>2. Len(w) \in Nat /\ MaxGroups \in Nat
    BY IndexedDomain, ProfileAssumption DEF BInv, Built
  <2> QED BY <2>1, <2>2
<1> DEFINE new == [nthreads |-> 0, ntxn |-> 0, txns |-> <<>>]
<1>1. /\ w' = Append(w, new) /\ grp' = Len(w) + 1 /\ inGroup' = TRUE /\ txnid' = 0
      /\ txn' = <<>> /\ flowop' = <<>> /\ UNCHANGED <<inTxn, fid, opts, phase, errors>>
      /\ opts = <<>>
  <2>1. ~(Len(w) >= MaxGroups)
    BY IndexedDomain, ProfileAssumption DEF BInv, Built
  <2> QED BY <2>1, Zenon DEF GroupStart, GoesOn, Building
<1>2. BuiltGroup(new) /\ Len(new.txns) = 0
  BY NothingIndexed, Widths DEF BuiltGroup
<1> HIDE DEF new
<1>3. Built(w') /\ Len(w') = Len(w) + 1 /\ w'[Len(w')] = new
  BY <1>1, <1>2, GroupAdded DEF BInv
<1>4. Len(w) \in Nat
  BY IndexedDomain DEF BInv, Built
<1>5. Scalars'
  BY <1>1 DEF BInv, Scalars
<1>6. GroupIsCurrent' /\ TxnIsCurrent' /\ FlowopIsCurrent'
  BY <1>1, <1>2, <1>3, <1>4 DEF GroupIsCurrent, TxnIsCurrent, FlowopIsCurrent
<1>7. AreOptions(opts)'
  BY <1>1 DEF BInv
<1> QED BY <1>3, <1>5, <1>6, <1>7 DEF BInv

LEMMA SameListsTransitive ==
  ASSUME NEW v, NEW u, NEW x, SameLists(v, u), SameLists(u, x)
  PROVE  SameLists(v, x)
BY DEF SameLists

LEMMA ThreadsStep ==
  ASSUME PInv, Threads
  PROVE  BInv'
<1>1. BInv
  BY DEF PInv
<1>2. CASE ~inGroup
  BY <1>1, <1>2, FailsStep DEF Threads
<1>3. CASE inGroup
  <2>1. PICK n \in StringToInt(Value) :
          /\ w' = [w EXCEPT ![grp].nthreads = Unsigned(n)]
          /\ Checked(n) /\ UNCHANGED <<cursor, opts>>
    BY <1>3 DEF Threads
  <2>2. n \in -MaxInt - 1 .. MaxInt
    <3>1. IsText(Value)
      BY ValueIsText DEF Threads, GroupAttrs, Attrs
    <3> QED BY <3>1, StringToIntInRange DEF IsText, IsArgument
  <2>3. Unsigned(n) \in UnsignedInts
    BY <2>2, Ints, UnsignedInRange
  <2>4. grp \in DOMAIN w
    BY <1>1, <1>3, IndexedDomain DEF BInv, Built, GroupIsCurrent
  <2> DEFINE h == [w[grp] EXCEPT !.nthreads = Unsigned(n)]
  <2>5. BuiltGroup(w[grp])
    BY <1>1, <2>4 DEF BInv, Built
  <2>6. BuiltGroup(h) /\ h.txns = w[grp].txns
    BY <2>3, <2>5 DEF BuiltGroup
  <2>7. w' = [w EXCEPT ![grp] = h]
    BY <2>1
  <2> HIDE DEF h
  <2>8. /\ Built(w') /\ Len(w') = Len(w) /\ DOMAIN w' = DOMAIN w
        /\ w'[grp] = h /\ \A j \in DOMAIN w : j # grp => w'[j] = w[j]
    BY <1>1, <2>4, <2>6, <2>7, GroupPut DEF BInv
  <2>9. SameLists(w, w')
    BY <2>6, <2>8 DEF SameLists
  <2>10. errors' \in Nat /\ phase' \in {phase, "rejected"}
    BY <1>1, <2>1, ErrorsAdded DEF Checked, BInv
  <2>11. AreOptions(opts') /\ (opts' # <<>> => flowop # <<>>)
    BY <1>1, <2>1 DEF BInv, FlowopIsCurrent
  <2>12. phase' \in {"parse", "build", "accepted", "rejected", "crash"}
    BY <1>1, <2>10 DEF BInv, Scalars
  <2> QED BY <1>1, <2>1, <2>8, <2>9, <2>10, <2>11, <2>12, ContentChanges
<1> QED BY <1>2, <1>3

\* iterations, rate, and both fields for duration.
LEMMA TxnFields ==
  ASSUME BInv, txn # <<>>
  PROVE  /\ \A n : LET u == [w EXCEPT ![txn[1]].txns[txn[2]].iter = n] IN Built(u) /\ SameLists(w, u)
         /\ \A n \in UnsignedInts :
              LET u == [w EXCEPT ![txn[1]].txns[txn[2]].rate = n] IN Built(u) /\ SameLists(w, u)
         /\ \A n : LET u == [w EXCEPT ![txn[1]].txns[txn[2]].duration = n,
                                      ![txn[1]].txns[txn[2]].iter = 1] IN Built(u) /\ SameLists(w, u)
<1> DEFINE g == txn[1]
           i == txn[2]
           t == w[g].txns[i]
<1>1. Built(w) /\ g \in DOMAIN w /\ i \in DOMAIN w[g].txns /\ BuiltTxn(t)
  BY CurrentTxn DEF BInv
<1> HIDE DEF g, i
<1>2. \A n : BuiltTxn([t EXCEPT !.iter = n]) /\ [t EXCEPT !.iter = n].flowops = t.flowops
  BY <1>1 DEF BuiltTxn
<1>3. \A n \in UnsignedInts : BuiltTxn([t EXCEPT !.rate = n]) /\ [t EXCEPT !.rate = n].flowops = t.flowops
  BY <1>1 DEF BuiltTxn
<1>4. ASSUME NEW n PROVE LET u == [w EXCEPT ![g].txns[i].iter = n] IN Built(u) /\ SameLists(w, u)
  <2> DEFINE k == [t EXCEPT !.iter = n]
             u == [w EXCEPT ![g].txns[i] = k]
  <2>1. BuiltTxn(k) /\ k.flowops = t.flowops
    BY <1>2
  <2> HIDE DEF k
  <2>2. Built(u) /\ SameLists(w, u)
    BY <1>1, <2>1, TxnChanged
  <2> QED BY <2>2 DEF k
<1>5. ASSUME NEW n \in UnsignedInts
      PROVE  LET u == [w EXCEPT ![g].txns[i].rate = n] IN Built(u) /\ SameLists(w, u)
  <2> DEFINE k == [t EXCEPT !.rate = n]
             u == [w EXCEPT ![g].txns[i] = k]
  <2>1. BuiltTxn(k) /\ k.flowops = t.flowops
    BY <1>3
  <2> HIDE DEF k
  <2>2. Built(u) /\ SameLists(w, u)
    BY <1>1, <2>1, TxnChanged
  <2> QED BY <2>2 DEF k
<1>6. ASSUME NEW n
      PROVE  LET u == [w EXCEPT ![g].txns[i].duration = n, ![g].txns[i].iter = 1]
             IN Built(u) /\ SameLists(w, u)
  <2> DEFINE k == [t EXCEPT !.duration = n]
             v == [w EXCEPT ![g].txns[i] = k]
             l == [v[g].txns[i] EXCEPT !.iter = 1]
             u == [v EXCEPT ![g].txns[i] = l]
  <2>1. BuiltTxn(k) /\ k.flowops = t.flowops
    BY <1>1 DEF BuiltTxn
  <2> HIDE DEF k
  <2>2. Built(v) /\ SameLists(w, v)
    BY <1>1, <2>1, TxnChanged
  <2>3. v[g].txns[i] = k
    BY <1>1 DEF Built, BuiltGroup
  <2> HIDE DEF v
  <2>4. BuiltTxn(l) /\ l.flowops = k.flowops
    BY <2>1, <2>3 DEF BuiltTxn
  <2>5. g \in DOMAIN v /\ i \in DOMAIN v[g].txns
    BY <1>1, <2>2 DEF SameLists
  <2> HIDE DEF l
  <2>6. Built(u) /\ SameLists(v, u)
    BY <2>2, <2>3, <2>4, <2>5, TxnChanged
  <2> HIDE DEF u
  <2>7. Built(u) /\ SameLists(w, u)
    BY <2>2, <2>6, SameListsTransitive
  <2> QED BY <2>7 DEF u, l, v, k
<1> QED BY <1>4, <1>5, <1>6 DEF g, i

LEMMA TxnAttrStep ==
  ASSUME PInv, TxnAttr
  PROVE  BInv'
<1>1. BInv
  BY DEF PInv
<1>2. CASE ~inTxn
  BY <1>1, <1>2, FailsStep DEF TxnAttr
<1>3. CASE inTxn /\ txn = <<>>
  BY <1>1, <1>3, FailsStep DEF TxnAttr
<1>4. CASE inTxn /\ txn # <<>>
  <2>1. /\ UNCHANGED <<cursor, opts>>
        /\ \/ \E n : /\ w' = [w EXCEPT ![txn[1]].txns[txn[2]].duration = n,
                                       ![txn[1]].txns[txn[2]].iter = 1]
                     /\ AddErrors(IF n = 0 THEN 1 ELSE 0)
           \/ \E n \in StringToInt(Value) :
                /\ w' = [w EXCEPT ![txn[1]].txns[txn[2]].rate = Unsigned(n)] /\ Checked(n)
           \/ \E n : w' = [w EXCEPT ![txn[1]].txns[txn[2]].iter = Unsigned64(n)] /\ Checked(n)
    BY <1>4 DEF TxnAttr
  <2>2. \A n \in StringToInt(Value) : Unsigned(n) \in UnsignedInts
    <3>1. IsText(Value)
      BY ValueIsText DEF TxnAttr, TxnAttrs, Attrs
    <3> QED BY <3>1, StringToIntInRange, Ints, UnsignedInRange DEF IsText, IsArgument
  <2>3. Built(w') /\ SameLists(w, w')
    <3>1. CASE \E n : w' = [w EXCEPT ![txn[1]].txns[txn[2]].duration = n,
                                    ![txn[1]].txns[txn[2]].iter = 1]
      <4>1. \A n : LET u == [w EXCEPT ![txn[1]].txns[txn[2]].duration = n,
                                     ![txn[1]].txns[txn[2]].iter = 1]
                   IN Built(u) /\ SameLists(w, u)
        BY <1>1, <1>4, TxnFields, Zenon
      <4> QED BY <3>1, <4>1, Zenon
    <3>2. CASE \E n \in StringToInt(Value) :
                 w' = [w EXCEPT ![txn[1]].txns[txn[2]].rate = Unsigned(n)]
      <4>1. \A m \in UnsignedInts :
              LET u == [w EXCEPT ![txn[1]].txns[txn[2]].rate = m] IN Built(u) /\ SameLists(w, u)
        BY <1>1, <1>4, TxnFields, Zenon
      <4> QED BY <2>2, <3>2, <4>1, Zenon
    <3>3. CASE \E n : w' = [w EXCEPT ![txn[1]].txns[txn[2]].iter = Unsigned64(n)]
      BY <1>1, <1>4, <3>3, TxnFields, Zenon
    <3> QED BY <2>1, <3>1, <3>2, <3>3, Zenon
  <2>4. errors' \in Nat /\ phase' \in {phase, "rejected"}
    BY <1>1, <2>1, ErrorsAdded, Zenon DEF Checked, BInv
  <2>5. AreOptions(opts') /\ (opts' # <<>> => flowop # <<>>)
    BY <1>1, <2>1, Zenon DEF BInv, FlowopIsCurrent
  <2>6. phase' \in {"parse", "build", "accepted", "rejected", "crash"}
    BY <1>1, <2>4, Zenon DEF BInv, Scalars
  <2>7. UNCHANGED cursor
    BY <2>1, Zenon
  <2> QED BY <1>1, <2>3, <2>4, <2>5, <2>6, <2>7, ContentChanges
<1> QED BY <1>2, <1>3, <1>4

LEMMA FlowopFields ==
  ASSUME BInv, flowop # <<>>
  PROVE  /\ OptionsInRange(Current.options)
         /\ \A n : LET u == [w EXCEPT ![flowop[1]].txns[flowop[2]].flowops[flowop[3]].type = n]
                   IN Built(u) /\ SameLists(w, u)
         /\ \A o : OptionsInRange(o) =>
              LET u == [w EXCEPT ![flowop[1]].txns[flowop[2]].flowops[flowop[3]].options = o]
              IN Built(u) /\ SameLists(w, u)
<1> DEFINE g == flowop[1]
           i == flowop[2]
           n == flowop[3]
           f == w[g].txns[i].flowops[n]
<1>1. /\ Built(w) /\ g \in DOMAIN w /\ i \in DOMAIN w[g].txns /\ n \in DOMAIN w[g].txns[i].flowops
      /\ BuiltFlowop(f)
  BY CurrentFlowop DEF BInv
<1>2. Current = f
  BY DEF Current
<1> HIDE DEF g, i, n
<1>3. ASSUME NEW x
      PROVE  LET u == [w EXCEPT ![g].txns[i].flowops[n].type = x] IN Built(u) /\ SameLists(w, u)
  <2> DEFINE k == [f EXCEPT !.type = x]
             u == [w EXCEPT ![g].txns[i].flowops[n] = k]
  <2>1. BuiltFlowop(k)
    BY <1>1 DEF BuiltFlowop
  <2> HIDE DEF k
  <2>2. Built(u) /\ SameLists(w, u)
    BY <1>1, <2>1, FlowopChanged
  <2> QED BY <2>2 DEF k
<1>4. ASSUME NEW o, OptionsInRange(o)
      PROVE  LET u == [w EXCEPT ![g].txns[i].flowops[n].options = o] IN Built(u) /\ SameLists(w, u)
  <2> DEFINE k == [f EXCEPT !.options = o]
             u == [w EXCEPT ![g].txns[i].flowops[n] = k]
  <2>1. BuiltFlowop(k)
    BY <1>1, <1>4 DEF BuiltFlowop
  <2> HIDE DEF k
  <2>2. Built(u) /\ SameLists(w, u)
    BY <1>1, <2>1, FlowopChanged
  <2> QED BY <2>2 DEF k
<1>5. OptionsInRange(Current.options)
  BY <1>1, <1>2 DEF BuiltFlowop
<1> QED BY <1>3, <1>4, <1>5, Zenon DEF g, i, n

LEMMA TypeStep ==
  ASSUME BInv, Type
  PROVE  BInv'
<1>1. CASE flowop = <<>>
  BY <1>1, FailsStep DEF Type
<1>2. CASE flowop # <<>> /\ ~(Value.kind = "name" /\ Value.name \in FlowopTypes)
  BY <1>2, FailsStep, Zenon DEF Type
<1>3. CASE flowop # <<>> /\ Value.kind = "name" /\ Value.name \in FlowopTypes
  <2>1. /\ w' = [w EXCEPT ![flowop[1]].txns[flowop[2]].flowops[flowop[3]].type = Value.name]
        /\ GoesOn /\ UNCHANGED <<cursor, opts>>
    BY <1>3, Zenon DEF Type
  <2>2. Built(w') /\ SameLists(w, w')
    BY <1>3, <2>1, FlowopFields, Zenon
  <2> QED BY <1>3, <2>1, <2>2, ContentChanges, Zenon DEF GoesOn, BInv, Scalars
<1> QED BY <1>1, <1>2, <1>3

LEMMA OptionsOfText ==
  ASSUME NEW v, IsText(v)
  PROVE  AreOptions(OptionsOf(v))
<1>1. CASE v.kind = "list"
  <2>1. OptionsOf(v) = v.options
    BY <1>1 DEF OptionsOf
  <2> QED BY <1>1, <2>1 DEF IsText, AreOptions, Indexed
<1>2. CASE v.kind = "name"
  <2> DEFINE o == [key |-> v.name, value |-> Missing]
  <2>1. OptionsOf(v) = <<o>>
    BY <1>2 DEF OptionsOf
  <2>2. IsArgument(o.value)
    BY DEF Missing, IsArgument, IsNumeral
  <2> HIDE DEF o
  <2>3. Indexed(<<o>>) /\ DOMAIN <<o>> = {1} /\ <<o>>[1] = o
    BY OneIndexed
  <2> QED BY <2>1, <2>2, <2>3 DEF AreOptions
<1>3. CASE v.kind \notin {"list", "name"}
  <2>1. OptionsOf(v) = <<>>
    BY <1>3 DEF OptionsOf
  <2> QED BY <2>1, NothingIndexed DEF AreOptions
<1> QED BY <1>1, <1>2, <1>3

LEMMA OptionsStep ==
  ASSUME PInv, Options
  PROVE  BInv'
<1>1. BInv
  BY DEF PInv
<1>2. CASE flowop = <<>> \/ Len(OptionsOf(Value)) > MaxOptions
  BY <1>1, <1>2, FailsStep DEF Options
<1>3. CASE flowop # <<>> /\ ~(Len(OptionsOf(Value)) > MaxOptions)
  <2> DEFINE o == Store(Store(Store(Store(Store(Store(Current.options, "count", 1), "repeat", 1),
                        "batch_size", 1), "size", 0), "duration", 0), "conn", 0)
  <2>1. /\ w' = [w EXCEPT ![flowop[1]].txns[flowop[2]].flowops[flowop[3]].options = o]
        /\ opts' = OptionsOf(Value) /\ GoesOn /\ UNCHANGED cursor
    BY <1>3, Zenon DEF Options, Current
  <2>2. OptionsInRange(o)
    BY <1>1, <1>3, FlowopFields, DefaultsInRange, Zenon
  <2> HIDE DEF o
  <2>3. Built(w') /\ SameLists(w, w')
    BY <1>1, <1>3, <2>1, <2>2, FlowopFields, Zenon
  <2>4. AreOptions(opts')
    <3>1. IsText(Value)
      BY ValueIsText, Zenon DEF Options, Attrs
    <3> QED BY <2>1, <3>1, OptionsOfText, Zenon
  <2> QED BY <1>1, <1>3, <2>1, <2>3, <2>4, ContentChanges, Zenon DEF GoesOn, BInv, Scalars
<1> QED BY <1>2, <1>3

LEMMA ParseOptionStep ==
  ASSUME BInv, ParseOption
  PROVE  BInv'
<1>1. opts # <<>> /\ flowop # <<>> /\ AreOptions(opts)
  BY Zenon DEF ParseOption, BInv, FlowopIsCurrent
<1>2. IsArgument(Head(opts).value) /\ AreOptions(Tail(opts))
  <2>1. Len(opts) \in Nat \ {0} /\ DOMAIN opts = 1 .. Len(opts) /\ opts \in Seq(ToSet(opts))
    BY <1>1, EmptyIsNothing, IndexedDomain DEF AreOptions, Indexed
  <2>2. Head(opts) = opts[1] /\ 1 \in DOMAIN opts
    BY <2>1
  <2> DEFINE u == Tail(opts)
  <2>3. u \in Seq(ToSet(opts)) /\ Len(u) = Len(opts) - 1 /\ \A i \in 1 .. Len(u) : u[i] = opts[i + 1]
    BY <1>1, <2>1, HeadTailProperties
  <2> HIDE DEF u
  <2>4. Indexed(u) /\ DOMAIN u = 1 .. Len(u)
    BY <2>3, SeqIsIndexed, IndexedDomain
  <2>5. \A i \in DOMAIN u : i + 1 \in DOMAIN opts /\ u[i] = opts[i + 1]
    BY <2>1, <2>3, <2>4
  <2>6. AreOptions(u)
    BY <1>1, <2>4, <2>5 DEF AreOptions
  <2> QED BY <1>1, <2>2, <2>6 DEF u, AreOptions
<1>3. PICK r \in Outcomes(Current.options, Head(opts)) :
        /\ w' = [w EXCEPT ![flowop[1]].txns[flowop[2]].flowops[flowop[3]].options = r.options]
        /\ AddErrors(r.errs)
  BY Zenon DEF ParseOption
<1>4. OptionsInRange(r.options) /\ r.errs \in Nat
  BY <1>1, <1>2, FlowopFields, OutcomesInRange, Zenon DEF IsOutcome
<1>5. Built(w') /\ SameLists(w, w')
  BY <1>1, <1>3, <1>4, FlowopFields, Zenon
<1>6. errors' \in Nat /\ phase' \in {phase, "rejected"}
  BY <1>3, <1>4, ErrorsAdded, Zenon DEF BInv
<1>7. opts' = Tail(opts) /\ UNCHANGED cursor
  BY Zenon DEF ParseOption
<1> QED BY <1>1, <1>2, <1>5, <1>6, <1>7, ContentChanges DEF BInv, Scalars

\* A transaction is linked behind the last one of the current group: w' has one more.
LEMMA TxnStartStep ==
  ASSUME BInv, TxnStart
  PROVE  BInv'
<1>1. CASE ~inGroup
  BY <1>1, FailsStep DEF TxnStart
<1>2. CASE inGroup
  <2> DEFINE new == [id |-> txnid, iter |-> 1, duration |-> 0, rate |-> 0, nflowop |-> 0, flowops |-> <<>>]
             g == IF txn = <<>> THEN grp ELSE txn[1]
             before == IF txn = <<>> THEN <<>> ELSE w[g].txns
             h == [w[grp] EXCEPT !.ntxn = @ + 1]
             v == [w EXCEPT ![grp] = h]
             k == [h EXCEPT !.txns = Append(before, new)]
  <2>1. /\ w' = [w EXCEPT ![grp].ntxn = @ + 1, ![g].txns = Append(before, new)]
        /\ txn' = <<g, Len(before) + 1>> /\ flowop' = <<>>
        /\ txnid' = txnid + 1 /\ fid' = 0 /\ inTxn' = TRUE
        /\ UNCHANGED <<phase, errors, grp, inGroup, opts>> /\ opts = <<>>
    BY <1>2 DEF TxnStart, GoesOn, NoFlowop, FirstFid, Building
  <2>2. grp \in DOMAIN w /\ Built(w) /\ BuiltGroup(w[grp]) /\ grp # 0
    BY <1>2, IndexedDomain DEF BInv, Built, GroupIsCurrent
  <2>3. g = grp
    BY <2>2 DEF BInv, TxnIsCurrent
  <2>4. Indexed(before) /\ Len(before) = w[grp].ntxn /\ \A i \in DOMAIN before : BuiltTxn(before[i])
    <3>1. CASE txn = <<>>
      <4>1. before = <<>> /\ Len(w[grp].txns) = 0 /\ w[grp].ntxn = Len(w[grp].txns)
        BY <2>2, <3>1 DEF BInv, TxnIsCurrent, BuiltGroup
      <4> HIDE DEF before
      <4> QED BY <4>1, NothingIndexed
    <3>2. CASE txn # <<>>
      <4>1. before = w[grp].txns
        BY <2>3, <3>2
      <4> HIDE DEF before
      <4> QED BY <2>2, <4>1 DEF BuiltGroup
    <3> QED BY <3>1, <3>2
  <2>5. BuiltTxn(new) /\ Len(new.flowops) = 0
    BY NothingIndexed, Widths DEF BuiltTxn
  <2> DEFINE s == Append(before, new)
  <2> HIDE DEF new, before, g
  <2>6. /\ Indexed(s) /\ Len(s) = Len(before) + 1 /\ DOMAIN s = 1 .. Len(before) + 1
        /\ s[Len(before) + 1] = new /\ \A j \in DOMAIN before : s[j] = before[j]
    BY <2>4, AppendIndexed
  <2>7. DOMAIN before = 1 .. Len(before) /\ Len(before) \in Nat
    BY <2>4, IndexedDomain
  <2>8. /\ k.txns = s /\ k.ntxn = Len(before) + 1 /\ k.nthreads = w[grp].nthreads
        /\ DOMAIN k = DOMAIN w[grp]
    BY <2>2, <2>4 DEF BuiltGroup
  <2>9. w' = [v EXCEPT ![grp] = k]
    BY <2>1, <2>2, <2>3
  <2> HIDE DEF s, k
  <2>10. BuiltGroup(k)
    BY <2>2, <2>4, <2>5, <2>6, <2>7, <2>8 DEF BuiltGroup
  <2>11. /\ Indexed(w') /\ Len(w') = Len(w) /\ DOMAIN w' = DOMAIN w
         /\ w'[grp] = k /\ \A j \in DOMAIN w : j # grp => w'[j] = w[j]
    <3> HIDE DEF h
    <3>1. /\ Indexed(v) /\ Len(v) = Len(w) /\ DOMAIN v = DOMAIN w
          /\ \A j \in DOMAIN w : j # grp => v[j] = w[j]
      BY <2>2, PutIndexed DEF Built
    <3> HIDE DEF v
    <3> QED BY <2>2, <2>9, <3>1, PutIndexed
  <2>12. Built(w')
    BY <2>2, <2>10, <2>11 DEF Built
  <2> DEFINE n == Len(before) + 1
  <2>13. txn' # <<>> /\ txn'[1] = grp /\ txn'[2] = n /\ n \in DOMAIN w'[grp].txns
    BY <2>1, <2>3, <2>6, <2>7, <2>8, <2>11
  <2>14. Len(w'[grp].txns[n].flowops) = 0
    BY <2>5, <2>6, <2>8, <2>11
  <2> HIDE DEF n
  <2>15. GroupIsCurrent' /\ TxnIsCurrent' /\ FlowopIsCurrent'
    <3>1. GroupIsCurrent'
      BY <2>1, <2>11 DEF BInv, GroupIsCurrent
    <3>2. TxnIsCurrent'
      BY <2>1, <2>2, <2>13 DEF TxnIsCurrent
    <3>3. FlowopIsCurrent'
      BY <2>1, <2>13, <2>14 DEF FlowopIsCurrent
    <3> QED BY <3>1, <3>2, <3>3
  <2>16. Scalars' /\ AreOptions(opts)'
    BY <2>1 DEF BInv, Scalars
  <2> QED BY <2>12, <2>15, <2>16 DEF BInv
<1> QED BY <1>1, <1>2

\* A flowop is linked behind the last one of the current transaction.
LEMMA FlowopStartStep ==
  ASSUME BInv, FlowopStart
  PROVE  BInv'
<1>1. CASE ~inTxn \/ (inTxn /\ txn = <<>>)
  BY <1>1, FailsStep, Zenon DEF FlowopStart
<1>2. CASE inTxn /\ txn # <<>>
  <2> DEFINE new == [id |-> fid, type |-> "none",
                     options |-> [count |-> 1, repeat |-> 1, batch_size |-> 1]]
             at == IF flowop = <<>> THEN txn ELSE <<flowop[1], flowop[2]>>
             before == IF flowop = <<>> THEN <<>> ELSE w[at[1]].txns[at[2]].flowops
             i == txn[2]
             t == w[grp].txns[i]
             s == Append(before, new)
             k == [t EXCEPT !.nflowop = @ + 1]
             l == [k EXCEPT !.flowops = s]
             v == [w EXCEPT ![grp].txns[i] = k]
  <2>1. /\ w' = [w EXCEPT ![txn[1]].txns[txn[2]].nflowop = @ + 1,
                          ![at[1]].txns[at[2]].flowops = Append(before, new)]
        /\ flowop' = <<at[1], at[2], Len(before) + 1>> /\ fid' = fid + 1
        /\ UNCHANGED <<phase, errors, grp, txn, inGroup, inTxn, txnid, opts>> /\ opts = <<>>
    BY <1>2, Zenon DEF FlowopStart, GoesOn, Building
  <2>2. /\ grp \in DOMAIN w /\ txn[1] = grp /\ i \in DOMAIN w[grp].txns
        /\ Built(w) /\ BuiltGroup(w[grp]) /\ BuiltTxn(t)
    BY <1>2, CurrentTxn DEF BInv
  <2>3. at[1] = grp /\ at[2] = i
    BY <2>2 DEF BInv, FlowopIsCurrent
  <2>4. Indexed(before) /\ Len(before) = t.nflowop /\ \A j \in DOMAIN before : BuiltFlowop(before[j])
    <3>1. CASE flowop = <<>>
      <4>1. before = <<>> /\ Len(t.flowops) = 0 /\ t.nflowop = Len(t.flowops)
        BY <1>2, <2>2, <3>1 DEF BInv, FlowopIsCurrent, BuiltTxn
      <4> HIDE DEF before, t
      <4> QED BY <4>1, NothingIndexed
    <3>2. CASE flowop # <<>>
      <4>1. before = t.flowops
        BY <2>3, <3>2
      <4> HIDE DEF before, t
      <4> QED BY <2>2, <4>1 DEF BuiltTxn
    <3> QED BY <3>1, <3>2
  <2>5. BuiltFlowop(new)
    BY Widths DEF BuiltFlowop, OptionsInRange, Unranged
  <2> HIDE DEF new, before, at, i
  <2>6. /\ Indexed(s) /\ Len(s) = Len(before) + 1 /\ DOMAIN s = 1 .. Len(before) + 1
        /\ s[Len(before) + 1] = new /\ \A j \in DOMAIN before : s[j] = before[j]
    BY <2>4, AppendIndexed
  <2>7. DOMAIN before = 1 .. Len(before) /\ Len(before) \in Nat
    BY <2>4, IndexedDomain
  <2> HIDE DEF s
  <2>8. /\ l.flowops = s /\ l.nflowop = Len(before) + 1 /\ l.rate = t.rate
        /\ DOMAIN l = DOMAIN t
    BY <2>2, <2>4 DEF BuiltTxn
  <2>9. w' = [v EXCEPT ![grp].txns[i] = l]
    BY <2>1, <2>2, <2>3 DEF i, s, Built, BuiltGroup, BuiltTxn
  <2> HIDE DEF l
  <2>10. BuiltTxn(l)
    <3> HIDE DEF t
    <3> QED BY <2>2, <2>4, <2>5, <2>6, <2>7, <2>8 DEF BuiltTxn
  <2> DEFINE h == w[grp]
             a == [h.txns EXCEPT ![i] = k]
             b == [a EXCEPT ![i] = l]
             p == [h EXCEPT !.txns = a]
             q == [p EXCEPT !.txns = b]
  <2>11. /\ Indexed(b) /\ Len(b) = Len(h.txns) /\ DOMAIN b = DOMAIN h.txns
         /\ b[i] = l /\ \A j \in DOMAIN h.txns : j # i => b[j] = h.txns[j]
    <3>1. Indexed(h.txns) /\ i \in DOMAIN h.txns
      BY <2>2 DEF BuiltGroup
    <3> HIDE DEF h, k
    <3>2. /\ Indexed(a) /\ Len(a) = Len(h.txns) /\ DOMAIN a = DOMAIN h.txns
          /\ \A j \in DOMAIN h.txns : j # i => a[j] = h.txns[j]
      BY <3>1, PutIndexed
    <3> HIDE DEF a
    <3> QED BY <3>1, <3>2, PutIndexed
  <2>12. q.txns = b /\ q.ntxn = h.ntxn /\ q.nthreads = h.nthreads /\ DOMAIN q = DOMAIN h
    <3> HIDE DEF a, b
    <3> QED BY <2>2 DEF BuiltGroup
  <2>13. v = [w EXCEPT ![grp] = p] /\ v[grp] = p
    BY <2>2
  <2>14. w' = [v EXCEPT ![grp] = q]
    <3>1. p.txns = a
      <4> HIDE DEF a
      <4> QED BY <2>2 DEF BuiltGroup
    <3> HIDE DEF p, v
    <3> QED BY <2>9, <2>13, <3>1
  <2> HIDE DEF b
  <2>15. BuiltGroup(q)
    <3> HIDE DEF q
    <3> QED BY <2>2, <2>10, <2>11, <2>12 DEF BuiltGroup
  <2> HIDE DEF p, q
  <2>16. /\ Indexed(w') /\ Len(w') = Len(w) /\ DOMAIN w' = DOMAIN w
         /\ w'[grp] = q /\ \A j \in DOMAIN w : j # grp => w'[j] = w[j]
    <3> HIDE DEF v
    <3>1. Indexed(w) /\ grp \in DOMAIN w
      BY <2>2 DEF Built
    <3>2. v = [w EXCEPT ![grp] = p]
      BY <2>13
    <3>3. /\ Indexed(v) /\ Len(v) = Len(w) /\ DOMAIN v = DOMAIN w
          /\ \A j \in DOMAIN w : j # grp => v[j] = w[j]
      <4> DEFINE y == [w EXCEPT ![grp] = p]
      <4>1. /\ Indexed(y) /\ Len(y) = Len(w) /\ DOMAIN y = DOMAIN w
            /\ \A j \in DOMAIN w : j # grp => y[j] = w[j]
        BY <3>1, PutIndexed
      <4>2. v = y
        BY <3>2
      <4> HIDE DEF y
      <4> QED BY <4>1, <4>2
    <3>4. /\ Indexed(w') /\ Len(w') = Len(v) /\ DOMAIN w' = DOMAIN v
          /\ w'[grp] = q /\ \A j \in DOMAIN v : j # grp => w'[j] = v[j]
      <4> DEFINE y == [v EXCEPT ![grp] = q]
      <4>1. /\ Indexed(y) /\ Len(y) = Len(v) /\ DOMAIN y = DOMAIN v
            /\ y[grp] = q /\ \A j \in DOMAIN v : j # grp => y[j] = v[j]
        BY <3>1, <3>3, PutIndexed
      <4>2. w' = y
        BY <2>14
      <4> HIDE DEF y
      <4> QED BY <4>1, <4>2
    <3> QED BY <3>3, <3>4
  <2> HIDE DEF v, t
  <2>17. Built(w')
    <3>1. \A j \in DOMAIN w : BuiltGroup(w[j])
      BY <2>2 DEF Built
    <3> QED BY <2>15, <2>16, <3>1 DEF Built
  <2> DEFINE n == Len(before) + 1
  <2>18. w'[grp].txns[i].flowops = s /\ n \in DOMAIN s /\ i \in DOMAIN w'[grp].txns
    BY <2>2, <2>6, <2>7, <2>8, <2>11, <2>12, <2>16
  <2>19. flowop' # <<>> /\ flowop'[1] = grp /\ flowop'[2] = i /\ flowop'[3] = n
    BY <2>1, <2>3
  <2>20. n = Len(s)
    BY <2>6
  <2>21. i = Len(w'[grp].txns)
    <3>1. i = Len(w[grp].txns)
      BY <1>2 DEF BInv, TxnIsCurrent, i
    <3>2. Len(w'[grp].txns) = Len(b)
      BY <2>12, <2>16
    <3> QED BY <2>11, <3>1, <3>2
  <2> HIDE DEF n
  <2>22. GroupIsCurrent' /\ TxnIsCurrent' /\ FlowopIsCurrent'
    <3>1. GroupIsCurrent'
      BY <2>1, <2>16, Zenon DEF BInv, GroupIsCurrent
    <3>2. txn'[1] = grp' /\ txn'[2] = i /\ grp' = grp /\ txn' # <<>> /\ opts' = <<>>
      BY <1>2, <2>1, <2>2 DEF i
    <3>3. grp # 0
      BY <1>2 DEF BInv, TxnIsCurrent
    <3>4. TxnIsCurrent'
      BY <2>18, <2>21, <3>2, <3>3 DEF TxnIsCurrent
    <3>5. FlowopIsCurrent'
      BY <2>18, <2>19, <2>20, <3>2 DEF FlowopIsCurrent
    <3> QED BY <3>1, <3>4, <3>5
  <2>23. Scalars' /\ AreOptions(opts)'
    <3>1. fid' = fid + 1
      BY <2>1, Zenon
    <3>2. UNCHANGED <<phase, errors, inGroup, inTxn, txnid, opts>>
      BY <2>1, Zenon
    <3> QED BY <3>1, <3>2 DEF BInv, Scalars
  <2> QED BY <2>17, <2>22, <2>23 DEF BInv
<1> QED BY <1>1, <1>2

-----------------------------------------------------------------------------
(* The theorems                                                             *)

LEMMA NextPInv == PInv /\ [Next]_vars => PInv'
<1> SUFFICES ASSUME PInv, [Next]_vars PROVE PInv'
  OBVIOUS
<1>1. BInv
  BY DEF PInv
<1>2. CASE Skip \/ Cut \/ ParseEnds \/ BuildEnds \/ Ended \/ UNCHANGED vars
  BY <1>2, OtherParseSteps
<1>3. CASE ParseToken
  BY <1>3, ParseTokenStep
<1>4. CASE ParseOption
  <2>1. BInv'
    BY <1>1, <1>4, ParseOptionStep
  <2>2. UNCHANGED <<file, pos, list>>
    BY <1>4, Zenon DEF ParseOption
  <2> QED BY <2>1, <2>2 DEF PInv
<1>5. CASE BuildSymbol
  <2>1. pos' = pos + 1 /\ UNCHANGED <<file, list>>
    BY <1>5 DEF BuildSymbol
  <2>2. BInv'
    <3>1. CASE Ignored \/ GroupEnd \/ TxnEnd \/ UnknownSymbol
      BY <1>1, <3>1, IgnoredStep
    <3>2. CASE GroupStart
      BY <1>1, <3>2, GroupStartStep
    <3>3. CASE TxnStart
      BY <1>1, <3>3, TxnStartStep
    <3>4. CASE FlowopStart
      BY <1>1, <3>4, FlowopStartStep
    <3>5. CASE Threads
      BY <3>5, ThreadsStep
    <3>6. CASE TxnAttr
      BY <3>6, TxnAttrStep
    <3>7. CASE Type
      BY <1>1, <3>7, TypeStep
    <3>8. CASE Options
      BY <3>8, OptionsStep
    <3> QED BY <1>5, <3>1, <3>2, <3>3, <3>4, <3>5, <3>6, <3>7, <3>8 DEF BuildSymbol
  <2> QED BY <2>1, <2>2 DEF PInv
<1> QED BY <1>2, <1>3, <1>4, <1>5 DEF Next

THEOREM SpecPInv == Spec => []PInv
<1> QED BY InitPInv, NextPInv, PTL DEF Spec

\* What is current is in the work order.
LEMMA CurrentIsThere ==
  ASSUME BInv
  PROVE  /\ txn # <<>> => txn[1] \in DOMAIN w /\ txn[2] \in DOMAIN w[txn[1]].txns
         /\ flowop # <<>> => flowop[3] \in DOMAIN w[flowop[1]].txns[flowop[2]].flowops
<1>1. txn # <<>> => txn[1] \in DOMAIN w /\ txn[2] \in DOMAIN w[txn[1]].txns
  BY CurrentTxn
<1>2. flowop # <<>> => flowop[3] \in DOMAIN w[flowop[1]].txns[flowop[2]].flowops
  BY CurrentFlowop
<1> QED BY <1>1, <1>2

LEMMA NumbersInRange ==
  ASSUME BInv, NEW g \in ToSet(w)
  PROVE  /\ g.nthreads \in UnsignedInts
         /\ \A t \in ToSet(g.txns) :
              /\ t.rate \in UnsignedInts
              /\ \A f \in ToSet(t.flowops) :
                   /\ {f.options.repeat, f.options.batch_size} \subseteq 1 .. MaxInt
                   /\ \A k \in DOMAIN f.options \cap ({"size", "port", "conn"} \cup Unranged) :
                        f.options[k] \in UnsignedInts
<1>1. BuiltGroup(g)
  BY DEF BInv, Built, ToSet
<1>2. ASSUME NEW t \in ToSet(g.txns)
      PROVE  BuiltTxn(t)
  BY <1>1, <1>2 DEF BuiltGroup, ToSet
<1>3. ASSUME NEW t \in ToSet(g.txns), NEW f \in ToSet(t.flowops)
      PROVE  OptionsInRange(f.options)
  BY <1>2, <1>3 DEF BuiltTxn, BuiltFlowop, ToSet
<1>4. ASSUME NEW o, OptionsInRange(o)
      PROVE  /\ {o.repeat, o.batch_size} \subseteq 1 .. MaxInt
             /\ \A k \in DOMAIN o \cap ({"size", "port", "conn"} \cup Unranged) :
                  o[k] \in UnsignedInts
  BY <1>4 DEF OptionsInRange
<1>5. g.nthreads \in UnsignedInts
  BY <1>1 DEF BuiltGroup
<1>6. \A t \in ToSet(g.txns) : t.rate \in UnsignedInts
  BY <1>2 DEF BuiltTxn
<1> QED BY <1>3, <1>4, <1>5, <1>6

\* Whatever the file, what is current is in the work order, and the numbers that the strands
\* take from it are within the ranges of their fields (string_to_int, parse_option, numbers.c).
THEOREM ProfileTypes == Spec => []TypeOK
<1>1. ASSUME PInv PROVE TypeOK
  <2>1. BInv /\ pos \in Nat
    BY <1>1 DEF PInv
  <2>2. Scalars /\ grp \in 0 .. Len(w)
    BY <2>1 DEF BInv, GroupIsCurrent
  <2> QED BY <2>1, <2>2, CurrentIsThere, NumbersInRange DEF Scalars, TypeOK
<1> QED BY <1>1, SpecPInv, PTL

\* Whatever the file, curr_grp, curr_txn and curr_flowop are the last of their lists, the lists
\* of what is current: build_worklist links a new element behind them, and loses none.
CurrentIsLast ==
  /\ grp = Len(w)
  /\ txn # <<>> => txn[1] = grp /\ txn[2] = Len(w[grp].txns)
  /\ flowop # <<>> => /\ txn # <<>> /\ flowop[1] = txn[1] /\ flowop[2] = txn[2]
                      /\ flowop[3] = Len(w[txn[1]].txns[txn[2]].flowops)

THEOREM LinkedBehindTheLast == Spec => []CurrentIsLast
<1>1. PInv => CurrentIsLast
  BY DEF PInv, BInv, GroupIsCurrent, TxnIsCurrent, FlowopIsCurrent, CurrentIsLast
<1> QED BY <1>1, SpecPInv, PTL

\* Whatever the file, ntxn and nflowop of the work order are the lengths of the lists that the
\* handshake sends behind them: groups, transactions and flowops are linked behind curr_grp,
\* curr_txn and curr_flowop, and counted in the current group and transaction (build_worklist).
THEOREM CountsMatchLists == Spec => []CountsAreLengths
<1>1. ASSUME PInv PROVE CountsAreLengths
  <2>1. \A g \in DOMAIN w : BuiltGroup(w[g])
    BY <1>1 DEF PInv, BInv, Built
  <2>2. \A g \in DOMAIN w : \A t \in DOMAIN w[g].txns : BuiltTxn(w[g].txns[t])
    BY <2>1 DEF BuiltGroup
  <2> QED BY <2>1, <2>2 DEF BuiltGroup, BuiltTxn, CountsAreLengths
<1> QED BY <1>1, SpecPInv, PTL

=============================================================================
