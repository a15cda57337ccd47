----------------------------- MODULE MCProfile -----------------------------
(***************************************************************************)
(* Files for Profile: profiles with one change, short files of any tokens,  *)
(* and every option with every value.                                      *)
(***************************************************************************)
EXTENDS Profile

Env == [n |-> Number(2, ""), d |-> Variable("n"), h |-> Name("host"), o |-> List(<<[key |-> "size", value |-> Number(1, "k")]>>)]

Set(k, v) == [key |-> k, value |-> v]
Flag(k) == Set(k, Missing)
Options_(s) == Attr("options", List(s))

\* Words, and what a first guess would try as a number.
Plain == {Number(n, "") : n \in {0, 1, 3, 33, 127, 300}} \cup {Number(2, u) : u \in {"k", "m", "g", "s", "n", "?"}}
         \cup {Number(257, "n"), Number(1277, "u"), Number(40000, "n"), Number(65535, "")}
Odd == {Fraction(3, "k"), Fraction(3, ""), Fraction(40, "k"), Fraction(100, "k"), Fraction(515, "n"), Fraction(33, "s"),
        Fraction(1, "?"), Negative(1), Negative(200), Name("tcp"), Name("/dir"), Variable("n"), Variable("d"), Variable("x"), Rand(Number(1, ""), Number(2, "k")), Rand(Number(0, ""), Name("x"))}

\* One group, one transaction.
Small == <<Tag("profile"), Tag("group"), Attr("nthreads", Number(2, "")), Alone(">"),
           Tag("transaction"), Attr("iterations", Number(1, "k")), Tag("flowop"), Attr("type", Name("read")),
           Options_(<<Set("size", Number(1, "k")), Flag("canfail"), Set("size", Number(3, ""))>>), Tag("/"),
           Tag("/transaction"), Tag("/group"), Tag("/profile")>>

\* Two groups with two transactions and one, of two flowops, one and none.
Large == <<Tag("group"), Word("nprocs"), Equals(Variable("n")), Tag("transaction"), Attr("duration", Number(2, "s")),
           Tag("flowop"), Attr("type", Name("connect")), Options_(<<Set("remotehost", Variable("h"))>>),
           Alone("<"), Word("flowop"), Attr("options", Variable("o")), Attr("type", Name("write")),
           Alone("</"), Word("transaction"), Alone(">"), Tag("transaction"), Attr("rate", Number(1, "")), Tag("flowop"),
           Tag("/"), Tag("/transaction"), Tag("/group"), Alone("comment"),
           Tag("group"), Attr("nthreads", Number(1, "")), Tag("transaction"), Tag("/transaction"), Tag("/group")>>

Alphabet ==
  {Tag(x) : x \in Tags \cup {"/flowop", "goup"}} \cup {Alone(x) : x \in {"<", "</", ">", "comment", "long"}}
  \cup {Attr(x, v) : x \in TxnAttrs \cup GroupAttrs, v \in {Number(1, ""), Name("x"), Variable("x")}}
  \cup {Attr("type", Name("nop")), Attr("type", Name("x")), Attr("type", Empty), Attr("options", Empty),
        Attr("size", Number(1, "")), Attr("name", Name("x")), Word("nthreads"), Word("group"),
        Equals(Number(1, "")), Equals(Empty), Options_(<<Set("rsize", Name("x"))>>), Options_(<<Set("count", Number(3, ""))>>)}

Replaced(f) == {[f EXCEPT ![i] = t] : i \in DOMAIN f, t \in Alphabet}
Inserted(f) == {InsertAt(f, i, t) : i \in DOMAIN f, t \in Alphabet}
Left(f) == {RemoveAt(f, i) : i \in DOMAIN f}
Swapped(f) == {[f EXCEPT ![i] = f[j], ![j] = f[i]] : i \in DOMAIN f, j \in DOMAIN f}
Changed(f) == {f} \cup Replaced(f) \cup Inserted(f) \cup Left(f) \cup Swapped(f)

Short_ == {<<>>} \cup {<<t, u>> : t \in Alphabet, u \in Alphabet}

\* Every option, and pairs of them.
WithOptions(s) == <<Tag("group"), Tag("transaction"), Tag("flowop"), Options_(s), Tag("/transaction"), Tag("/group")>>
EveryOption ==
  {WithOptions(<<Set(k, v)>>) : k \in Keys \cup {"siz"}, v \in Plain \cup Odd \cup {Missing}}
  \cup {WithOptions(<<Set("count", Number(3, "")), Set(k, v)>>) :
          k \in {"count", "repeat", "size"}, v \in Plain \cup Odd}
  \cup {WithOptions(SubSeq(<<Flag("busy"), Flag("canfail"), Set("count", Number(3, "")), Flag("idle")>>, 1, n)) : n \in 0 .. 4}

\* Every number.
EveryNumber ==
  {<<Tag("group"), Attr("nthreads", Number(n, u)), Tag("/group")>> :
     n \in 0 .. 127 \cup {200, 256, 65535}, u \in {"", "k", "m", "g", "t"}}

AllFiles == Changed(Small) \cup Changed(Large) \cup Short_ \cup EveryOption \cup EveryNumber
=============================================================================
