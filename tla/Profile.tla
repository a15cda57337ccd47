------------------------------ MODULE Profile ------------------------------
(***************************************************************************)
(* How the master reads its profile (parse.c, numbers.c): parse() turns the *)
(* file into symbols, build_worklist() the symbols into a work order, and   *)
(* parse_app_profile() accepts it unless an error was found.                *)
(*                                                                         *)
(* A file is a sequence of tokens, what next_token() returns.  Text is a    *)
(* name, a number with a unit, or a list of options, never characters.      *)
(***************************************************************************)
EXTENDS Integers, SequencesExt

CONSTANTS
  Files,        \* the files that may be read: sequences of tokens
  Environment,  \* [names -> Value]
  IntBits,      \* the width of an int (32)
  UnitShift,    \* bits from one unit to the next (10)
  Thousand,     \* nanoseconds in a microsecond (1000), and so on
  FloatBits,    \* the significant bits of a float (24)
  MaxPort,      \* 65535
  MaxGroups,    \* MAXTHREADGROUPS (1024)
  MaxOptions,   \* the length of opt_arr (100)
  MaxErrors     \* the size of parse_errors (100)

ASSUME ProfileAssumption ==
  /\ {IntBits, UnitShift, Thousand, FloatBits, MaxPort, MaxGroups, MaxOptions, MaxErrors}
       \subseteq Nat \ {0}
  /\ IntBits > 1

VARIABLES
  file,     \* the profile
  phase,    \* "parse", "build", or how it ended
  pos,      \* the next token, or the next symbol
  list,     \* the list of symbols
  w,        \* grp of the work order
  grp, txn, flowop,  \* curr_grp, curr_txn and curr_flowop: 0 or <<>> for NULL
  inGroup, inTxn,    \* in_group, in_txn
  txnid, fid,        \* the next ids
  opts,     \* the options of curr_flowop that are not parsed yet
  errors    \* no_errs

cursor == <<grp, txn, flowop, inGroup, inTxn, txnid, fid>>
vars == <<file, phase, pos, list, w, cursor, opts, errors>>

-----------------------------------------------------------------------------
(* Values.  A fraction is a number of halves; a unit is a letter, "" for none, "?" for one    *)
(* that nothing knows.                                                                        *)
Number(n, unit) == [kind |-> "number", num |-> n, unit |-> unit]
Fraction(n, unit) == [kind |-> "fraction", num |-> n, unit |-> unit]
Negative(n) == [kind |-> "negative", num |-> n]
Name(x) == [kind |-> "name", name |-> x]
Variable(x) == [kind |-> "variable", name |-> x]
Rand(v, u) == [kind |-> "rand", min |-> v, max |-> u]
List(s) == [kind |-> "list", options |-> s]
Empty == [kind |-> "empty"]
Missing == [kind |-> "missing"]

Letters == <<"b", "k", "m", "g", "t", "p", "e", "z">>

\* str2shift
HasShift(unit) == unit = "" \/ \E i \in DOMAIN Letters : Letters[i] = unit
Shift(unit) ==
  IF unit = "" THEN 0 ELSE UnitShift * ((CHOOSE i \in DOMAIN Letters : Letters[i] = unit) - 1)

MaxInt == 2 ^ (IntBits - 1) - 1
UnsignedInts == 0 .. 2 ^ IntBits - 1

\* Mutant: what does not fit an int stays as it is.
Wrap_Never(n) == n

\* Arithmetic of an int.
Wrap(n) == ((n + 2 ^ (IntBits - 1)) % 2 ^ IntBits) - 2 ^ (IntBits - 1)
Unsigned(n) == n % 2 ^ IntBits
Unsigned64(n) == n % 2 ^ (2 * IntBits)

\* Mutant: the overflow check is forgotten.
Overflows_Never(n, shift) == FALSE

\* (num << shift) >> shift != num
Overflows(n, shift) == shift > IntBits \/ Wrap(n * 2 ^ shift) \div 2 ^ shift # n

\* string_to_int: what it may return.  Converting a double above INT_MAX is undefined.
StringToInt(v) ==
  IF v.kind \notin {"number", "fraction"} \/ ~HasShift(v.unit) THEN {-1}
  ELSE LET shift == Shift(v.unit)
           whole == v.num * 2 ^ shift
       IN IF v.kind = "number"
          THEN {IF v.num >= 2 ^ (2 * IntBits - 1) \/ Overflows(Wrap(v.num), shift) THEN -1
                ELSE Wrap(Wrap(v.num) * 2 ^ shift)}
          ELSE CASE whole > 2 * (2 ^ IntBits - 1) -> {-1}
                 [] whole \div 2 <= MaxInt -> {whole \div 2}
                 [] OTHER -> {-MaxInt - 1, MaxInt}

Abs(n) == IF n < 0 THEN -n ELSE n

\* A natural number below 2^(3 * IntBits) as a float: the nearest with FloatBits significant bits,
\* and of two the even one.
Float(n) ==
  LET ulp == Max({1} \cup {x \in {2 ^ e : e \in 1 .. 3 * IntBits} : x * 2 ^ (FloatBits - 1) <= n})
      q == n \div ulp
      r == 2 * (n % ulp)
  IN ulp * (IF r > ulp \/ (r = ulp /\ q % 2 = 1) THEN q + 1 ELSE q)

\* The constants of get_multiplier are floats.
ASSUME MultiplierAssumption == \A k \in 1 .. 3 : Float(Thousand ^ k) = Thousand ^ k

\* get_multiplier
Multiplier(unit) ==
  CASE unit \in {"", "s"} -> Thousand ^ 3 [] unit = "m" -> Thousand ^ 2 [] unit = "u" -> Thousand
    [] unit = "n" -> 1 [] OTHER -> -1

\* A float cast to uint64_t, which is undefined out of its range.
ToUnsigned64(n) ==
  IF n < 0 THEN {0, Unsigned64(n)} ELSE IF n < 2 ^ (2 * IntBits) THEN {n} ELSE {0, 2 ^ (2 * IntBits) - 1}

\* string_to_nsec: 0 for an error; both factors and the product are floats.
StringToNsec(v) ==
  LET parts == IF v.kind = "fraction" THEN 2 ELSE 1
      product == Float(Float(v.num) * Abs(Multiplier(v.unit))) \div parts
  IN CASE v.kind \in {"number", "fraction"} /\ v.num \div parts < 2 ^ (2 * IntBits - 1) ->
            ToUnsigned64(IF Multiplier(v.unit) < 0 THEN -product ELSE product)
       [] v.kind = "variable" -> {Unsigned64(-1)}
       [] OTHER -> {0}

\* atoi stops at the unit.
Atoi(v) ==
  CASE v.kind = "number" -> Wrap(v.num) [] v.kind = "fraction" -> Wrap(v.num \div 2)
    [] v.kind = "negative" -> Wrap(-v.num) [] OTHER -> 0

\* getenv of a variable, other values are themselves.
IsUnset(v) == v.kind = "variable" /\ v.name \notin DOMAIN Environment
Lookup(v) == IF v.kind = "variable" /\ ~IsUnset(v) THEN Environment[v.name] ELSE v

-----------------------------------------------------------------------------
(* Tokens: a tag, "<" or "</" alone, ">", a comment, one that is too long, name=value, a      *)
(* word, and =value.                                                                          *)
Tag(x) == [kind |-> "tag", name |-> x]
Attr(x, v) == [kind |-> "attr", name |-> x, value |-> v]
Word(x) == [kind |-> "word", name |-> x]
Equals(v) == [kind |-> "=", value |-> v]
Alone(x) == [kind |-> x]

\* Digits are a natural number; the words of a list and the limits of rand() are no lists.
IsNumeral(v) == v.kind \in {"number", "fraction", "negative"} => v.num \in Nat
IsArgument(v) == IsNumeral(v) /\ (v.kind = "rand" => IsNumeral(v.min) /\ IsNumeral(v.max))
IsText(v) ==
  /\ IsArgument(v)
  /\ v.kind = "list" => /\ v.options \in Seq(ToSet(v.options))
                        /\ \A i \in DOMAIN v.options : IsArgument(v.options[i].value)
IsToken(t) ==
  /\ t.kind = "attr" => t = Attr(t.name, t.value) /\ IsText(t.value)
  /\ t.kind = "=" => IsText(t.value)

ASSUME TokensAssumption ==
  /\ \A x \in DOMAIN Environment : IsText(Environment[x])
  /\ \A f \in Files : f \in Seq(ToSet(f)) /\ \A i \in DOMAIN f : IsToken(f[i])

\* tlist
Tags == {"profile", "/profile", "group", "/group", "transaction", "/transaction", "flowop", "/"}
GroupAttrs == {"nthreads", "nprocs"}
TxnAttrs == {"iterations", "duration", "rate"}
Attrs == {"name", "type", "options"} \cup GroupAttrs \cup TxnAttrs

\* token_type
TokenType(t) ==
  CASE t.kind = "tag" /\ t.name \in Tags -> t.name
    [] t.kind = "attr" /\ t.name \in Attrs -> t.name
    [] OTHER -> "error"

\* parse puts the last symbol and the token together.
EndTag == [x \in {"profile", "group", "transaction"} |->
             CASE x = "profile" -> "/profile" [] x = "group" -> "/group" [] OTHER -> "/transaction"]
Merged(s, t) ==
  CASE s.kind = "word" /\ t.kind = "=" -> Attr(s.name, t.value)
    [] s.kind = "<" /\ t.kind = "word" -> Tag(t.name)
    [] s.kind = "</" /\ t.kind = "word" /\ t.name \in DOMAIN EndTag -> Tag(EndTag[t.name])
    [] s.kind = "tag" -> s
    [] s.kind = "attr" -> Attr(s.name, Name("?"))
    [] OTHER -> Word("?")

\* A symbol is alien if free() must not be called with it: get_symbol has moved the pointer
\* to the value, or into the environment.
Symbol(t, moved) ==
  [type |-> TokenType(t),
   token |-> IF moved /\ t.kind = "attr" THEN [t EXCEPT !.value = Lookup(@)] ELSE t,
   alien |-> moved]

\* get_symbol, which is not called for a new symbol that is not known.
HasEquals(t) == t.kind \in {"=", "attr"}
NewSymbol(t) == Symbol(t, TokenType(t) # "error" /\ HasEquals(t))
MergedSymbol(s, t) == Symbol(Merged(s, t), HasEquals(s) \/ HasEquals(t))
Unset(s) == IF s.alien /\ s.token.kind = "attr" /\ IsUnset(s.token.value) THEN 1 ELSE 0

\* The last symbol and the token are parts of one.
EndsOpen(t) == t.kind \in {"<", "</"} \/ (t.kind = "attr" /\ t.value = Empty)
Merges(t) == t.kind = "=" \/ (list # <<>> /\ EndsOpen(Last(list).token))

-----------------------------------------------------------------------------
(* parse                                                                    *)

\* add_error, n times: it exits when it was called too often.
AddErrors(n) ==
  /\ errors' = errors + n
  /\ phase' = IF errors + n > MaxErrors + 1 THEN "rejected" ELSE phase

Ends(how) == phase' = how
Parsing(kinds) == phase = "parse" /\ pos <= Len(file) /\ file[pos].kind \in kinds

\* next_token skips comments, parse the end of a tag.
Skip ==
  /\ Parsing({"comment", ">"})
  /\ pos' = pos + 1
  /\ UNCHANGED <<file, phase, list, w, cursor, opts, errors>>

\* A token that is too long ends the file.
Cut ==
  /\ Parsing({"long"})
  /\ pos' = Len(file) + 1
  /\ AddErrors(1)
  /\ UNCHANGED <<file, list, w, cursor, opts>>

ParseToken ==
  /\ Parsing({"tag", "attr", "word", "=", "<", "</"})
  /\ LET t == file[pos]
     IN IF ~Merges(t)
        THEN /\ list' = Append(list, NewSymbol(t))
             /\ AddErrors(Unset(NewSymbol(t)))
        ELSE IF list = <<>> \/ Last(list).alien
             THEN Ends("crash") /\ UNCHANGED <<list, errors>>
             ELSE LET s == MergedSymbol(Last(list).token, t)
                  IN list' = Append(Front(list), s) /\ AddErrors(Unset(s))
  /\ pos' = pos + 1
  /\ UNCHANGED <<file, w, cursor, opts>>

ParseEnds ==
  /\ phase = "parse" /\ pos = Len(file) + 1
  /\ phase' = "build" /\ pos' = 1
  /\ UNCHANGED <<file, list, w, cursor, opts, errors>>

-----------------------------------------------------------------------------
(* build_worklist                                                           *)

Building(types) == phase = "build" /\ pos <= Len(list) /\ opts = <<>> /\ list[pos].type \in types
Value == list[pos].token.value

\* Reject: an error, and no work order.
Reject == errors' = errors + 1 /\ phase' = "rejected"
Fails == Reject /\ UNCHANGED <<w, cursor, opts>>
Crashes == Ends("crash") /\ UNCHANGED <<w, cursor, opts, errors>>
GoesOn == UNCHANGED <<phase, errors>>

\* What add_error and string2int make of the result n of a conversion.
Checked(n) == AddErrors(IF n < 0 THEN 1 ELSE 0)

Ignored ==
  /\ Building({"profile", "/profile", "/", "name"})
  /\ GoesOn
  /\ UNCHANGED <<w, cursor, opts>>

\* The next of w.grp, an array whose end is not looked at.
GroupStart ==
  /\ Building({"group"})
  /\ IF Len(w) >= MaxGroups THEN Crashes
     ELSE /\ w' = Append(w, [nthreads |-> 0, ntxn |-> 0, txns |-> <<>>])
          /\ grp' = Len(w) + 1
          /\ txn' = <<>> /\ flowop' = <<>> /\ txnid' = 0 /\ inGroup' = TRUE
          /\ GoesOn
          /\ UNCHANGED <<inTxn, fid, opts>>

GroupEnd ==
  /\ Building({"/group"})
  /\ inGroup' = FALSE
  /\ GoesOn
  /\ UNCHANGED <<w, grp, txn, flowop, inTxn, txnid, fid, opts>>

\* Mutant: the flowops of a transaction are numbered from where the last one ended.
FirstFid_Last == fid

FirstFid == 0

\* Mutant: the flowops of a transaction go where those of the last one are.
NoFlowop_Last == flowop

NoFlowop == <<>>

TxnStart ==
  /\ Building({"transaction"})
  /\ IF ~inGroup THEN Fails
     ELSE LET new == [id |-> txnid, iter |-> 1, duration |-> 0, rate |-> 0, nflowop |-> 0, flowops |-> <<>>]
              g == IF txn = <<>> THEN grp ELSE txn[1]
              before == IF txn = <<>> THEN <<>> ELSE w[g].txns
          IN /\ w' = [w EXCEPT ![grp].ntxn = @ + 1, ![g].txns = Append(before, new)]
             /\ txn' = <<g, Len(before) + 1>>
             /\ flowop' = NoFlowop /\ txnid' = txnid + 1 /\ fid' = FirstFid /\ inTxn' = TRUE
             /\ GoesOn
             /\ UNCHANGED <<grp, inGroup, opts>>

TxnEnd ==
  /\ Building({"/transaction"})
  /\ inTxn' = FALSE
  /\ GoesOn
  /\ UNCHANGED <<w, grp, txn, flowop, inGroup, txnid, fid, opts>>

FlowopStart ==
  /\ Building({"flowop"})
  /\ CASE ~inTxn -> Fails
       [] inTxn /\ txn = <<>> -> Crashes
       [] OTHER ->
            LET new == [id |-> fid, type |-> "none",
                        options |-> [count |-> 1, repeat |-> 1, batch_size |-> 1]]
                at == IF flowop = <<>> THEN txn ELSE <<flowop[1], flowop[2]>>
                before == IF flowop = <<>> THEN <<>> ELSE w[at[1]].txns[at[2]].flowops
            IN /\ w' = [w EXCEPT ![txn[1]].txns[txn[2]].nflowop = @ + 1,
                                 ![at[1]].txns[at[2]].flowops = Append(before, new)]
               /\ flowop' = <<at[1], at[2], Len(before) + 1>>
               /\ fid' = fid + 1
               /\ GoesOn
               /\ UNCHANGED <<grp, txn, inGroup, inTxn, txnid, opts>>

\* nthreads and nprocs.
Threads ==
  /\ Building(GroupAttrs)
  /\ IF ~inGroup THEN Fails
     ELSE \E n \in StringToInt(Value) :
            w' = [w EXCEPT ![grp].nthreads = Unsigned(n)] /\ Checked(n) /\ UNCHANGED <<cursor, opts>>

\* iterations, rate and duration of curr_txn.
TxnAttr ==
  /\ Building(TxnAttrs)
  /\ CASE ~inTxn -> Fails
       [] inTxn /\ txn = <<>> -> Crashes
       [] OTHER ->
            /\ LET type == list[pos].type
               IN IF type = "duration"
                  THEN \E n \in StringToNsec(Value) :
                         /\ w' = [w EXCEPT ![txn[1]].txns[txn[2]].duration = n,
                                           ![txn[1]].txns[txn[2]].iter = 1]
                         /\ AddErrors(IF n = 0 THEN 1 ELSE 0)
                  ELSE \E n \in StringToInt(Value) :
                         /\ w' = IF type = "rate"
                                 THEN [w EXCEPT ![txn[1]].txns[txn[2]].rate = Unsigned(n)]
                                 ELSE [w EXCEPT ![txn[1]].txns[txn[2]].iter = Unsigned64(n)]
                         /\ Checked(n)
            /\ UNCHANGED <<cursor, opts>>

\* The flowop at curr_flowop.
Current == w[flowop[1]].txns[flowop[2]].flowops[flowop[3]]

FlowopTypes == {"read", "write", "connect", "disconnect", "accept", "nop", "think", "send", "recv",
                "sendfile", "sendfilev"}

Type ==
  /\ Building({"type"})
  /\ CASE flowop = <<>> -> Crashes
       [] flowop # <<>> /\ Value.kind = "name" /\ Value.name \in FlowopTypes ->
            /\ w' = [w EXCEPT ![flowop[1]].txns[flowop[2]].flowops[flowop[3]].type = Value.name]
            /\ GoesOn
            /\ UNCHANGED <<cursor, opts>>
       [] OTHER -> Fails

UnknownSymbol ==
  /\ Building({"error"})
  /\ Fails

\* f.options[k] = n
Store(o, k, n) == [x \in DOMAIN o \cup {k} |-> IF x = k THEN n ELSE o[x]]

\* The words of the attribute that begin with a letter.
OptionsOf(v) ==
  CASE v.kind = "list" -> v.options
    [] v.kind = "name" -> <<[key |-> v.name, value |-> Missing]>>
    [] OTHER -> <<>>

\* flowop_parse_options begins: the defaults, then one option after the other, which were
\* copied to opt_arr.
Options ==
  /\ Building({"options"})
  /\ IF flowop = <<>> \/ Len(OptionsOf(Value)) > MaxOptions THEN Crashes
     ELSE /\ w' = [w EXCEPT ![flowop[1]].txns[flowop[2]].flowops[flowop[3]].options =
                     Store(Store(Store(Store(Store(Store(@, "count", 1), "repeat", 1),
                           "batch_size", 1), "size", 0), "duration", 0), "conn", 0)]
          /\ opts' = OptionsOf(Value)
          /\ GoesOn
          /\ UNCHANGED cursor

-----------------------------------------------------------------------------
(* parse_option                                                             *)

Flags == {"tcp_nodelay", "busy", "idle", "canfail", "non_blocking", "sctp_unordered", "sctp_nodelay"}
Unranged == {"rsize", "nfiles"}
Natural == {"bblog", "sctp_rto_min", "sctp_rto_max", "sctp_rto_initial", "sctp_sack_delay",
            "sctp_sack_frequency", "sctp_max_burst_size", "sctp_max_fragment_size",
            "sctp_hb_interval", "sctp_path_mtu", "sctp_pr_value"}
Short == {"encaps", "sctp_stream_id"}
Streams == {"sctp_in_streams", "sctp_out_streams"}
Ranged == Natural \cup Short \cup Streams
Texts == {"remotehost", "localhost", "cc", "stack", "sctp_pr_policy", "engine", "cipher", "method"}
Times == {"timeout", "duration"}
Counts == {"repeat", "batch_size"}
Keys == {"size", "wndsz", "dir", "count", "port", "protocol", "conn"} \cup Flags \cup Unranged
        \cup Ranged \cup Texts \cup Times \cup Counts
Protocols == {"tcp", "udp", "ssl", "sctp", "vsock", "rds"}

InRange(k, n) ==
  n >= (IF k \in Streams THEN 1 ELSE 0) /\ (k \in Natural \/ n <= MaxPort)

\* An option is stored, or not, with a number of errors.
Kept(o, k, n, errs) == [options |-> Store(o, k, n), errs |-> errs]
Dropped(o, errs) == [options |-> o, errs |-> errs]
Negated(n) == IF n < 0 THEN 1 ELSE 0

\* parse_size; rand(min, max) leaves 0 and is kept apart.
ParseSize(o, v) ==
  IF v.kind = "rand"
  THEN {LET r == Store(Store(o, "rand", <<Unsigned(a), Unsigned(b)>>), "size", 0)
            errs == Negated(a) + Negated(b)
        IN IF a # 0 /\ b # 0 THEN Dropped(r, errs) ELSE Kept(r, "size", Unsigned(-1), errs + 1) :
          a \in StringToInt(v.min), b \in StringToInt(v.max)}
  ELSE {IF n > 0 THEN Kept(o, "size", n, 0) ELSE Kept(o, "size", Unsigned(-1), 1) : n \in StringToInt(v)}

\* The branches for key=value; sendfile_init finds only "/dir".
ParseKey(o, k, v) ==
  CASE k = "size" -> ParseSize(o, v)
    [] k \in Unranged -> {Kept(o, k, Unsigned(n), Negated(n)) : n \in StringToInt(v)}
    [] k = "wndsz" -> {Kept(o, k, Unsigned64(n), Negated(n)) : n \in StringToInt(v)}
    [] k = "port" -> {Kept(o, k, Unsigned(Atoi(v)), 0)}
    [] k = "count" -> {Kept(o, k, Unsigned64(Atoi(v)), 0)}
    [] k \in Counts -> {IF Atoi(v) < 1 THEN Dropped(o, 1) ELSE Kept(o, k, Atoi(v), 0)}
    [] k = "conn" -> {Kept(o, k, Unsigned(Atoi(v)), IF Unsigned(Atoi(v)) <= 0 THEN 1 ELSE 0)}
    [] k \in Ranged -> {IF InRange(k, n) THEN Kept(o, k, n, 0) ELSE Dropped(o, Negated(n) + 1) :
                          n \in StringToInt(v)}
    [] k \in Times -> {Kept(o, k, n, IF n = 0 THEN 2 ELSE 0) : n \in StringToNsec(v)}
    [] k = "protocol" -> {IF v.kind = "name" /\ v.name \in Protocols THEN Kept(o, k, v, 0)
                          ELSE Kept(o, k, Missing, 1)}
    [] k = "dir" -> {Kept(o, k, v, IF v = Name("/dir") THEN 0 ELSE 1)}
    [] k \in Texts -> {Kept(o, k, v, 0)}
    [] OTHER -> {Dropped(o, 1)}

\* A flag, no value, a variable, or a key.
Outcomes(o, opt) ==
  CASE opt.key \in Flags /\ opt.value = Missing -> {Kept(o, opt.key, 1, 0)}
    [] opt.key \notin Flags /\ opt.value = Missing -> {Dropped(o, 1)}
    [] IsUnset(opt.value) -> {Dropped(o, 1)}
    [] OTHER -> ParseKey(o, opt.key, Lookup(opt.value))

ParseOption ==
  /\ phase = "build" /\ opts # <<>>
  /\ \E r \in Outcomes(Current.options, Head(opts)) :
       /\ w' = [w EXCEPT ![flowop[1]].txns[flowop[2]].flowops[flowop[3]].options = r.options]
       /\ AddErrors(r.errs)
  /\ opts' = Tail(opts)
  /\ UNCHANGED <<file, pos, list, cursor>>

\* One symbol of the list.
BuildSymbol ==
  /\ \/ Ignored \/ GroupStart \/ GroupEnd \/ TxnStart \/ TxnEnd \/ FlowopStart \/ Threads
     \/ TxnAttr \/ Type \/ Options \/ UnknownSymbol
  /\ pos' = pos + 1
  /\ UNCHANGED <<file, list>>

\* The end of parse_app_profile.
BuildEnds ==
  /\ phase = "build" /\ pos = Len(list) + 1 /\ opts = <<>>
  /\ Ends(IF errors = 0 THEN "accepted" ELSE "rejected")
  /\ UNCHANGED <<file, pos, list, w, cursor, opts, errors>>

Ended == phase \in {"accepted", "rejected", "crash"} /\ UNCHANGED vars

Init ==
  /\ file \in Files
  /\ phase = "parse" /\ pos = 1 /\ list = <<>> /\ w = <<>>
  /\ grp = 0 /\ txn = <<>> /\ flowop = <<>> /\ inGroup = FALSE /\ inTxn = FALSE
  /\ txnid = 0 /\ fid = 0 /\ opts = <<>> /\ errors = 0

Next == Skip \/ Cut \/ ParseToken \/ ParseEnds \/ BuildSymbol \/ ParseOption \/ BuildEnds \/ Ended

Spec == Init /\ [][Next]_vars

-----------------------------------------------------------------------------
(* What a profile means, by the places of its tags and attributes           *)

Text(f) == SelectSeq(f, LAMBDA t : t.kind \notin {">", "comment"})

IsAttrWord(f, i) ==
  /\ f[i].kind = "word" /\ i < Len(f) /\ f[i + 1].kind = "="
  /\ i > 1 => f[i - 1].kind \notin {"<", "</"}
Starts(f) == {i \in DOMAIN f : \/ f[i].kind \in {"tag", "attr", "<", "</"}
                               \/ IsAttrWord(f, i)}
Joined(f, i) == i < Len(f) /\ f[i + 1].kind = "word"
Item(f, i) ==
  CASE f[i].kind = "<" -> Tag(IF Joined(f, i) THEN f[i + 1].name ELSE "?")
    [] f[i].kind = "</" -> Tag(IF Joined(f, i) /\ f[i + 1].name \in DOMAIN EndTag
                               THEN EndTag[f[i + 1].name] ELSE "?")
    [] f[i].kind = "word" -> Attr(f[i].name, f[i + 1].value)
    [] OTHER -> f[i]

\* Parts of a tag or an attribute follow each other, and no attribute is empty: what parse()
\* can put together.
Regular(f) ==
  \A i \in DOMAIN f :
    LET before == IF i = 1 THEN "" ELSE f[i - 1].kind
        after == IF i = Len(f) THEN "" ELSE f[i + 1].kind
    IN CASE f[i].kind = "tag" -> TRUE
         [] f[i].kind = "attr" -> f[i].value # Empty
         [] f[i].kind = "<" -> after = "word" /\ f[i + 1].name \in Tags
         [] f[i].kind = "</" -> after = "word" /\ f[i + 1].name \in DOMAIN EndTag
         [] f[i].kind = "word" -> (before \in {"<", "</"}) # (after = "=" /\ f[i + 1].value # Empty)
         [] f[i].kind = "=" -> before = "word"
         [] OTHER -> FALSE

TagsAt(f, x) == {i \in Starts(f) : Item(f, i).kind = "tag" /\ Item(f, i).name = x}
Before(S, i) == {j \in S : j < i}
Inside(f, x, i) == Cardinality(Before(TagsAt(f, x), i)) - Cardinality(Before(TagsAt(f, EndTag[x]), i))

Nested(f) ==
  LET depths(x, g, t) == \A i \in TagsAt(f, x) : Inside(f, "group", i) = g /\ Inside(f, "transaction", i) = t
  IN /\ depths("group", 0, 0) /\ depths("/group", 1, 0)
     /\ depths("transaction", 1, 0) /\ depths("/transaction", 1, 1)
     /\ depths("flowop", 1, 1)
     /\ Inside(f, "group", Len(f) + 1) = 0

Owners(f) == {i \in Starts(f) : Item(f, i).kind = "tag"}
AttrsAt(f) == {i \in Starts(f) : Item(f, i).kind = "attr"}
Owner(f, i) == Max(Before(Owners(f), i))
Owned(f, i, names) == {j \in AttrsAt(f) : j > i /\ Owner(f, j) = i /\ Item(f, j).name \in names}
Given(f, i, names) == Lookup(Item(f, Max(Owned(f, i, names))).value)

\* The number that is written, and the time: "accepted input: 20s, 20, 20ms, 20ns, 20us".
IsNumber(v) == v.kind \in {"number", "fraction"}
Halves(v) == IF v.kind = "fraction" THEN 2 ELSE 1
Exact(v) == (v.num * 2 ^ Shift(v.unit)) \div Halves(v)
Fits(v) == IsNumber(v) /\ HasShift(v.unit) /\ Shift(v.unit) <= IntBits /\ Exact(v) <= MaxInt
IsTime(v) == IsNumber(v) /\ v.unit \in {"", "s", "m", "u", "n"}
Nsec(v) ==
  (v.num * CASE v.unit = "n" -> 1 [] v.unit = "u" -> Thousand [] v.unit = "m" -> Thousand * Thousand
             [] OTHER -> Thousand * Thousand * Thousand) \div Halves(v)

\* size= has two numbers if it is random.
Limits(k, v) == IF k = "size" /\ v.kind = "rand" THEN {v.min, v.max} ELSE {v}

\* Digits alone.  What else atoi reads, and times close to 2^64, are neither right nor wrong.
Digits(v) == v.kind = "number" /\ v.unit = "" /\ v.num <= MaxInt
IsLax(k, v) ==
  CASE k \in Times -> IsTime(v) /\ Nsec(v) >= 2 ^ (2 * IntBits - 1)
    [] k \in {"count", "port", "conn"} \cup Counts -> ~Digits(v)
    [] OTHER -> FALSE

\* What the messages of parse.c and numbers.c, or the list of units, call wrong: not a number, no
\* such unit, too large, not above 0 where it has to be, out of range, not supported.
Sizes == {"size", "wndsz", "iterations", "rate"} \cup Unranged \cup Ranged \cup GroupAttrs
WrongNumber(k, v) ==
  ~Fits(v) \/ (k = "size" /\ Exact(v) = 0) \/ (k \in Ranged /\ ~InRange(k, Exact(v)))
IsWrong(k, v) ==
  CASE k \in Times -> ~(IsTime(v) /\ Nsec(v) \in 1 .. 2 ^ (2 * IntBits) - 1)
    [] k \in {"count", "port"} \cup Texts -> FALSE
    [] k \in {"conn"} \cup Counts -> ~IsNumber(v) \/ v.num = 0
    [] k = "protocol" -> v.kind # "name" \/ v.name \notin Protocols
    [] k = "dir" -> v # Name("/dir")
    [] k \in Sizes -> \E x \in Limits(k, v) : WrongNumber(k, x)
    [] OTHER -> TRUE

\* What is wrong and the parser may accept (README): digits that are cut to an int before the
\* check for overflow, and fractions above an int; of times, an unknown unit, what a uint64_t
\* does not hold, and a variable in a variable; a negative connection, which is unsigned.
IsCut(v) ==
  /\ IsNumber(v) /\ HasShift(v.unit) /\ Shift(v.unit) <= IntBits
  /\ IF v.kind = "number" THEN MaxInt < v.num /\ v.num < 2 ^ (2 * IntBits - 1)
     ELSE MaxInt < Exact(v) /\ Exact(v) < 2 ^ IntBits
Missed(k, v) ==
  CASE k \in Times -> v.kind = "variable" \/ (IsNumber(v) /\ Nsec(v) # 0)
    [] k = "conn" -> v.kind = "negative"
    [] k \in Counts -> v.kind = "negative" /\ v.num > MaxInt
    [] k \in Sizes -> \A x \in Limits(k, v) : WrongNumber(k, x) => IsCut(x)
    [] OTHER -> FALSE

WrongOption(o) ==
  IF o.key \in Flags THEN o.value # Missing
  ELSE o.value = Missing \/ IsUnset(o.value) \/ IsWrong(o.key, Lookup(o.value))
LaxOption(o) == o.value # Missing /\ ~WrongOption(o) /\ IsLax(o.key, Lookup(o.value))

Wrong(x, v) ==
  \/ IsUnset(v)
  \/ CASE x = "name" -> FALSE
       [] x = "type" -> Lookup(v).kind # "name" \/ Lookup(v).name \notin FlowopTypes
       [] x = "options" -> \E o \in ToSet(OptionsOf(Lookup(v))) : WrongOption(o)
       [] OTHER -> IsWrong(x, Lookup(v))
Unnoticed(x, v) ==
  /\ ~IsUnset(v)
  /\ IF x # "options" THEN Missed(x, Lookup(v))
     ELSE \A o \in ToSet(OptionsOf(Lookup(v))) :
            WrongOption(o) => o.value # Missing /\ ~IsUnset(o.value) /\ Missed(o.key, Lookup(o.value))
Lax(x, v) ==
  CASE x = "options" -> \/ Lookup(v).kind \notin {"list", "name"}
                        \/ \E o \in ToSet(OptionsOf(Lookup(v))) : LaxOption(o)
    [] OTHER -> IsLax(x, Lookup(v))

AttrsOf == [group |-> GroupAttrs, transaction |-> TxnAttrs, flowop |-> {"type", "options"}, profile |-> {}]

\* A profile as the manual has them: valid XML, each attribute once, where it belongs and right,
\* within the arrays of the parser.
Valid(f) ==
  /\ Regular(f) /\ Nested(f) /\ Cardinality(TagsAt(f, "group")) <= MaxGroups
  /\ \A i \in Starts(f) : Item(f, i).kind = "tag" => Item(f, i).name \in Tags
  /\ \A i \in AttrsAt(f) :
       LET a == Item(f, i)
       IN /\ Before(Owners(f), i) # {}
          /\ Item(f, Owner(f, i)).name \in DOMAIN AttrsOf
          /\ a.name \in AttrsOf[Item(f, Owner(f, i)).name] \cup {"name"}
          /\ \A j \in Owned(f, Owner(f, i), {a.name}) : i = j
          /\ a.name = "duration" => Owned(f, Owner(f, i), {"iterations"}) = {}
          /\ ~Wrong(a.name, a.value) /\ ~Lax(a.name, a.value)
          /\ a.name = "options" => Len(OptionsOf(Lookup(a.value))) <= MaxOptions

\* Its parts, in the order of their tags.
Within(f, x, from, to) == SetToSortSeq({i \in TagsAt(f, x) : from < i /\ i < to}, <)
EndOf(f, x, i) == Min({j \in TagsAt(f, EndTag[x]) : j > i})
NumberOr(f, i, names, default) ==
  IF Owned(f, i, names) = {} THEN default ELSE Exact(Given(f, i, names))

\* The precision of a float.
IsNear(n, exact) == Abs(n - exact) <= exact \div 2 ^ (FloatBits - 1) + 1

OptionIs(o, k, v) ==
  CASE k \in Flags -> o[k] = 1
    [] k \in Times -> IsNear(o[k], Nsec(v))
    [] k \in {"count", "port", "conn"} \cup Counts -> o[k] = v.num
    [] k \in Sizes -> IF v.kind = "rand" THEN o.rand = <<Exact(v.min), Exact(v.max)>>
                      ELSE o[k] = Exact(v)
    [] OTHER -> o[k] = v

FlowopIs(f, i, fo) ==
  /\ Owned(f, i, {"type"}) # {} => fo.type = Given(f, i, {"type"}).name
  /\ Owned(f, i, {"options"}) # {} =>
       LET given == OptionsOf(Given(f, i, {"options"}))
       IN \A n \in DOMAIN given :
            (\A m \in DOMAIN given : m > n => given[m].key # given[n].key) =>
               OptionIs(fo.options, given[n].key, Lookup(given[n].value))

TxnIs(f, i, t, n) ==
  LET at == Within(f, "flowop", i, EndOf(f, "transaction", i))
  IN /\ t.id = n - 1 /\ t.nflowop = Len(at) /\ Len(t.flowops) = Len(at)
     /\ t.iter = NumberOr(f, i, {"iterations"}, 1) /\ t.rate = NumberOr(f, i, {"rate"}, 0)
     /\ IF Owned(f, i, {"duration"}) = {} THEN t.duration = 0
        ELSE IsNear(t.duration, Nsec(Given(f, i, {"duration"})))
     /\ \A k \in DOMAIN at : t.flowops[k].id = k - 1 /\ FlowopIs(f, at[k], t.flowops[k])

GroupIs(f, i, g) ==
  LET at == Within(f, "transaction", i, EndOf(f, "group", i))
  IN /\ g.ntxn = Len(at) /\ Len(g.txns) = Len(at)
     /\ g.nthreads = NumberOr(f, i, GroupAttrs, 0)
     /\ \A k \in DOMAIN at : TxnIs(f, at[k], g.txns[k], k)

-----------------------------------------------------------------------------
(* What must hold                                                           *)

TypeOK ==
  /\ phase \in {"parse", "build", "accepted", "rejected", "crash"}
  /\ pos \in Nat /\ errors \in Nat /\ txnid \in Nat /\ fid \in Nat
  /\ grp \in 0 .. Len(w) /\ inGroup \in BOOLEAN /\ inTxn \in BOOLEAN
  /\ txn # <<>> => txn[1] \in DOMAIN w /\ txn[2] \in DOMAIN w[txn[1]].txns
  /\ flowop # <<>> => flowop[3] \in DOMAIN w[flowop[1]].txns[flowop[2]].flowops
  /\ \A g \in ToSet(w) :
       /\ g.nthreads \in UnsignedInts
       /\ \A t \in ToSet(g.txns) :
            /\ t.rate \in UnsignedInts
            /\ \A f \in ToSet(t.flowops) :
                 /\ {f.options.repeat, f.options.batch_size} \subseteq 1 .. MaxInt
                 /\ \A k \in DOMAIN f.options \cap ({"size", "port", "conn"} \cup Unranged) :
                      f.options[k] \in UnsignedInts

\* A valid profile is accepted, and the work order has its groups, transactions and flowops,
\* each where it was written, with the numbers that were written, times in the precision of a
\* float: lists that are linked through curr_txn and curr_flowop, options that are split again
\* (build_worklist, parse_option, string_to_int, string_to_nsec).
ValidIsBuilt ==
  LET f == Text(file)
      at == Within(f, "group", 0, Len(f) + 1)
  IN phase \notin {"parse", "build"} /\ Valid(f) =>
       /\ phase = "accepted"
       /\ Len(w) = Len(at)
       /\ \A k \in DOMAIN at : GroupIs(f, at[k], w[k])

\* An accepted profile was read to its end, and what is wrong in it is one of the values that
\* the parser is known to miss: errors are found in both passes, some are only counted, and
\* parse_app_profile looks at the count at the end.
AcceptedIsSound ==
  LET f == Text(file)
  IN phase = "accepted" =>
       /\ \A i \in DOMAIN f : f[i].kind # "long"
       /\ \A i \in Starts(f) :
            LET a == Item(f, i)
            IN IF a.kind = "tag" THEN a.name \in Tags ELSE /\ a.name \in Attrs
                    /\ Wrong(a.name, a.value) => Unnoticed(a.name, a.value)
       /\ \A i \in TagsAt(f, "flowop") : \E t \in Before(TagsAt(f, "transaction"), i) :
            TagsAt(f, "/transaction") \cap t .. i = {}

\* The counts that the handshake sends are the lengths of the lists that follow, at any time.
CountsAreLengths ==
  \A g \in DOMAIN w :
    /\ w[g].ntxn = Len(w[g].txns)
    /\ \A t \in DOMAIN w[g].txns : w[g].txns[t].nflowop = Len(w[g].txns[t].flowops)
=============================================================================
