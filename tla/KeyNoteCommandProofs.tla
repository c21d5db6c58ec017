------------------------- MODULE KeyNoteCommandProofs -------------------------
(***************************************************************************)
(* Proofs about KeyNoteCommand: for files of any length, any command line  *)
(* and any depth of the parser's stack, the query is about what the files  *)
(* say, and what is printed of it has its grounds and its reasons.         *)
(***************************************************************************)
EXTENDS KeyNoteCommand, SequenceTheorems, FiniteSetTheorems,
        WellFoundedInduction, TLAPS

-------------------------------------------------------------------------------
(***************************************************************************)
(* What a command line c asks for, up to option or place k.                *)
(***************************************************************************)
OptionsOf(c, opt) == {i \in DOMAIN c.options : c.options[i].opt = opt}
Size(c) == Len(c.options) + Len(c.operands)
ValuesOf(c) == c.options[SelectInSeq(c.options, LAMBDA o : o.opt = "r")].arg

PairsOf(c, k) ==
    UNION {{<<i, n>> : n \in PairsIn(c.options[i].arg)} :
              i \in {j \in OptionsOf(c, "e") : j < k}}
PairAt(c, p) == Pair(c.options[p[1]].arg, p[2])

SizeOf(c, i) ==
    IF i \in OptionsOf(c, "k") THEN Len(c.options[i].arg) ELSE c.options[i].arg.size
WritersOf(c, i, n) ==
    {j \in OptionsOf(c, "k") \union OptionsOf(c, "l") : j <= i /\ n <= SizeOf(c, j)}
WrittenOf(c, i, n) ==
    IF WritersOf(c, i, n) = {} \/ Max(WritersOf(c, i, n)) \in OptionsOf(c, "l")
    THEN "zero"
    ELSE c.options[Max(WritersOf(c, i, n))].arg[n]
TextOf(c, i) ==
    LET written == UNION {1 .. SizeOf(c, j) : j \in WritersOf(c, i, 1)}
    IN  [n \in {m \in written : \A k \in 1 .. m : WrittenOf(c, i, k) # "zero"} |->
            WrittenOf(c, i, n)]

KeysOf(c, k) ==
    UNION {KeysIn(TextOf(c, i)) : i \in {j \in OptionsOf(c, "k") : j < k}}
EachHasKey(c, k) ==
    \A i \in {j \in OptionsOf(c, "k") : j < k} : KeysIn(TextOf(c, i)) # {}

FileOf(c, p) ==
    IF p <= Len(c.options) THEN c.options[p].arg
    ELSE c.operands[Size(c) + 1 - p]
AssertionsOf(c, k) ==
    {p \in 1 .. Size(c) :
        /\ p < k
        /\ p <= Len(c.options) => p \in OptionsOf(c, "l")
        /\ FileOf(c, p) # None /\ FileOf(c, p).kind # "unparsable"}

-------------------------------------------------------------------------------
(***************************************************************************)
(* The inductive invariant.                                                *)
(***************************************************************************)
Unasked == {"options", "parse", "operands", "query"}
Texts == {Value(t, n) : t \in Seq(Byte), n \in Nat}
Semantic == Texts \union {None}
Entry == [state : 0 .. 9, v : Semantic]
Token == [t : {"none", "$end", "STRING", "VSTRING", "EQ"}, v : Semantic]
\* (Named next to STRING, of which the provers do not know the members.)
Line == ({"Result"} \X (STRING \union {"error"}))
            \union ({"Failed"} \X Nat \X {"SYNTAX", "SIGNATURE", "ANY"})

Typed ==
    /\ cmd \in CommandLines
    /\ at \in 0 .. Size(cmd) + 1
    /\ pc \in Unasked \union {"SYNTAX", "SIGNATURE", "ANY", "exited"}
    /\ text \in Seq(Byte) /\ pos \in 0 .. Len(text)
    /\ start \in {"INITIAL", "FIRSTPART", "MIDDLEPART", "SECONDPART", "KEYSTATE"}
    /\ token \in Token /\ (token.t = "none" => token = NoToken)
    /\ token.t \in {"STRING", "VSTRING"} => token.v \in Texts
    /\ keynote_errno \in {"none", "SYNTAX", "NOTFOUND"}
    /\ env \in Seq(Texts \X Texts)
    /\ authorizers \in Seq(Keys)
    /\ table \in Seq(AssertionType)
    /\ out \in Seq(Line)

\* Where the loops are.
Position ==
    /\ pc = "options" => at \in 1 .. Len(cmd.options) + 1
    /\ pc = "parse" => /\ at \in 1 .. Len(cmd.options)
                       /\ option.opt \in {"e", "k"} /\ option.arg \in File
    /\ pc = "operands" => at \in 0 .. Len(cmd.operands)
    /\ pc \in {"operands", "query"} => OptionsOf(cmd, "r") # {}
    /\ pc \in Unasked => out = <<>> /\ keynote_errno # "NOTFOUND"

\* The buffer b holds what options 1 to i wrote into it, and has a zero byte
\* behind that.
Holds(c, i, b) ==
    /\ \A j \in OptionsOf(c, "k") \union OptionsOf(c, "l") :
           j <= i => SizeOf(c, j) \in Nat /\ SizeOf(c, j) < Len(b)
    /\ \A n \in 1 .. Len(b) : b[n] = WrittenOf(c, i, n)
Buffer == buf \in Seq(Byte) /\ buf # <<>> /\ Last(buf) = "zero"

\* The stack is a path in the parser's automaton from its first state.
Edges == {<<0, 1>>, <<0, 2>>, <<0, 3>>, <<0, 4>>, <<2, 5>>, <<3, 6>>,
          <<5, 7>>, <<7, 8>>, <<8, 2>>, <<8, 9>>}
IsPath(s) ==
    /\ s \in Seq(Entry)
    /\ \A i \in 1 .. Len(s) : s[i].state = 0 <=> i = 1
    /\ \A i \in 1 .. Len(s) - 1 : <<s[i].state, s[i + 1].state>> \in Edges
    /\ \A i \in 1 .. Len(s) : s[i].state \in {1, 2, 7} => s[i].v \in Texts
Stack ==
    /\ IsPath(stack) /\ Len(stack) < YYMAXDEPTH
    /\ pc = "parse" => stack # <<>>

\* The attributes e are the pairs at the places P.
Has(c, e, P) ==
    \E l \in LastFirst(Len(e), P) : \A i \in 1 .. Len(e) : e[i] = PairAt(c, l[i])

\* The lexer has met the pairs of a file up to e, where one of them ends.
ReadPairs(file, e) == {m \in PairsIn(file) : m < e}
Read(file, e) ==
    /\ e \in 0 .. Len(file) /\ \A S \in Closed(Steps(file)) : e \in S
    /\ \A m \in ReadPairs(file, e) : PairEnd(file, m) <= e

\* It is at p, there, or behind the name or the "=" of what begins there, and
\* its start condition is for what comes next.
Lexed(file, e, p, part) ==
    /\ Read(file, e)
    /\ part = "FIRSTPART" => p = e
    /\ part = "MIDDLEPART" => /\ Class(file, PairName(file, e)) = "word"
                              /\ p = End(file, PairName(file, e))
    /\ part = "SECONDPART" => /\ Class(file, PairName(file, e)) = "word"
                              /\ Class(file, PairEquals(file, e)) = "eq"
                              /\ p = End(file, PairEquals(file, e))
Name(file, e) == Value(file, PairName(file, e))

\* With the pairs that begin at the places S of option k.
AndHere(c, k, S) == PairsOf(c, k) \union {<<k, n>> : n \in S}

\* The last one of the pairs S is on its way to the session: its name and its
\* value are known, the others are there.
Pending(c, k, e, S, name, value) ==
    \E n \in S : /\ \A m \in S : m <= n
                 /\ PairAt(c, <<k, n>>) = <<name, value>>
                 /\ Has(c, e, AndHere(c, k, S \ {n}))

At(s, t, part) == state = s /\ token.t = t /\ start = part

\* Before the string of the pair that begins at e, in the one that ends there,
\* behind that, and at the end of the file.
BeforeString(e) ==
    LET name == Name(option.arg, e)
    IN  /\ \/ At(0, "none", "FIRSTPART") \/ At(0, "VSTRING", "MIDDLEPART")
           \/ At(8, "VSTRING", "MIDDLEPART") \/ At(2, "none", "MIDDLEPART")
           \/ At(2, "EQ", "SECONDPART") \/ At(5, "none", "SECONDPART")
        /\ Has(cmd, env, AndHere(cmd, at, ReadPairs(option.arg, e)))
        /\ token.t = "VSTRING" => token.v = name
        /\ state = 2 => stack[Len(stack)].v = name
        /\ state = 5 => stack[Len(stack) - 1].v = name
AtString(e) ==
    /\ At(5, "STRING", "FIRSTPART")
    /\ Pending(cmd, at, env, ReadPairs(option.arg, e),
               stack[Len(stack) - 1].v, token.v)
BehindString(e) ==
    /\ At(7, "none", "FIRSTPART") \/ At(7, "VSTRING", "MIDDLEPART")
    /\ Pending(cmd, at, env, ReadPairs(option.arg, e),
               stack[Len(stack) - 2].v, stack[Len(stack)].v)
    /\ token.t = "VSTRING" => token.v = Name(option.arg, e)
LastPair ==
    /\ state = 7 /\ token.t = "$end"
    /\ Pending(cmd, at, env, PairsIn(option.arg),
               stack[Len(stack) - 2].v, stack[Len(stack)].v)
AllPairs ==
    /\ state = 6 \/ (state \in {3, 4, 9} /\ token.t = "$end")
    /\ env # <<>>
    /\ Has(cmd, env, AndHere(cmd, at, PairsIn(option.arg)))
NoPair == state \in {0, 2, 5} /\ token.t = "$end"

Reading ==
    \/ /\ text = option.arg
       /\ \E e \in Nat : /\ Lexed(option.arg, e, pos, start)
                         /\ BeforeString(e) \/ AtString(e) \/ BehindString(e)
    \/ LastPair \/ AllPairs \/ NoPair

Attributes ==
    /\ pc = "options" => Has(cmd, env, PairsOf(cmd, at))
    /\ pc = "parse" /\ option.opt = "k" => Has(cmd, env, PairsOf(cmd, at))
    /\ pc \in {"operands", "query"} =>
           Has(cmd, env, PairsOf(cmd, Len(cmd.options) + 1))
    /\ pc = "parse" /\ option.opt = "e" => Reading
    /\ pc \in {"options", "parse"} => (Given("e") => env # <<>>)
    /\ pc \in {"operands", "query"} => env # <<>>

\* The key of a text, from before it is met to after it was added.
Key == Begin(text, 0, TRUE)
KeyIs(v) ==
    /\ Class(text, Key) = "string" /\ pos = End(text, Key)
    /\ v = Value(text, Key)
BeforeKey == At(0, "none", "KEYSTATE") /\ pos = 0
AtKey == At(0, "STRING", "FIRSTPART") /\ KeyIs(token.v)
BehindKey == At(1, "none", "FIRSTPART") /\ KeyIs(stack[Len(stack)].v)
KeyIsAdded ==
    /\ At(3, "none", "FIRSTPART") /\ keynote_errno = "none"
    /\ authorizers # <<>>
    /\ \E v \in Texts : /\ KeyIs(v)
                        /\ ToSet(authorizers) = KeysOf(cmd, at) \union {v}
AllKeys ==
    /\ state = 6 \/ (state = 3 /\ token.t = "$end")
    /\ authorizers # <<>>
    /\ keynote_errno = "none" =>
           /\ KeysIn(text) # {}
           /\ ToSet(authorizers) = KeysOf(cmd, at) \union KeysIn(text)
NoKey == (state = 0 /\ token.t = "$end") \/ (state = 3 /\ token.t = "VSTRING")

ReadingKey ==
    /\ text = TextOf(cmd, at)
    /\ \/ /\ ToSet(authorizers) = KeysOf(cmd, at)
          /\ BeforeKey \/ AtKey \/ BehindKey
       \/ KeyIsAdded \/ AllKeys \/ NoKey

Askers ==
    /\ pc = "options" => /\ Holds(cmd, at - 1, buf)
                         /\ ToSet(authorizers) = KeysOf(cmd, at)
    /\ pc = "parse" => Holds(cmd, at, buf)
    /\ pc = "parse" /\ option.opt = "e" => ToSet(authorizers) = KeysOf(cmd, at)
    /\ pc = "parse" /\ option.opt = "k" => ReadingKey
    /\ pc \in {"options", "parse"} => EachHasKey(cmd, at)
    /\ pc \in {"operands", "query"} =>
           /\ ToSet(authorizers) = KeysOf(cmd, Len(cmd.options) + 1)
           /\ EachHasKey(cmd, Len(cmd.options) + 1)
    /\ pc \in {"options", "parse"} => (Given("k") => authorizers # <<>>)
    /\ pc \in {"operands", "query"} => authorizers # <<>>

\* The assertions t are those at the places P, and were not judged.
Is(c, a, p) == a.kind = FileOf(c, p).kind /\ a.local = (p <= Len(c.options))
HasAssertions(c, t, P) ==
    /\ \E l \in Places(Len(t), P) : \A i \in 1 .. Len(t) : Is(c, t[i], l[i])
    /\ \A i \in 1 .. Len(t) :
           t[i].id = i - 1 /\ ~ t[i].error /\ t[i].sigresult = "untouched"
Assertions ==
    /\ pc \in {"options", "parse"} =>
           HasAssertions(cmd, table, AssertionsOf(cmd, at))
    /\ pc = "operands" =>
           HasAssertions(cmd, table, AssertionsOf(cmd, Size(cmd) + 1 - at))
    /\ pc = "query" =>
           HasAssertions(cmd, table, AssertionsOf(cmd, Size(cmd) + 1))

\* The report so far: the assertion that has an id was at place l[id + 1].
Reason(c, class, p) ==
    \/ class = "SYNTAX" /\ FileOf(c, p).kind \in {"badlics", "badcond"}
    \/ class = "SIGNATURE" /\ FileOf(c, p).kind = "badsig"
Accounted(c, o, t, n) ==
    /\ \E l \in Places(n, AssertionsOf(c, Size(c) + 1)) :
           /\ \A i \in 1 .. Len(t) : Is(c, t[i], l[t[i].id + 1])
           /\ \A i \in 2 .. Len(o) : Reason(c, o[i][3], l[o[i][2] + 1])
    /\ {o[i][2] : i \in 2 .. Len(o)} \union {t[i].id : i \in 1 .. Len(t)}
           = 0 .. n - 1
Reporting ==
    \/ pc \in {"SYNTAX", "SIGNATURE", "ANY"}
    \/ pc = "exited" /\ keynote_errno = "NOTFOUND"
Reports ==
    Reporting =>
        /\ out # <<>> /\ out[1][1] = "Result"
        /\ \A i \in 2 .. Len(out) : out[i][1] = "Failed"
        /\ Accounted(cmd, out, table, Len(out) - 1 + Len(table))
        /\ \A i, j \in 1 .. Len(table) : table[i].id = table[j].id => i = j
        /\ \A i \in 1 .. Len(table) :
               /\ table[i].error =>
                      table[i].kind \in {"badlics", "badcond"} /\ pc = "SYNTAX"
               /\ table[i].sigresult = "false" =>
                      /\ table[i].kind = "badsig" /\ ~ table[i].local
                      /\ pc \in {"SYNTAX", "SIGNATURE"}

\* A grant has its grounds as soon as it is printed.
Grounds ==
    out # <<>> /\ out[1] = <<"Result", "authorized">>
               /\ ValuesOf(cmd)[1] # "authorized" =>
        /\ authorizers # <<>> /\ env # <<>>
        /\ \A p \in AssertionsOf(cmd, Size(cmd) + 1) :
               FileOf(cmd, p).kind # "badauth"
        /\ \E p \in AssertionsOf(cmd, Size(cmd) + 1) :
               p <= Len(cmd.options) /\ FileOf(cmd, p).kind \in {"good", "badsig"}

IInv ==
    /\ Typed /\ Position /\ Buffer /\ Stack
    /\ Attributes /\ Askers /\ Assertions
    /\ Reports /\ Grounds

-------------------------------------------------------------------------------
(***************************************************************************)
(* Numbers and sequences.                                                  *)
(***************************************************************************)

\* A non-empty set of naturals has a least element.
LEMMA LeastNatural ==
    ASSUME NEW S \in SUBSET Nat, S # {}
    PROVE  Min(S) \in S /\ \A n \in S : Min(S) <= n
<1> DEFINE R == {ss \in Nat \X Nat : ss[1] < ss[2]}
<1>1. R = OpToRel(<, Nat)
  BY DEF OpToRel
<1>2. IsWellFoundedOn(R, Nat)
  BY <1>1, NatLessThanWellFounded
<1>3. PICK x \in S : \A y \in S : ~ (<<y, x>> \in R)
  <2> HIDE DEF R
  <2> QED BY <1>2, WFMin
<1>4. ASSUME NEW y \in S PROVE x <= y
  <2>1. x \in Nat /\ y \in Nat
    OBVIOUS
  <2>2. ~ (<<y, x>> \in R)
    BY <1>3
  <2>3. ~ (y < x)
    BY <2>1, <2>2
  <2>4. QED BY <2>1, <2>3
<1>5. QED BY <1>4 DEF Min

\* The greatest element of a set is its maximum.
LEMMA MaxIs ==
    ASSUME NEW S \in SUBSET Nat, NEW n \in S, \A m \in S : m <= n
    PROVE  Max(S) = n
<1>1. \E x \in S : \A y \in S : x >= y
  <2>1. \A y \in S : n >= y
    OBVIOUS
  <2>2. QED BY <2>1
<1>2. Max(S) \in S /\ \A y \in S : Max(S) >= y
  BY <1>1 DEF Max
<1>3. Max(S) >= n /\ Max(S) <= n /\ Max(S) \in Nat
  BY <1>2
<1>4. QED BY <1>3

\* The first of the places I, 0 if there is none: what SelectInSeq returns.
LEMMA FirstPlace ==
    ASSUME NEW n \in Nat, NEW I \in SUBSET (1 .. n),
           NEW f, f = IF I # {} THEN Min(I) ELSE 0
    PROVE  /\ f \in 0 .. n
           /\ f # 0 => f \in I /\ \A i \in 1 .. f - 1 : i \notin I
           /\ f = 0 => I = {}
<1>1. CASE I = {}
  BY <1>1
<1>2. CASE I # {}
  <2>1. f \in I /\ \A m \in I : f <= m
    BY <1>2, LeastNatural
  <2>2. \A i \in 1 .. f - 1 : i \notin I
    BY <2>1
  <2>3. QED BY <2>1, <2>2
<1>3. QED BY <1>1, <1>2

\* What the assumption says of an option and of an operand.
LEMMA OptionTypes ==
    ASSUME NEW c \in CommandLines
    PROVE  /\ c.options \in Seq(Option) /\ Len(c.options) \in Nat
           /\ DOMAIN c.options = 1 .. Len(c.options)
           /\ c.operands \in Seq(AssertionFile \union {None})
           /\ Len(c.operands) \in Nat
           /\ Size(c) \in Nat /\ Size(c) = Len(c.options) + Len(c.operands)
           /\ \A i \in 1 .. Len(c.options) :
                  LET o == c.options[i]
                  IN  /\ o.opt \in {"e", "k", "l", "r", "h"}
                      /\ o.opt \in {"e", "k"} => o.arg \in File \union {None}
                      /\ o.opt = "l" => o.arg \in AssertionFile \union {None}
                      /\ o.opt = "r" => o.arg \in Seq(STRING) \ {<<>>}
           /\ \A i \in 1 .. Len(c.operands) :
                  c.operands[i] \in AssertionFile \union {None}
<1>1. c \in CommandLine
  BY CommandAssumption
<1>2. c.options \in Seq(Option) /\ c.operands \in Seq(AssertionFile \union {None})
  BY <1>1 DEF CommandLine
<1>3. ASSUME NEW o \in Option
      PROVE  /\ o.opt \in {"e", "k", "l", "r", "h"}
             /\ o.opt \in {"e", "k"} => o.arg \in File \union {None}
             /\ o.opt = "l" => o.arg \in AssertionFile \union {None}
             /\ o.opt = "r" => o.arg \in Seq(STRING) \ {<<>>}
  BY DEF Option
<1>4. \A i \in 1 .. Len(c.options) : c.options[i] \in Option
  BY <1>2
<1>5. \A i \in 1 .. Len(c.operands) : c.operands[i] \in AssertionFile \union {None}
  BY <1>2
<1>6. /\ Len(c.options) \in Nat /\ Len(c.operands) \in Nat
      /\ DOMAIN c.options = 1 .. Len(c.options)
  BY <1>2
<1>7. Size(c) \in Nat /\ Size(c) = Len(c.options) + Len(c.operands)
  <2>1. \A m, n \in Nat : m + n \in Nat
    OBVIOUS
  <2>2. QED BY <1>6, <2>1, Zenon DEF Size
<1>8. QED BY <1>2, <1>3, <1>4, <1>5, <1>6, <1>7

\* The greatest element of a non-empty bounded set.
LEMMA GreatestNatural ==
    ASSUME NEW N \in Nat, NEW S \in SUBSET (0 .. N), S # {}
    PROVE  Max(S) \in S /\ \A n \in S : n <= Max(S)
<1> DEFINE T == {N - s : s \in S}
<1>1. T \in SUBSET Nat /\ T # {}
  OBVIOUS
<1>2. Min(T) \in T /\ \A m \in T : Min(T) <= m
  <2> HIDE DEF T
  <2> QED BY <1>1, LeastNatural
<1>3. PICK x \in S : Min(T) = N - x
  BY <1>2
<1>4. \A y \in S : y <= x
  <2>1. SUFFICES ASSUME NEW y \in S PROVE y <= x
    OBVIOUS
  <2>2. N - y \in T
    OBVIOUS
  <2>3. N - x <= N - y
    BY <1>2, <1>3, <2>2
  <2>4. QED BY <2>3
<1>5. Max(S) = x
  BY <1>4, MaxIs
<1>6. QED BY <1>4, <1>5

\* A sequence with an element in front.
LEMMA FrontFacts ==
    ASSUME NEW S, NEW s \in Seq(S), NEW x \in S
    PROVE  /\ <<x>> \o s \in Seq(S) /\ <<x>> \o s # <<>>
           /\ Len(<<x>> \o s) = Len(s) + 1
           /\ \A i \in 1 .. Len(s) + 1 :
                  (<<x>> \o s)[i] = IF i = 1 THEN x ELSE s[i - 1]
           /\ ToSet(<<x>> \o s) = ToSet(s) \union {x}
<1>1. /\ <<x>> \in Seq(S) /\ Len(<<x>>) = 1 /\ <<x>>[1] = x /\ Len(s) \in Nat
  OBVIOUS
<1> DEFINE r == <<x>> \o s
<1>2. /\ r \in Seq(S) /\ Len(r) = Len(s) + 1
      /\ \A i \in 1 .. Len(s) + 1 : r[i] = IF i = 1 THEN x ELSE s[i - 1]
  <2>1. /\ r \in Seq(S) /\ Len(r) = Len(<<x>>) + Len(s)
        /\ \A i \in 1 .. Len(<<x>>) + Len(s) :
               r[i] = IF i <= Len(<<x>>) THEN <<x>>[i] ELSE s[i - Len(<<x>>)]
    BY <1>1, ConcatProperties
  <2>2. QED BY <1>1, <2>1
<1>3. DOMAIN r = 1 .. Len(s) + 1 /\ DOMAIN s = 1 .. Len(s)
  <2> HIDE DEF r
  <2> QED BY <1>1, <1>2
<1> HIDE DEF r
<1>4. {r[i] : i \in 1 .. Len(s) + 1} = {s[i] : i \in 1 .. Len(s)} \union {x}
  <2>1. ASSUME NEW i \in 1 .. Len(s) + 1
        PROVE  r[i] \in {s[j] : j \in 1 .. Len(s)} \union {x}
    <3>1. CASE i = 1
      BY <1>2, <3>1
    <3>2. CASE i # 1
      <4>1. i - 1 \in 1 .. Len(s) /\ r[i] = s[i - 1]
        BY <1>1, <1>2, <3>2
      <4>2. QED BY <4>1
    <3>3. QED BY <3>1, <3>2
  <2>2. ASSUME NEW i \in 1 .. Len(s)
        PROVE  s[i] \in {r[j] : j \in 1 .. Len(s) + 1}
    <3>1. i + 1 \in 1 .. Len(s) + 1 /\ r[i + 1] = s[(i + 1) - 1] /\ (i + 1) - 1 = i
      BY <1>1, <1>2
    <3>2. QED BY <3>1
  <2>3. x \in {r[j] : j \in 1 .. Len(s) + 1}
    <3>1. 1 \in 1 .. Len(s) + 1 /\ r[1] = x
      BY <1>1, <1>2
    <3>2. QED BY <3>1
  <2>4. QED BY <2>1, <2>2, <2>3
<1>5. r # <<>>
  BY <1>1, <1>2
<1>6. QED BY <1>2, <1>3, <1>4, <1>5 DEF ToSet, r

-------------------------------------------------------------------------------
(***************************************************************************)
(* The tokens of a text.                                                   *)
(***************************************************************************)

\* The bytes of a text.
LEMMA FileFacts ==
    ASSUME NEW t \in Seq(Byte)
    PROVE  /\ Len(t) \in Nat /\ DOMAIN t = 1 .. Len(t)
           /\ \A n \in 1 .. Len(t) : t[n] \in Byte
OBVIOUS

\* A token begins behind where the lexer is, at most behind the end.
LEMMA BeginFacts ==
    ASSUME NEW t \in Seq(Byte), NEW from \in 0 .. Len(t), NEW comments
    PROVE  Begin(t, from, comments) \in from + 1 .. Len(t) + 1
<1> DEFINE S == {n \in from + 1 .. Len(t) + 1 :
                    n <= Len(t) =>
                        ~ Blank(t[n]) /\ ~ (comments /\ InComment(t, from, n))}
<1>1. Len(t) \in Nat /\ from \in Nat /\ from <= Len(t)
  OBVIOUS
<1>2. Len(t) + 1 \in S /\ S \in SUBSET Nat
  BY <1>1
<1>3. Min(S) \in S
  <2> HIDE DEF S
  <2> QED BY <1>2, LeastNatural
<1>4. QED BY <1>3 DEF Begin

\* The classes, and what a token of a class is and goes up to.
LEMMA ClassFacts ==
    ASSUME NEW t \in Seq(Byte), NEW n \in Nat \ {0}
    PROVE  /\ Class(t, n) \in {"end", "word", "eq", "string", "stray"}
           /\ Class(t, n) = "end" <=> n > Len(t)
           /\ Class(t, n) = "word" => t[n] \in Letters
           /\ Class(t, n) = "string" => StringEnds(t, n) # {}
<1>1. Len(t) \in Nat
  OBVIOUS
<1>2. CASE n > Len(t)
  BY <1>1, <1>2 DEF Class
<1>3. CASE n <= Len(t) /\ t[n] \in Letters
  <2>1. t[n] # "equals" /\ t[n] # "quote"
    BY <1>3, CommandAssumption DEF Named
  <2>2. QED BY <1>1, <1>3, <2>1 DEF Class
<1>4. CASE n <= Len(t) /\ t[n] \notin Letters
  BY <1>1, <1>4 DEF Class
<1>5. QED BY <1>1, <1>2, <1>3, <1>4

LEMMA EndFacts ==
    ASSUME NEW t \in Seq(Byte), NEW n \in 1 .. Len(t)
    PROVE  End(t, n) \in n .. Len(t)
<1>1. Len(t) \in Nat /\ n \in Nat \ {0}
  OBVIOUS
<1>2. CASE Class(t, n) = "word"
  <2> DEFINE S == {m \in n .. Len(t) :
                      \A i \in n .. m : t[i] \in Letters \union {"underscore"}}
  <2>1. t[n] \in Letters
    BY <1>1, <1>2, ClassFacts
  <2>2. n \in S /\ S \in SUBSET (0 .. Len(t))
    BY <1>1, <2>1
  <2>3. Max(S) \in S
    <3> HIDE DEF S
    <3> QED BY <1>1, <2>2, GreatestNatural
  <2>4. End(t, n) = Max(S)
    BY <1>2 DEF End, WordEnd
  <2>5. QED BY <2>3, <2>4
<1>3. CASE Class(t, n) = "string"
  <2>1. StringEnds(t, n) # {}
    BY <1>1, <1>3, ClassFacts
  <2>2. StringEnds(t, n) \subseteq n + 1 .. Len(t)
    BY DEF StringEnds
  <2>3. StringEnds(t, n) \in SUBSET (0 .. Len(t))
    BY <1>1, <2>2
  <2>4. Max(StringEnds(t, n)) \in StringEnds(t, n)
    BY <1>1, <2>1, <2>3, GreatestNatural
  <2>5. End(t, n) = Max(StringEnds(t, n))
    BY <1>3 DEF End
  <2>6. QED BY <1>1, <2>2, <2>4, <2>5
<1>4. CASE Class(t, n) \notin {"word", "string"}
  <2>1. End(t, n) = n
    BY <1>4 DEF End
  <2>2. QED BY <1>1, <2>1
<1>5. QED BY <1>2, <1>3, <1>4

\* A token that the lexer finds, and where it goes up to.
LEMMA TokenFacts ==
    ASSUME NEW t \in Seq(Byte), NEW from \in 0 .. Len(t), NEW comments,
           Class(t, Begin(t, from, comments)) # "end"
    PROVE  /\ Begin(t, from, comments) \in from + 1 .. Len(t)
           /\ End(t, Begin(t, from, comments)) \in from + 1 .. Len(t)
<1> DEFINE n == Begin(t, from, comments)
<1>1. Len(t) \in Nat /\ n \in from + 1 .. Len(t) + 1
  BY BeginFacts
<1>2. n \in Nat \ {0} /\ Class(t, n) # "end"
  BY <1>1
<1> HIDE DEF n
<1>3. n <= Len(t)
  BY <1>1, <1>2, ClassFacts
<1>4. End(t, n) \in n .. Len(t)
  BY <1>1, <1>3, EndFacts
<1>5. QED BY <1>1, <1>3, <1>4 DEF n

-------------------------------------------------------------------------------
(***************************************************************************)
(* Reading a file of attributes.                                           *)
(***************************************************************************)

\* The three tokens of a pair come one behind the other.
LEMMA PairFacts ==
    ASSUME NEW file \in File, NEW e \in 0 .. Len(file)
    PROVE  /\ Class(file, PairName(file, e)) = "word" =>
                  End(file, PairName(file, e)) \in e + 1 .. Len(file)
           /\ /\ Class(file, PairName(file, e)) = "word"
              /\ Class(file, PairEquals(file, e)) = "eq"
              => End(file, PairEquals(file, e)) \in e + 1 .. Len(file)
           /\ IsPair(file, e) => PairEnd(file, e) \in e + 1 .. Len(file)
<1>1. file \in Seq(Byte) /\ Len(file) \in Nat
  BY DEF File
<1>2. ASSUME Class(file, PairName(file, e)) = "word"
      PROVE  End(file, PairName(file, e)) \in e + 1 .. Len(file)
  BY <1>1, <1>2, TokenFacts DEF PairName
<1>3. ASSUME Class(file, PairName(file, e)) = "word",
             Class(file, PairEquals(file, e)) = "eq"
      PROVE  End(file, PairEquals(file, e)) \in e + 1 .. Len(file)
  <2> DEFINE p == End(file, PairName(file, e))
  <2>1. p \in e + 1 .. Len(file)
    BY <1>2, <1>3
  <2>2. PairEquals(file, e) = Begin(file, p, FALSE)
    BY DEF PairEquals
  <2> HIDE DEF p
  <2>3. p \in 0 .. Len(file)
    BY <1>1, <2>1
  <2>4. End(file, PairEquals(file, e)) \in p + 1 .. Len(file)
    BY <1>1, <1>3, <2>2, <2>3, TokenFacts
  <2>5. QED BY <1>1, <2>1, <2>4
<1>4. ASSUME IsPair(file, e)
      PROVE  PairEnd(file, e) \in e + 1 .. Len(file)
  <2> DEFINE p == End(file, PairEquals(file, e))
  <2>1. p \in e + 1 .. Len(file)
    BY <1>3, <1>4 DEF IsPair
  <2>2. PairString(file, e) = Begin(file, p, FALSE)
    BY DEF PairString
  <2> HIDE DEF p
  <2>3. p \in 0 .. Len(file)
    BY <1>1, <2>1
  <2>4. Class(file, PairString(file, e)) = "string"
    BY <1>4 DEF IsPair
  <2>5. End(file, PairString(file, e)) \in p + 1 .. Len(file)
    BY <1>1, <2>2, <2>3, <2>4, TokenFacts
  <2>6. QED BY <1>1, <2>1, <2>5 DEF PairEnd
<1>5. QED BY <1>2, <1>3, <1>4

\* The sets of places that are closed under going on to the next pair.
PairEnds(file) ==
    {0} \union {PairEnd(file, n) : n \in {m \in 0 .. Len(file) : IsPair(file, m)}}
IsClosed(file, S) ==
    /\ S \subseteq PairEnds(file) /\ 0 \in S
    /\ \A n \in 0 .. Len(file) : n \in S /\ IsPair(file, n) => PairEnd(file, n) \in S

LEMMA ClosedFacts ==
    ASSUME NEW file \in File
    PROVE  /\ \A S : S \in Closed(Steps(file)) <=> IsClosed(file, S)
           /\ PairEnds(file) \subseteq 0 .. Len(file)
           /\ IsClosed(file, PairEnds(file))
           /\ \A n : n \in PairsIn(file) <=>
                         /\ n \in 0 .. Len(file) /\ IsPair(file, n)
                         /\ \A S : IsClosed(file, S) => n \in S
<1> DEFINE P == {m \in 0 .. Len(file) : IsPair(file, m)}
           steps == {<<n, PairEnd(file, n)>> : n \in P}
<1>1. Steps(file) = steps
  BY DEF Steps
<1>2. /\ \A s \in steps : s[1] \in P /\ s[2] = PairEnd(file, s[1])
      /\ \A n \in P : \E s \in steps : s[1] = n /\ s[2] = PairEnd(file, n)
  <2>1. ASSUME NEW s \in steps PROVE s[1] \in P /\ s[2] = PairEnd(file, s[1])
    <3>1. PICK n \in P : s = <<n, PairEnd(file, n)>>
      OBVIOUS
    <3>2. QED BY <3>1
  <2>2. ASSUME NEW n \in P
        PROVE  \E s \in steps : s[1] = n /\ s[2] = PairEnd(file, n)
    <3>1. <<n, PairEnd(file, n)>> \in steps
      OBVIOUS
    <3>2. QED BY <3>1
  <2>3. QED BY <2>1, <2>2
<1>3. {0} \union {s[2] : s \in steps} = PairEnds(file)
  BY <1>2 DEF PairEnds
<1>4. {s[1] : s \in steps} = P
  BY <1>2
<1>5. ASSUME NEW S
      PROVE  (\A s \in steps : s[1] \in S => s[2] \in S)
                 <=> \A n \in P : n \in S => PairEnd(file, n) \in S
  BY <1>2
<1> HIDE DEF steps
<1>6. Closed(steps) = {S \in SUBSET PairEnds(file) :
                          0 \in S /\ \A s \in steps : s[1] \in S => s[2] \in S}
  BY <1>3 DEF Closed
<1>7. \A S : S \in Closed(steps) <=> IsClosed(file, S)
  BY <1>5, <1>6 DEF IsClosed
<1>8. PairEnds(file) \subseteq 0 .. Len(file)
  <2>1. Len(file) \in Nat
    BY DEF File
  <2>2. \A n \in P : PairEnd(file, n) \in 0 .. Len(file)
    BY <2>1, PairFacts
  <2>3. QED BY <2>1, <2>2 DEF PairEnds
<1>9. IsClosed(file, PairEnds(file))
  BY DEF IsClosed, PairEnds
<1>10. PairsIn(file) = {n \in P : \A S \in Closed(steps) : n \in S}
  BY <1>1, <1>4 DEF PairsIn
<1>11. QED BY <1>1, <1>7, <1>8, <1>9, <1>10

\* At its start nothing of a file has been met.
LEMMA ReadStart ==
    ASSUME NEW file \in File
    PROVE  Read(file, 0) /\ ReadPairs(file, 0) = {}
<1>1. Len(file) \in Nat
  BY DEF File
<1>2. \A S \in Closed(Steps(file)) : 0 \in S
  BY ClosedFacts DEF IsClosed
<1>3. \A m \in PairsIn(file) : m \in 0 .. Len(file)
  BY ClosedFacts
<1>4. ReadPairs(file, 0) = {}
  BY <1>1, <1>3 DEF ReadPairs
<1>5. QED BY <1>1, <1>2, <1>4 DEF Read

\* A place that is met, and a pair there, one that is met.
LEMMA MetFacts ==
    ASSUME NEW file \in File, NEW e, Read(file, e)
    PROVE  /\ e \in 0 .. Len(file) /\ Len(file) \in Nat
           /\ \A S : IsClosed(file, S) => e \in S
           /\ \A n \in 0 .. Len(file) :
                  /\ IsPair(file, n) /\ \A S : IsClosed(file, S) => n \in S
                  => /\ n \in PairsIn(file) /\ PairEnd(file, n) \in n + 1 .. Len(file)
                     /\ PairEnd(file, n) \in PairEnds(file)
                     /\ \A S : IsClosed(file, S) => PairEnd(file, n) \in S
                     /\ n < e => PairEnd(file, n) <= e
<1>1. e \in 0 .. Len(file) /\ Len(file) \in Nat
  BY DEF Read, File
<1>2. \A S : IsClosed(file, S) => e \in S
  BY ClosedFacts DEF Read
<1>3. ASSUME NEW n \in 0 .. Len(file), IsPair(file, n),
             \A S : IsClosed(file, S) => n \in S
      PROVE  /\ n \in PairsIn(file) /\ PairEnd(file, n) \in n + 1 .. Len(file)
             /\ PairEnd(file, n) \in PairEnds(file)
             /\ \A S : IsClosed(file, S) => PairEnd(file, n) \in S
             /\ n < e => PairEnd(file, n) <= e
  <2>1. n \in PairsIn(file)
    BY <1>3, ClosedFacts
  <2>2. PairEnd(file, n) \in n + 1 .. Len(file)
    BY <1>3, PairFacts
  <2>3. \A S : IsClosed(file, S) => PairEnd(file, n) \in S
    BY <1>3 DEF IsClosed
  <2>4. PairEnd(file, n) \in PairEnds(file)
    BY <2>3, ClosedFacts
  <2>5. n < e => PairEnd(file, n) <= e
    BY <2>1 DEF Read, ReadPairs
  <2>6. QED BY <2>1, <2>2, <2>3, <2>4, <2>5
<1>4. QED BY <1>1, <1>2, <1>3

\* When there is a pair at the place that was met last, it is the next one.
LEMMA NextPair ==
    ASSUME NEW file \in File, NEW e, Read(file, e), IsPair(file, e)
    PROVE  /\ e \in PairsIn(file) /\ PairEnd(file, e) \in e + 1 .. Len(file)
           /\ Read(file, PairEnd(file, e))
           /\ ReadPairs(file, PairEnd(file, e)) = ReadPairs(file, e) \union {e}
<1> DEFINE b == PairEnd(file, e)
           C == {n \in PairEnds(file) : /\ \A S : IsClosed(file, S) => n \in S
                                        /\ n <= e \/ n >= b}
<1>1. /\ e \in 0 .. Len(file) /\ Len(file) \in Nat
      /\ \A S : IsClosed(file, S) => e \in S
  BY MetFacts
<1>2. /\ e \in PairsIn(file) /\ b \in e + 1 .. Len(file)
      /\ \A S : IsClosed(file, S) => b \in S
  BY <1>1, MetFacts
<1>3. PairEnds(file) \subseteq 0 .. Len(file) /\ 0 \in PairEnds(file)
  BY ClosedFacts DEF IsClosed
<1>4. IsClosed(file, C)
  <2>1. 0 \in C
    <3>1. 0 <= e
      BY <1>1
    <3>2. \A S : IsClosed(file, S) => 0 \in S
      BY DEF IsClosed
    <3>3. QED BY <1>3, <3>1, <3>2
  <2>2. ASSUME NEW n \in 0 .. Len(file), n \in C, IsPair(file, n)
        PROVE  PairEnd(file, n) \in C
    <3>1. /\ \A S : IsClosed(file, S) => n \in S
          /\ n <= e \/ n >= b
      BY <2>2
    <3>2. /\ PairEnd(file, n) \in n + 1 .. Len(file)
          /\ PairEnd(file, n) \in PairEnds(file)
          /\ \A S : IsClosed(file, S) => PairEnd(file, n) \in S
          /\ n < e => PairEnd(file, n) <= e
      BY <2>2, <3>1, MetFacts
    <3>3. PairEnd(file, n) <= e \/ PairEnd(file, n) >= b
      <4>1. CASE n < e
        BY <3>2, <4>1
      <4>2. CASE n = e
        BY <1>2, <4>2
      <4>3. CASE n >= b
        BY <1>1, <1>2, <3>2, <4>3
      <4>4. QED BY <1>1, <3>1, <4>1, <4>2, <4>3
    <3>4. QED BY <3>2, <3>3
  <2>3. QED BY <2>1, <2>2 DEF IsClosed
<1> HIDE DEF b
<1>5. ASSUME NEW m \in PairsIn(file), m < b PROVE m <= e
  <2>1. m \in 0 .. Len(file) /\ m \in C
    BY <1>4, ClosedFacts
  <2>2. m <= e \/ m >= b
    BY <2>1
  <2>3. QED BY <1>1, <1>2, <1>5, <2>1, <2>2
<1>6. \A m \in PairsIn(file) : m \in 0 .. Len(file)
  BY ClosedFacts
<1>7. ReadPairs(file, b) = ReadPairs(file, e) \union {e}
  <2>1. \A m \in PairsIn(file) : m < b <=> (m < e \/ m = e)
    BY <1>1, <1>2, <1>5, <1>6
  <2>2. QED BY <1>2, <2>1 DEF ReadPairs
<1>8. Read(file, b)
  <2>1. b \in 0 .. Len(file)
    BY <1>1, <1>2
  <2>2. \A S \in Closed(Steps(file)) : b \in S
    BY <1>2, ClosedFacts
  <2>3. ASSUME NEW m \in ReadPairs(file, e) \union {e} PROVE PairEnd(file, m) <= b
    <3>1. CASE m = e
      BY <1>1, <1>2, <3>1 DEF b
    <3>2. CASE m \in ReadPairs(file, e)
      <4>1. PairEnd(file, m) <= e /\ m \in 0 .. Len(file) /\ IsPair(file, m)
        BY <3>2, ClosedFacts DEF Read, ReadPairs
      <4>2. PairEnd(file, m) \in m + 1 .. Len(file)
        BY <4>1, PairFacts
      <4>3. QED BY <1>1, <1>2, <4>1, <4>2
    <3>3. QED BY <2>3, <3>1, <3>2
  <2>4. QED BY <1>7, <2>1, <2>2, <2>3 DEF Read
<1>9. QED BY <1>2, <1>7, <1>8 DEF b

\* When there is none, all pairs of the file have been met.
LEMMA NoMore ==
    ASSUME NEW file \in File, NEW e, Read(file, e), ~ IsPair(file, e)
    PROVE  PairsIn(file) = ReadPairs(file, e)
<1> DEFINE C == {n \in PairEnds(file) : /\ \A S : IsClosed(file, S) => n \in S
                                        /\ n <= e}
<1>1. e \in 0 .. Len(file) /\ Len(file) \in Nat
  BY MetFacts
<1>2. PairEnds(file) \subseteq 0 .. Len(file) /\ 0 \in PairEnds(file)
  BY ClosedFacts DEF IsClosed
<1>3. IsClosed(file, C)
  <2>1. 0 \in C
    <3>1. 0 <= e
      BY <1>1
    <3>2. \A S : IsClosed(file, S) => 0 \in S
      BY DEF IsClosed
    <3>3. QED BY <1>2, <3>1, <3>2
  <2>2. ASSUME NEW n \in 0 .. Len(file), n \in C, IsPair(file, n)
        PROVE  PairEnd(file, n) \in C
    <3>1. /\ \A S : IsClosed(file, S) => n \in S
          /\ n <= e /\ n # e
      BY <2>2
    <3>2. /\ PairEnd(file, n) \in PairEnds(file)
          /\ \A S : IsClosed(file, S) => PairEnd(file, n) \in S
          /\ n < e => PairEnd(file, n) <= e
      BY <2>2, <3>1, MetFacts
    <3>3. n < e
      BY <1>1, <3>1
    <3>4. QED BY <3>2, <3>3
  <2>3. QED BY <2>1, <2>2 DEF IsClosed
<1>4. ASSUME NEW m \in PairsIn(file) PROVE m < e
  <2>1. m \in 0 .. Len(file) /\ m \in C /\ m # e
    BY <1>3, ClosedFacts
  <2>2. QED BY <1>1, <2>1
<1>5. QED BY <1>4 DEF ReadPairs

-------------------------------------------------------------------------------
(***************************************************************************)
(* Attributes and assertions, one more.                                    *)
(***************************************************************************)

InFront(l, n, p) == [i \in 1 .. n + 1 |-> IF i = 1 THEN p ELSE l[i - 1]]
AtEnd(l, n, p) == [i \in 1 .. n + 1 |-> IF i = n + 1 THEN p ELSE l[i]]

\* The places that there are, numbered in their order, with one before the
\* first or behind the last.
LEMMA OneMore ==
    ASSUME NEW n \in Nat, NEW P, NEW l \in [1 .. n -> P], Range(l) = P, NEW p
    PROVE  /\ InFront(l, n, p) \in [1 .. n + 1 -> P \union {p}]
           /\ Range(InFront(l, n, p)) = P \union {p}
           /\ AtEnd(l, n, p) \in [1 .. n + 1 -> P \union {p}]
           /\ Range(AtEnd(l, n, p)) = P \union {p}
<1> DEFINE a == [i \in 1 .. n + 1 |-> IF i = 1 THEN p ELSE l[i - 1]]
           b == [i \in 1 .. n + 1 |-> IF i = n + 1 THEN p ELSE l[i]]
<1>1. \A q \in P : \E i \in 1 .. n : l[i] = q
  BY DEF Range
<1>2. a \in [1 .. n + 1 -> P \union {p}]
  <2>1. ASSUME NEW i \in 1 .. n + 1, i # 1 PROVE l[i - 1] \in P
    <3>1. i - 1 \in 1 .. n
      BY <2>1
    <3>2. QED BY <3>1
  <2>2. QED BY <2>1
<1>3. b \in [1 .. n + 1 -> P \union {p}]
  <2>1. ASSUME NEW i \in 1 .. n + 1, i # n + 1 PROVE l[i] \in P
    <3>1. i \in 1 .. n
      BY <2>1
    <3>2. QED BY <3>1
  <2>2. QED BY <2>1
<1>4. /\ 1 \in 1 .. n + 1 /\ n + 1 \in 1 .. n + 1
      /\ a[1] = p /\ b[n + 1] = p
  OBVIOUS
<1>5. ASSUME NEW i \in 1 .. n
      PROVE  /\ i \in 1 .. n + 1 /\ b[i] = l[i]
             /\ i + 1 \in 1 .. n + 1 /\ a[i + 1] = l[i]
  <2>1. /\ i \in 1 .. n + 1 /\ i + 1 \in 1 .. n + 1 /\ (i + 1) - 1 = i
        /\ i + 1 # 1 /\ i # n + 1
    OBVIOUS
  <2>2. QED BY <2>1
<1> HIDE DEF a, b
<1>6. DOMAIN a = 1 .. n + 1 /\ DOMAIN b = 1 .. n + 1
  BY <1>2, <1>3
<1>7. Range(a) = P \union {p}
  <2>1. Range(a) \subseteq P \union {p}
    BY <1>2, <1>6 DEF Range
  <2>2. ASSUME NEW q \in P PROVE q \in Range(a)
    <3>1. PICK i \in 1 .. n : l[i] = q
      BY <1>1
    <3>2. i + 1 \in DOMAIN a /\ a[i + 1] = q
      BY <1>5, <1>6, <3>1
    <3>3. QED BY <3>2 DEF Range
  <2>3. p \in Range(a)
    BY <1>4, <1>6 DEF Range
  <2>4. QED BY <2>1, <2>2, <2>3
<1>8. Range(b) = P \union {p}
  <2>1. Range(b) \subseteq P \union {p}
    BY <1>3, <1>6 DEF Range
  <2>2. ASSUME NEW q \in P PROVE q \in Range(b)
    <3>1. PICK i \in 1 .. n : l[i] = q
      BY <1>1
    <3>2. i \in DOMAIN b /\ b[i] = q
      BY <1>5, <1>6, <3>1
    <3>3. QED BY <3>2 DEF Range
  <2>3. p \in Range(b)
    BY <1>4, <1>6 DEF Range
  <2>4. QED BY <2>1, <2>2, <2>3
<1>9. QED BY <1>2, <1>3, <1>7, <1>8 DEF a, b, InFront, AtEnd

\* No places, no attributes.
LEMMA HasNone ==
    ASSUME NEW c
    PROVE  Has(c, <<>>, {})
<1> DEFINE l == [i \in 1 .. 0 |-> i]
<1>1. l \in [1 .. 0 -> {}] /\ Range(l) = {} /\ Len(<<>>) = 0
  BY DEF Range
<1>2. l \in LastFirst(0, {})
  BY <1>1 DEF LastFirst
<1>3. QED BY <1>1, <1>2 DEF Has

\* A pair that comes behind the others is found before them.
LEMMA HasMore ==
    ASSUME NEW c, NEW e \in Seq(Texts \X Texts), NEW P, Has(c, e, P),
           NEW p, \A q \in P : Before(q, p), PairAt(c, p) \in Texts \X Texts
    PROVE  Has(c, <<PairAt(c, p)>> \o e, P \union {p})
<1> DEFINE x == PairAt(c, p)
           f == <<x>> \o e
           n == Len(e)
<1>1. n \in Nat
  OBVIOUS
<1>2. /\ Len(f) = n + 1
      /\ \A i \in 1 .. n + 1 : f[i] = IF i = 1 THEN x ELSE e[i - 1]
  <2> HIDE DEF x
  <2>1. x \in Texts \X Texts
    BY DEF x
  <2>2. QED BY <2>1, FrontFacts
<1>3. PICK l \in LastFirst(n, P) : \A i \in 1 .. n : e[i] = PairAt(c, l[i])
  BY DEF Has
<1>4. /\ l \in [1 .. n -> P] /\ Range(l) = P
      /\ \A i, j \in 1 .. n : i < j => Before(l[j], l[i])
  BY <1>3 DEF LastFirst
<1> DEFINE m == InFront(l, n, p)
<1>5. m \in [1 .. n + 1 -> P \union {p}] /\ Range(m) = P \union {p}
  <2> HIDE DEF n
  <2>1. l \in [1 .. n -> P] /\ Range(l) = P
    BY <1>4
  <2>2. QED BY <1>1, <2>1, OneMore
<1>6. ASSUME NEW i \in 1 .. n + 1
      PROVE  /\ i = 1 => m[i] = p
             /\ i # 1 => i - 1 \in 1 .. n /\ m[i] = l[i - 1]
  BY <1>1 DEF InFront
<1> HIDE DEF m, n, x, f
<1>7. ASSUME NEW i \in 1 .. n + 1, NEW j \in 1 .. n + 1, i < j
      PROVE  Before(m[j], m[i])
  <2>1. j # 1 /\ j - 1 \in 1 .. n /\ m[j] = l[j - 1]
    BY <1>1, <1>6, <1>7
  <2>2. CASE i = 1
    <3>1. l[j - 1] \in P /\ m[i] = p
      BY <1>4, <1>6, <2>1, <2>2
    <3>2. QED BY <2>1, <3>1
  <2>3. CASE i # 1
    <3>1. i - 1 \in 1 .. n /\ m[i] = l[i - 1] /\ i - 1 < j - 1
      BY <1>1, <1>6, <1>7, <2>3
    <3>2. QED BY <1>4, <2>1, <3>1
  <2>4. QED BY <2>2, <2>3
<1>8. m \in LastFirst(n + 1, P \union {p})
  BY <1>5, <1>7 DEF LastFirst
<1>9. ASSUME NEW i \in 1 .. n + 1 PROVE f[i] = PairAt(c, m[i])
  <2>1. CASE i = 1
    BY <1>2, <1>6, <2>1 DEF x
  <2>2. CASE i # 1
    <3>1. i - 1 \in 1 .. n /\ m[i] = l[i - 1] /\ f[i] = e[i - 1]
      BY <1>2, <1>6, <2>2
    <3>2. QED BY <1>3, <3>1
  <2>3. QED BY <2>1, <2>2
<1>10. Has(c, f, P \union {p})
  BY <1>2, <1>8, <1>9 DEF Has
<1>11. QED BY <1>10 DEF f, x

\* No places, no assertions.
LEMMA HasNoAssertions ==
    ASSUME NEW c
    PROVE  HasAssertions(c, <<>>, {})
<1> DEFINE l == [i \in 1 .. 0 |-> i]
<1>1. l \in [1 .. 0 -> {}] /\ Range(l) = {} /\ Len(<<>>) = 0
  BY DEF Range
<1>2. l \in Places(0, {})
  BY <1>1 DEF Places
<1>3. QED BY <1>1, <1>2 DEF HasAssertions

\* An assertion that is added comes last.
LEMMA HasMoreAssertions ==
    ASSUME NEW c, NEW t \in Seq(AssertionType), NEW P, P \subseteq Nat,
           HasAssertions(c, t, P), NEW p \in Nat, \A q \in P : q < p,
           NEW a \in AssertionType, Is(c, a, p),
           a.id = Len(t), ~ a.error, a.sigresult = "untouched"
    PROVE  HasAssertions(c, Append(t, a), P \union {p})
<1> DEFINE n == Len(t)
           s == Append(t, a)
<1>1. n \in Nat
  OBVIOUS
<1>2. Len(s) = n + 1 /\ s[n + 1] = a /\ \A i \in 1 .. n : s[i] = t[i]
  OBVIOUS
<1>3. PICK l \in Places(n, P) : \A i \in 1 .. n : Is(c, t[i], l[i])
  BY DEF HasAssertions
<1>4. /\ l \in [1 .. n -> P] /\ Range(l) = P
      /\ \A i, j \in 1 .. n : i < j => l[i] < l[j]
  BY <1>3 DEF Places
<1> DEFINE m == AtEnd(l, n, p)
<1>5. m \in [1 .. n + 1 -> P \union {p}] /\ Range(m) = P \union {p}
  <2> HIDE DEF n
  <2>1. l \in [1 .. n -> P] /\ Range(l) = P
    BY <1>4
  <2>2. QED BY <1>1, <2>1, OneMore
<1>6. ASSUME NEW i \in 1 .. n + 1
      PROVE  /\ i = n + 1 => m[i] = p
             /\ i # n + 1 => i \in 1 .. n /\ m[i] = l[i]
  BY <1>1 DEF AtEnd
<1> HIDE DEF m, n, s
<1>7. ASSUME NEW i \in 1 .. n + 1, NEW j \in 1 .. n + 1, i < j
      PROVE  m[i] < m[j]
  <2>1. i # n + 1 /\ i \in 1 .. n /\ m[i] = l[i] /\ l[i] \in P
    BY <1>1, <1>4, <1>6, <1>7
  <2>2. CASE j = n + 1
    BY <1>6, <2>1, <2>2
  <2>3. CASE j # n + 1
    BY <1>4, <1>6, <1>7, <2>1, <2>3
  <2>4. QED BY <2>2, <2>3
<1>8. m \in Places(n + 1, P \union {p})
  BY <1>5, <1>7 DEF Places
<1>9. ASSUME NEW i \in 1 .. n + 1
      PROVE  /\ Is(c, s[i], m[i])
             /\ s[i].id = i - 1 /\ ~ s[i].error /\ s[i].sigresult = "untouched"
  <2>1. CASE i = n + 1
    <3>1. s[i] = a /\ m[i] = p /\ a.id = i - 1
      BY <1>1, <1>2, <1>6, <2>1 DEF n
    <3>2. QED BY <3>1
  <2>2. CASE i # n + 1
    <3>1. i \in 1 .. n /\ m[i] = l[i] /\ s[i] = t[i]
      BY <1>2, <1>6, <2>2
    <3>2. QED BY <1>3, <3>1 DEF HasAssertions, n
  <2>3. QED BY <2>1, <2>2
<1>10. HasAssertions(c, s, P \union {p})
  BY <1>2, <1>8, <1>9 DEF HasAssertions
<1>11. QED BY <1>10 DEF s

-------------------------------------------------------------------------------
(***************************************************************************)
(* What the command line asks for, one option further.                     *)
(***************************************************************************)

\* Behind an option there is what was before it, and what is its own.
LEMMA NextOption ==
    ASSUME NEW c \in CommandLines, NEW k \in 1 .. Len(c.options)
    PROVE  LET o == c.options[k]
           IN  /\ o.opt # "e" => PairsOf(c, k + 1) = PairsOf(c, k)
               /\ o.opt = "e" => PairsOf(c, k + 1) = AndHere(c, k, PairsIn(o.arg))
               /\ o.opt # "k" => /\ KeysOf(c, k + 1) = KeysOf(c, k)
                                 /\ EachHasKey(c, k) => EachHasKey(c, k + 1)
               /\ o.opt = "k" =>
                      /\ KeysOf(c, k + 1) = KeysOf(c, k) \union KeysIn(TextOf(c, k))
                      /\ EachHasKey(c, k) /\ KeysIn(TextOf(c, k)) # {}
                             => EachHasKey(c, k + 1)
<1>1. DOMAIN c.options = 1 .. Len(c.options) /\ k \in Nat
  <2>1. c.options \in Seq(Option)
    BY OptionTypes
  <2>2. QED BY <2>1
<1>2. ASSUME NEW opt
      PROVE  {j \in OptionsOf(c, opt) : j < k + 1}
                 = {j \in OptionsOf(c, opt) : j < k}
                       \union (IF c.options[k].opt = opt THEN {k} ELSE {})
  <2>1. ASSUME NEW j \in OptionsOf(c, opt) PROVE j < k + 1 <=> j < k \/ j = k
    <3>1. j \in Nat
      BY <1>1 DEF OptionsOf
    <3>2. QED BY <1>1, <3>1
  <2>2. k \in OptionsOf(c, opt) <=> c.options[k].opt = opt
    BY <1>1 DEF OptionsOf
  <2>3. QED BY <2>1, <2>2
<1>3. CASE c.options[k].opt # "e"
  <2>1. {j \in OptionsOf(c, "e") : j < k + 1} = {j \in OptionsOf(c, "e") : j < k}
    BY <1>2, <1>3
  <2>2. PairsOf(c, k + 1) = PairsOf(c, k)
    BY <2>1 DEF PairsOf
  <2>3. CASE c.options[k].opt # "k"
    <3>1. {j \in OptionsOf(c, "k") : j < k + 1} = {j \in OptionsOf(c, "k") : j < k}
      BY <1>2, <2>3
    <3>2. QED BY <1>3, <2>2, <2>3, <3>1 DEF KeysOf, EachHasKey
  <2>4. CASE c.options[k].opt = "k"
    <3>1. {j \in OptionsOf(c, "k") : j < k + 1}
              = {j \in OptionsOf(c, "k") : j < k} \union {k}
      BY <1>2, <2>4
    <3>2. KeysOf(c, k + 1) = KeysOf(c, k) \union KeysIn(TextOf(c, k))
      BY <3>1 DEF KeysOf
    <3>3. EachHasKey(c, k) /\ KeysIn(TextOf(c, k)) # {} => EachHasKey(c, k + 1)
      BY <3>1 DEF EachHasKey
    <3>4. QED BY <1>3, <2>2, <2>4, <3>2, <3>3
  <2>5. QED BY <2>3, <2>4
<1>4. CASE c.options[k].opt = "e"
  <2>1. {j \in OptionsOf(c, "e") : j < k + 1}
            = {j \in OptionsOf(c, "e") : j < k} \union {k}
    BY <1>2, <1>4
  <2>2. PairsOf(c, k + 1) = AndHere(c, k, PairsIn(c.options[k].arg))
    BY <2>1 DEF PairsOf, AndHere
  <2>3. {j \in OptionsOf(c, "k") : j < k + 1} = {j \in OptionsOf(c, "k") : j < k}
    BY <1>2, <1>4
  <2>4. QED BY <1>4, <2>2, <2>3 DEF KeysOf, EachHasKey
<1>5. QED BY <1>3, <1>4

\* An option that is no file of keys or of assertions leaves the buffer alone.
LEMMA HoldsOn ==
    ASSUME NEW c \in CommandLines, NEW k \in 1 .. Len(c.options),
           c.options[k].opt \notin {"k", "l"}, NEW b, Holds(c, k - 1, b)
    PROVE  Holds(c, k, b)
<1> DEFINE W == OptionsOf(c, "k") \union OptionsOf(c, "l")
<1>1. \A j \in W : j \in Nat /\ j # k
  BY OptionTypes DEF OptionsOf
<1>2. k \in Nat
  BY OptionTypes
<1>3. \A j \in W : j <= k <=> j <= k - 1
  BY <1>1, <1>2
<1>4. \A n : WritersOf(c, k, n) = WritersOf(c, k - 1, n)
  BY <1>3 DEF WritersOf
<1>5. \A n : WrittenOf(c, k, n) = WrittenOf(c, k - 1, n)
  BY <1>4 DEF WrittenOf
<1>6. QED BY <1>3, <1>5 DEF Holds

IsAssertion(c, p) ==
    /\ p <= Len(c.options) => p \in OptionsOf(c, "l")
    /\ FileOf(c, p) # None /\ FileOf(c, p).kind # "unparsable"

\* Behind a place there is what was before it, and its assertion if it is one.
LEMMA NextPlace ==
    ASSUME NEW c \in CommandLines, NEW p \in 1 .. Size(c)
    PROVE  /\ IsAssertion(c, p) => AssertionsOf(c, p + 1) = AssertionsOf(c, p) \union {p}
           /\ ~ IsAssertion(c, p) => AssertionsOf(c, p + 1) = AssertionsOf(c, p)
<1> DEFINE All == {q \in 1 .. Size(c) : IsAssertion(c, q)}
<1>1. Size(c) \in Nat
  BY OptionTypes
<1>2. \A k : AssertionsOf(c, k) = {q \in All : q < k}
  BY DEF AssertionsOf, IsAssertion
<1>3. ASSUME NEW q \in All PROVE q < p + 1 <=> q < p \/ q = p
  BY <1>1
<1>4. p \in All <=> IsAssertion(c, p)
  OBVIOUS
<1> HIDE DEF All
<1>5. QED BY <1>2, <1>3, <1>4

\* Before the first option there is nothing.
LEMMA FirstOption ==
    ASSUME NEW c \in CommandLines
    PROVE  /\ PairsOf(c, 1) = {} /\ KeysOf(c, 1) = {} /\ AssertionsOf(c, 1) = {}
           /\ EachHasKey(c, 1)
<1>1. DOMAIN c.options = 1 .. Len(c.options) /\ Len(c.options) \in Nat
      /\ Size(c) \in Nat
  BY OptionTypes
<1>2. ASSUME NEW opt PROVE {j \in OptionsOf(c, opt) : j < 1} = {}
  BY <1>1 DEF OptionsOf
<1>3. PairsOf(c, 1) = {}
  BY <1>2 DEF PairsOf
<1>4. KeysOf(c, 1) = {} /\ EachHasKey(c, 1)
  BY <1>2 DEF KeysOf, EachHasKey
<1>5. AssertionsOf(c, 1) = {}
  BY <1>1 DEF AssertionsOf
<1>6. QED BY <1>3, <1>4, <1>5

\* Behind the last one there is everything.
LEMMA AllPlaces ==
    ASSUME cmd \in CommandLines
    PROVE  /\ PairsOf(cmd, Len(cmd.options) + 1) = PairPlaces
           /\ KeysOf(cmd, Len(cmd.options) + 1) =
                  UNION {KeysIn(KeyText(i)) : i \in OptionsWith("k")}
           /\ EachHasKey(cmd, Len(cmd.options) + 1) =>
                  \A i \in OptionsWith("k") : KeysIn(KeyText(i)) # {}
           /\ AssertionsOf(cmd, Size(cmd) + 1) = AssertionPlaces
           /\ \A p : FileOf(cmd, p) = FileAt(p)
<1>1. DOMAIN cmd.options = 1 .. Len(cmd.options) /\ Len(cmd.options) \in Nat
      /\ Size(cmd) \in Nat
  BY OptionTypes
<1>2. ASSUME NEW opt
      PROVE  {j \in OptionsOf(cmd, opt) : j < Len(cmd.options) + 1} = OptionsWith(opt)
  BY <1>1 DEF OptionsOf, OptionsWith
<1>3. \A p : FileOf(cmd, p) = FileAt(p)
  BY DEF FileOf, FileAt, Size
<1>4. PairsOf(cmd, Len(cmd.options) + 1) = PairPlaces
  BY <1>2 DEF PairsOf, PairPlaces
<1>5. /\ KeysOf(cmd, Len(cmd.options) + 1) =
             UNION {KeysIn(KeyText(i)) : i \in OptionsWith("k")}
      /\ EachHasKey(cmd, Len(cmd.options) + 1) =>
             \A i \in OptionsWith("k") : KeysIn(KeyText(i)) # {}
  <2>1. \A i : KeyText(i) = TextOf(cmd, i)
    BY DEF KeyText, TextOf, Written, WrittenOf, Writers, WritersOf, FileSize,
           SizeOf, OptionsWith, OptionsOf
  <2>2. QED BY <1>2, <2>1 DEF KeysOf, EachHasKey
<1>6. AssertionsOf(cmd, Size(cmd) + 1) = AssertionPlaces
  <2>1. \A p : AssertionAt(p).kind = FileAt(p).kind
    BY DEF AssertionAt
  <2>2. OptionsOf(cmd, "l") = OptionsWith("l")
    BY DEF OptionsOf, OptionsWith
  <2>3. \A p \in 1 .. Size(cmd) : p < Size(cmd) + 1
    BY <1>1
  <2>4. 1 .. Size(cmd) = 1 .. Len(cmd.options) + Len(cmd.operands)
    BY DEF Size
  <2> HIDE DEF Size
  <2>5. ASSUME NEW p \in 1 .. Size(cmd)
        PROVE  p \in AssertionsOf(cmd, Size(cmd) + 1) <=> p \in AssertionPlaces
    BY <1>3, <2>1, <2>2, <2>3, <2>4 DEF AssertionsOf, AssertionPlaces
  <2>6. QED BY <2>4, <2>5 DEF AssertionsOf, AssertionPlaces
<1>7. QED BY <1>3, <1>4, <1>5, <1>6

\* The pairs of a file come behind those of the files before it.
LEMMA PairsInOrder ==
    ASSUME NEW c \in CommandLines, NEW k \in Nat,
           NEW S \in SUBSET Nat, NEW n \in Nat, \A m \in S : m < n
    PROVE  \A q \in AndHere(c, k, S) : Before(q, <<k, n>>)
<1>1. ASSUME NEW q \in PairsOf(c, k) PROVE Before(q, <<k, n>>)
  <2>1. PICK i, m : q = <<i, m>> /\ i < k
    BY DEF PairsOf
  <2>2. QED BY <2>1 DEF Before
<1>2. ASSUME NEW m \in S PROVE Before(<<k, m>>, <<k, n>>)
  BY DEF Before
<1>3. QED BY <1>1, <1>2 DEF AndHere

-------------------------------------------------------------------------------
(***************************************************************************)
(* Steps that end the command, or only go on to the next option.           *)
(***************************************************************************)

\* Before the query nothing is printed, so there is nothing to account for.
LEMMA Silent ==
    ASSUME Position, pc \in Unasked, UNCHANGED out,
           pc' \in Unasked \union {"exited"}, keynote_errno' # "NOTFOUND"
    PROVE  Reports' /\ Grounds'
<1>1. out' = <<>>
  BY DEF Position
<1>2. ~ Reporting'
  BY DEF Reporting, Unasked
<1>3. QED BY <1>1, <1>2 DEF Reports, Grounds

\* The command that ends before the query.
LEMMA Ends ==
    ASSUME IInv, pc \in Unasked, UNCHANGED out, pc' = "exited",
           keynote_errno' # "NOTFOUND", Typed', Buffer', Stack'
    PROVE  IInv'
<1>1. Reports' /\ Grounds'
  BY Silent DEF IInv
<1>2. Position' /\ Attributes' /\ Askers' /\ Assertions'
  BY DEF Position, Attributes, Askers, Assertions, Unasked
<1>3. QED BY <1>1, <1>2 DEF IInv

\* Where the loop over the options is.
LEMMA OptionBounds ==
    ASSUME NEW a, NEW m \in Nat, NEW n \in Nat, NEW s, s = m + n,
           a \in 1 .. m, NEW b, b = a + 1
    PROVE  /\ a \in 1 .. s /\ a \in Nat /\ s \in Nat
           /\ b \in 0 .. s + 1 /\ b \in 1 .. m + 1
OBVIOUS

\* While options are read, the one it is at is on the command line.
LEMMA AtAnOption ==
    ASSUME IInv, pc \in {"options", "parse"}, at <= Len(cmd.options)
    PROVE  /\ cmd \in CommandLines
           /\ at \in 1 .. Len(cmd.options) /\ at \in 1 .. Size(cmd) /\ at \in Nat
           /\ at + 1 \in 0 .. Size(cmd) + 1 /\ at + 1 \in 1 .. Len(cmd.options) + 1
<1>1. cmd \in CommandLines
  BY DEF IInv, Typed
<1> DEFINE m == Len(cmd.options)
           n == Len(cmd.operands)
<1>2. m \in Nat /\ n \in Nat /\ Size(cmd) = m + n
  BY <1>1, OptionTypes
<1>3. at \in 1 .. m + 1 \/ at \in 1 .. m
  BY DEF IInv, Position
<1>4. at <= m
  OBVIOUS
<1> HIDE DEF m, n
<1>5. at \in 1 .. m
  BY <1>2, <1>3, <1>4
<1>6. QED BY <1>1, <1>2, <1>5, OptionBounds DEF m

\* The options that were given, one option further.
LEMMA GivenFacts ==
    ASSUME IInv, UNCHANGED cmd, NEW opt
    PROVE  /\ at' = at => (Given(opt)' <=> Given(opt))
           /\ at \in 1 .. Len(cmd.options) /\ at' = at + 1 =>
                  (Given(opt)' <=> Given(opt) \/ option.opt = opt)
<1>1. CASE at' = at
  <2>1. Given(opt)' <=> Given(opt)
    BY <1>1 DEF Given
  <2>2. ~ (at' = at + 1)
    BY <1>1 DEF IInv, Typed
  <2>3. QED BY <2>1, <2>2
<1>2. CASE at \in 1 .. Len(cmd.options) /\ at' = at + 1
  <2>1. at \in Nat /\ Len(cmd.options) \in Nat
    BY <1>2, OptionTypes DEF IInv, Typed
  <2>2. 1 .. at' - 1 = (1 .. at - 1) \union {at}
    BY <1>2, <2>1
  <2>3. Given(opt)' <=> \E i \in (1 .. at - 1) \union {at} : cmd.options[i].opt = opt
    BY <2>2 DEF Given
  <2>4. QED BY <1>1, <2>3 DEF Given, option
<1>3. QED BY <1>1, <1>2

\* A step that is done with an option.
LEMMA NextOptionOK ==
    ASSUME IInv, pc \in {"options", "parse"}, at <= Len(cmd.options),
           pc' = "options", at' = at + 1, UNCHANGED <<cmd, out>>,
           keynote_errno' # "NOTFOUND", Typed', Buffer', Stack',
           Has(cmd, env', PairsOf(cmd, at + 1)),
           Given("e")' => env' # <<>>,
           Holds(cmd, at, buf'), EachHasKey(cmd, at + 1),
           ToSet(authorizers') = KeysOf(cmd, at + 1),
           Given("k")' => authorizers' # <<>>,
           HasAssertions(cmd, table', AssertionsOf(cmd, at + 1))
    PROVE  IInv'
<1>1. Reports' /\ Grounds'
  BY Silent DEF IInv, Unasked
<1>2. at + 1 \in 1 .. Len(cmd.options) + 1
  BY AtAnOption
<1>3. out = <<>> /\ at + 1 \in 1 .. Len(cmd.options) + 1
  BY <1>2 DEF IInv, Position, Unasked
<1>4. Position'
  BY <1>3 DEF Position, Unasked
<1>5. Attributes'
  BY DEF Attributes
<1>6. Askers'
  <2>1. (at + 1) - 1 = at
    BY AtAnOption
  <2>2. QED BY <2>1 DEF Askers
<1>7. Assertions'
  BY DEF Assertions
<1>8. QED BY <1>1, <1>4, <1>5, <1>6, <1>7 DEF IInv

\* -h, a file that cannot be opened, a second -r, an operand that is no file.
LEMMA ExitStep ==
    ASSUME IInv, pc \in {"options", "operands"}, Exit
    PROVE  IInv'
<1>1. Typed' /\ Buffer' /\ Stack'
  BY DEF IInv, Typed, Buffer, Stack, Exit, parserVars, sessionVars, NoToken
<1>2. pc \in Unasked /\ UNCHANGED out /\ pc' = "exited"
      /\ keynote_errno' # "NOTFOUND"
  BY DEF IInv, Position, Unasked, Exit
<1>3. QED BY <1>1, <1>2, Ends

\* -r: the values of the query.
LEMMA OptionValuesStep ==
    ASSUME IInv, OptionValues
    PROVE  IInv'
<1>1. /\ pc = "options" /\ at <= Len(cmd.options) /\ option.opt = "r"
      /\ at' = at + 1 /\ pc' = "options"
      /\ UNCHANGED <<cmd, pc, buf, parserVars, keynote_errno, sessionVars, out>>
      /\ UNCHANGED <<cmd, buf, text, pos, start, stack, token, keynote_errno, env,
                     authorizers, table, out>>
  BY DEF OptionValues, AtOption, parserVars, sessionVars
<1>2. /\ cmd \in CommandLines
      /\ at \in 1 .. Len(cmd.options) /\ at \in 1 .. Size(cmd)
      /\ at + 1 \in 0 .. Size(cmd) + 1
  BY <1>1, AtAnOption
<1>3. Typed'
  BY <1>1, <1>2 DEF IInv, Typed, NoToken
<1>4. Buffer' /\ Stack'
  BY <1>1 DEF IInv, Buffer, Stack
<1>5. /\ PairsOf(cmd, at + 1) = PairsOf(cmd, at)
      /\ KeysOf(cmd, at + 1) = KeysOf(cmd, at)
      /\ EachHasKey(cmd, at) => EachHasKey(cmd, at + 1)
      /\ Holds(cmd, at - 1, buf) => Holds(cmd, at, buf)
  BY <1>1, <1>2, NextOption, HoldsOn DEF option
<1>6. AssertionsOf(cmd, at + 1) = AssertionsOf(cmd, at)
  <2>1. ~ IsAssertion(cmd, at)
    BY <1>1 DEF OptionsOf, option, IsAssertion
  <2>2. QED BY <1>2, <2>1, NextPlace
<1>7. /\ Given("e")' <=> Given("e")
      /\ Given("k")' <=> Given("k")
  BY <1>1, <1>2, GivenFacts
<1>8. /\ Has(cmd, env', PairsOf(cmd, at + 1))
      /\ Given("e")' => env' # <<>>
      /\ Holds(cmd, at, buf') /\ EachHasKey(cmd, at + 1)
      /\ ToSet(authorizers') = KeysOf(cmd, at + 1)
      /\ Given("k")' => authorizers' # <<>>
      /\ HasAssertions(cmd, table', AssertionsOf(cmd, at + 1))
  BY <1>1, <1>5, <1>6, <1>7
     DEF IInv, Attributes, Askers, Assertions
<1>9. keynote_errno' # "NOTFOUND"
  BY <1>1 DEF IInv, Position, Unasked
<1>10. QED BY <1>1, <1>3, <1>4, <1>8, <1>9, NextOptionOK

-------------------------------------------------------------------------------
(***************************************************************************)
(* The buffer.                                                             *)
(***************************************************************************)

\* A buffer that is large enough has a zero byte at its end, and is the old one
\* or, where that was too small, a new one of zeros.
LEMMA FreshFacts ==
    ASSUME Buffer, NEW size \in Nat
    PROVE  LET b == Fresh(size)
           IN  /\ b \in Seq(Byte) /\ Len(b) \in Nat /\ size < Len(b)
               /\ DOMAIN b = 1 .. Len(b) /\ b[Len(b)] = "zero"
               /\ \/ b = buf
                  \/ /\ Len(b) = size + 1 /\ Len(buf) <= size
                     /\ \A i \in 1 .. Len(b) : b[i] = "zero"
<1>1. buf \in Seq(Byte) /\ Len(buf) \in Nat /\ Len(buf) > 0
      /\ buf[Len(buf)] = "zero"
  BY DEF Buffer, Last
<1>2. CASE size > Len(buf) - 1
  <2> DEFINE b == [i \in 1 .. size + 1 |-> "zero"]
  <2>1. Fresh(size) = b
    BY <1>2 DEF Fresh
  <2>2. b \in Seq(Byte) /\ Len(b) = size + 1 /\ \A i \in 1 .. size + 1 : b[i] = "zero"
    BY DEF Byte
  <2> HIDE DEF b
  <2>3. /\ Len(b) \in Nat /\ size < Len(b) /\ DOMAIN b = 1 .. Len(b)
        /\ b[Len(b)] = "zero" /\ \A i \in 1 .. Len(b) : b[i] = "zero"
    BY <2>2
  <2>4. Len(buf) <= size
    BY <1>1, <1>2
  <2>5. QED BY <2>1, <2>2, <2>3, <2>4
<1>3. CASE ~ (size > Len(buf) - 1)
  <2>1. Fresh(size) = buf
    BY <1>3 DEF Fresh
  <2>2. size < Len(buf) /\ DOMAIN buf = 1 .. Len(buf)
    BY <1>1, <1>3
  <2>3. QED BY <1>1, <2>1, <2>2
<1>4. QED BY <1>2, <1>3

\* The n bytes c, read over the old ones.
LEMMA OverwrittenOK ==
    ASSUME Buffer, NEW n \in Nat, NEW c \in [1 .. n -> Byte],
           NEW b, b = [i \in DOMAIN Fresh(n) |-> IF i <= n THEN c[i] ELSE Fresh(n)[i]]
    PROVE  /\ b \in Seq(Byte) /\ b # <<>> /\ Last(b) = "zero"
           /\ Len(b) \in Nat /\ n < Len(b) /\ Len(buf) <= Len(b)
           /\ \A i \in 1 .. n : i \in 1 .. Len(b) /\ b[i] = c[i]
           /\ \A i \in 1 .. Len(b) : i > n =>
                  \/ i \in 1 .. Len(buf) /\ b[i] = buf[i]
                  \/ i > Len(buf) /\ b[i] = "zero"
<1> DEFINE f == Fresh(n)
           m == Len(f)
<1>1. /\ f \in Seq(Byte) /\ m \in Nat /\ n < m
      /\ DOMAIN f = 1 .. m /\ f[m] = "zero"
      /\ \/ f = buf
         \/ /\ m = n + 1 /\ Len(buf) <= n
            /\ \A i \in 1 .. m : f[i] = "zero"
  BY FreshFacts
<1>2. b = [i \in 1 .. m |-> IF i <= n THEN c[i] ELSE f[i]]
  BY <1>1
<1>3. Len(buf) \in Nat /\ (f = buf => m = Len(buf))
  BY DEF Buffer
<1> HIDE DEF f
<1>4. \A i \in 1 .. m : f[i] \in Byte
  BY <1>1, FileFacts
<1> HIDE DEF m
<1>5. ASSUME NEW i \in 1 .. m
      PROVE  /\ i <= n => i \in 1 .. n /\ b[i] = c[i]
             /\ ~ (i <= n) => b[i] = f[i]
             /\ b[i] \in Byte
  <2>1. CASE i <= n
    <3>1. i \in 1 .. n /\ b[i] = c[i]
      BY <1>1, <1>2, <2>1
    <3>2. QED BY <2>1, <3>1
  <2>2. CASE ~ (i <= n)
    <3>1. b[i] = f[i]
      BY <1>2, <2>2
    <3>2. QED BY <1>4, <2>2, <3>1
  <2>3. QED BY <2>1, <2>2
<1>6. b \in Seq(Byte) /\ Len(b) = m
  <2>1. b \in [1 .. m -> Byte]
    BY <1>2, <1>5
  <2>2. QED BY <1>1, <2>1
<1>7. m \in 1 .. m /\ ~ (m <= n)
  BY <1>1
<1>8. b # <<>> /\ Last(b) = "zero"
  <2>1. b[m] = "zero"
    BY <1>1, <1>5, <1>7
  <2>2. QED BY <1>1, <1>6, <2>1 DEF Last
<1>9. \A i \in 1 .. n : i \in 1 .. m /\ b[i] = c[i]
  <2>1. ASSUME NEW i \in 1 .. n PROVE i \in 1 .. m /\ i <= n
    BY <1>1
  <2>2. QED BY <1>5, <2>1
<1>10. ASSUME NEW i \in 1 .. m, i > n
       PROVE  \/ i \in 1 .. Len(buf) /\ b[i] = buf[i]
              \/ i > Len(buf) /\ b[i] = "zero"
  <2>1. b[i] = f[i]
    BY <1>1, <1>5, <1>10
  <2>2. CASE f = buf
    BY <1>3, <2>1, <2>2
  <2>3. CASE Len(buf) <= n /\ f[i] = "zero"
    BY <1>1, <1>3, <1>10, <2>1, <2>3
  <2>4. QED BY <1>1, <2>2, <2>3
<1>11. Len(buf) <= m
  BY <1>1, <1>3
<1>12. QED BY <1>1, <1>6, <1>8, <1>9, <1>10, <1>11

\* What option k reads over the buffer is what is there from then on.
LEMMA BufferWritten ==
    ASSUME Buffer, NEW k \in 1 .. Len(cmd.options), cmd \in CommandLines,
           cmd.options[k].opt \in {"k", "l"}, Holds(cmd, k - 1, buf),
           NEW n \in Nat, n = SizeOf(cmd, k),
           NEW b, Len(b) \in Nat, n < Len(b), Len(buf) <= Len(b),
           \A i \in 1 .. n : b[i] = IF cmd.options[k].opt = "l" THEN "zero"
                                    ELSE cmd.options[k].arg[i],
           \A i \in 1 .. Len(b) : i > n =>
               \/ i \in 1 .. Len(buf) /\ b[i] = buf[i]
               \/ i > Len(buf) /\ b[i] = "zero"
    PROVE  Holds(cmd, k, b)
<1> DEFINE W == OptionsOf(cmd, "k") \union OptionsOf(cmd, "l")
<1>1. Len(b) \in Nat /\ n < Len(b) /\ Len(buf) <= Len(b)
  OBVIOUS
<1>2. DOMAIN cmd.options = 1 .. Len(cmd.options) /\ k \in Nat /\ Len(buf) \in Nat
  BY OptionTypes DEF Buffer
<1>3. /\ W \in SUBSET Nat /\ k \in W
      /\ k \in OptionsOf(cmd, "l") <=> cmd.options[k].opt = "l"
  BY <1>2 DEF OptionsOf
<1>4. \A j \in W : j <= k <=> j <= k - 1 \/ j = k
  BY <1>2, <1>3
<1>5. ASSUME NEW j \in W, j <= k - 1
      PROVE  SizeOf(cmd, j) \in Nat /\ SizeOf(cmd, j) < Len(buf)
  BY <1>5 DEF Holds
<1>6. ASSUME NEW j \in W, j <= k
      PROVE  SizeOf(cmd, j) \in Nat /\ SizeOf(cmd, j) < Len(b)
  <2>1. CASE j = k
    BY <1>1, <2>1
  <2>2. CASE j <= k - 1
    BY <1>1, <1>2, <1>5, <2>2
  <2>3. QED BY <1>4, <1>6, <2>1, <2>2
<1>7. \A m : WritersOf(cmd, k, m) = {j \in W : j <= k /\ m <= SizeOf(cmd, j)}
  BY DEF WritersOf
<1>8. \A m : WritersOf(cmd, k - 1, m) = {j \in W : j <= k - 1 /\ m <= SizeOf(cmd, j)}
  BY DEF WritersOf
<1>9. \A m \in 1 .. Len(buf) : buf[m] = WrittenOf(cmd, k - 1, m)
  BY DEF Holds
<1> HIDE DEF W
<1>10. ASSUME NEW m \in 1 .. Len(b), m <= n PROVE b[m] = WrittenOf(cmd, k, m)
  <2>1. /\ k \in WritersOf(cmd, k, m) /\ WritersOf(cmd, k, m) \in SUBSET Nat
        /\ \A j \in WritersOf(cmd, k, m) : j <= k
    <3>1. k <= k /\ m <= SizeOf(cmd, k)
      BY <1>2, <1>10
    <3>2. QED BY <1>3, <1>7, <3>1
  <2>2. Max(WritersOf(cmd, k, m)) = k
    BY <2>1, MaxIs
  <2>3. WrittenOf(cmd, k, m) = IF cmd.options[k].opt = "l" THEN "zero"
                               ELSE cmd.options[k].arg[m]
    BY <1>3, <2>1, <2>2 DEF WrittenOf
  <2>4. m \in 1 .. n
    BY <1>10
  <2>5. QED BY <1>1, <2>3, <2>4
<1>11. ASSUME NEW m \in 1 .. Len(b), ~ (m <= n) PROVE b[m] = WrittenOf(cmd, k, m)
  <2>1. WritersOf(cmd, k, m) = WritersOf(cmd, k - 1, m)
    <3>1. ~ (m <= SizeOf(cmd, k))
      BY <1>11
    <3>2. QED BY <1>4, <1>7, <1>8, <3>1
  <2>2. WrittenOf(cmd, k, m) = WrittenOf(cmd, k - 1, m)
    BY <2>1 DEF WrittenOf
  <2>3. m > n /\ m \in Nat
    BY <1>1, <1>11
  <2>4. CASE m \in 1 .. Len(buf) /\ b[m] = buf[m]
    BY <1>9, <2>2, <2>4
  <2>5. CASE m > Len(buf) /\ b[m] = "zero"
    <3>1. \A j \in W : j <= k - 1 => ~ (m <= SizeOf(cmd, j))
      BY <1>2, <1>5, <2>3, <2>5
    <3>2. WritersOf(cmd, k - 1, m) = {}
      BY <1>8, <3>1
    <3>3. QED BY <2>2, <2>5, <3>2 DEF WrittenOf
  <2>6. QED BY <1>1, <2>3, <2>4, <2>5
<1>12. QED BY <1>6, <1>10, <1>11 DEF Holds, W

LEMMA AddAssertionOK ==
    ASSUME IInv, UNCHANGED cmd, NEW p \in 1 .. Size(cmd),
           p <= Len(cmd.options) => p \in OptionsOf(cmd, "l"),
           FileOf(cmd, p) \in AssertionFile, FileOf(cmd, p) # None,
           NEW local \in BOOLEAN, local = (p <= Len(cmd.options)),
           AddAssertion(FileOf(cmd, p), local),
           HasAssertions(cmd, table, AssertionsOf(cmd, p))
    PROVE  /\ table' \in Seq(AssertionType)
           /\ HasAssertions(cmd, table', AssertionsOf(cmd, p + 1))
           /\ Buffer'
           /\ p <= Len(cmd.options) /\ Holds(cmd, p - 1, buf) => Holds(cmd, p, buf')
           /\ keynote_errno' = "none"
<1> DEFINE file == FileOf(cmd, p)
           a == [id |-> Len(table), kind |-> file.kind, local |-> local,
                 error |-> FALSE, sigresult |-> "untouched"]
<1>1. /\ file.kind \in Kinds /\ file.size \in Nat
      /\ table \in Seq(AssertionType) /\ Len(table) \in Nat
      /\ cmd \in CommandLines
  BY DEF IInv, Typed, AssertionFile
<1>2. /\ table' = IF file.kind = "unparsable" THEN table ELSE Append(table, a)
      /\ buf' = [i \in DOMAIN Fresh(file.size) |->
                     IF i <= file.size THEN "zero" ELSE Fresh(file.size)[i]]
      /\ keynote_errno' = "none"
  BY DEF AddAssertion
<1>3. IsAssertion(cmd, p) <=> file.kind # "unparsable"
  BY DEF IsAssertion
<1>4. /\ table' \in Seq(AssertionType)
      /\ HasAssertions(cmd, table', AssertionsOf(cmd, p + 1))
  <2>1. CASE file.kind = "unparsable"
    <3>1. AssertionsOf(cmd, p + 1) = AssertionsOf(cmd, p)
      BY <1>1, <1>3, <2>1, NextPlace
    <3>2. QED BY <1>1, <1>2, <2>1, <3>1
  <2>2. CASE file.kind # "unparsable"
    <3>1. AssertionsOf(cmd, p + 1) = AssertionsOf(cmd, p) \union {p}
      BY <1>1, <1>3, <2>2, NextPlace
    <3>2. a \in AssertionType
      BY <1>1, <2>2 DEF AssertionType
    <3>3. a.id = Len(table) /\ ~ a.error /\ a.sigresult = "untouched" /\ Is(cmd, a, p)
      BY DEF Is
    <3>4. /\ AssertionsOf(cmd, p) \subseteq Nat /\ p \in Nat
          /\ \A q \in AssertionsOf(cmd, p) : q < p
      BY DEF AssertionsOf
    <3> HIDE DEF a
    <3>5. HasAssertions(cmd, Append(table, a), AssertionsOf(cmd, p) \union {p})
      BY <1>1, <3>2, <3>3, <3>4, HasMoreAssertions
    <3>6. table' = Append(table, a)
      BY <1>2, <2>2
    <3>7. Append(table, a) \in Seq(AssertionType)
      BY <1>1, <3>2
    <3>8. QED BY <3>1, <3>5, <3>6, <3>7
  <2>3. QED BY <2>1, <2>2
<1>5. Buffer
  BY DEF IInv
<1> DEFINE n == file.size
           c == [i \in 1 .. n |-> "zero"]
<1>6. n \in Nat
  BY <1>1
<1>7. buf' = [i \in DOMAIN Fresh(n) |-> IF i <= n THEN c[i] ELSE Fresh(n)[i]]
  <2>1. \A i \in DOMAIN Fresh(n) : i <= n => i \in 1 .. n
    <3>1. DOMAIN Fresh(n) = 1 .. Len(Fresh(n))
      BY <1>5, <1>6, FreshFacts
    <3> HIDE DEF n
    <3>2. QED BY <1>6, <3>1
  <2>2. \A i \in DOMAIN Fresh(n) : i <= n => c[i] = "zero"
    BY <2>1
  <2>3. buf' = [i \in DOMAIN Fresh(n) |-> IF i <= n THEN "zero" ELSE Fresh(n)[i]]
    BY <1>2
  <2> HIDE DEF c, n
  <2>4. QED BY <2>2, <2>3
<1>8. c \in [1 .. n -> Byte] /\ \A i \in 1 .. n : c[i] = "zero"
  BY DEF Byte
<1> HIDE DEF c
<1>9. /\ buf' \in Seq(Byte) /\ buf' # <<>> /\ Last(buf') = "zero"
      /\ Len(buf') \in Nat /\ n < Len(buf') /\ Len(buf) <= Len(buf')
      /\ \A i \in 1 .. n : i \in 1 .. Len(buf') /\ buf'[i] = c[i]
      /\ \A i \in 1 .. Len(buf') : i > n =>
             \/ i \in 1 .. Len(buf) /\ buf'[i] = buf[i]
             \/ i > Len(buf) /\ buf'[i] = "zero"
  <2> HIDE DEF n
  <2> QED BY <1>5, <1>6, <1>7, <1>8, OverwrittenOK
<1>10. Buffer'
  BY <1>9 DEF Buffer
<1>11. ASSUME p <= Len(cmd.options), Holds(cmd, p - 1, buf)
       PROVE  Holds(cmd, p, buf')
  <2>1. cmd.options[p].opt = "l" /\ p \in DOMAIN cmd.options
    BY <1>11 DEF OptionsOf
  <2>2. p \in 1 .. Len(cmd.options)
    BY <1>1, <2>1, OptionTypes
  <2>3. n = SizeOf(cmd, p)
    BY <1>11, <2>1 DEF SizeOf, OptionsOf, FileOf
  <2> HIDE DEF n
  <2>4. \A i \in 1 .. n : buf'[i] = IF cmd.options[p].opt = "l" THEN "zero"
                                    ELSE cmd.options[p].arg[i]
    BY <1>8, <1>9, <2>1
  <2>5. QED BY <1>1, <1>5, <1>6, <1>9, <1>11, <2>1, <2>2, <2>3, <2>4, BufferWritten
<1>12. QED BY <1>2, <1>4, <1>10, <1>11

\* -l: a trusted assertion.
LEMMA OptionLocalStep ==
    ASSUME IInv, OptionLocal
    PROVE  IInv'
<1>1. /\ pc = "options" /\ at <= Len(cmd.options) /\ option.opt = "l"
      /\ option.arg # None /\ AddAssertion(option.arg, TRUE)
      /\ at' = at + 1 /\ pc' = "options"
      /\ UNCHANGED <<cmd, text, pos, start, stack, token, env, authorizers, out>>
  BY DEF OptionLocal, AtOption, parserVars
<1>2. /\ cmd \in CommandLines
      /\ at \in 1 .. Len(cmd.options) /\ at \in 1 .. Size(cmd)
      /\ at + 1 \in 0 .. Size(cmd) + 1
  BY <1>1, AtAnOption
<1>3. /\ FileOf(cmd, at) = option.arg /\ option.arg \in AssertionFile
      /\ at \in OptionsOf(cmd, "l")
  <2>1. FileOf(cmd, at) = option.arg
    BY <1>1 DEF FileOf, option
  <2>2. option.arg \in AssertionFile \union {None}
    BY <1>1, <1>2, OptionTypes DEF option
  <2>3. at \in OptionsOf(cmd, "l")
    BY <1>1, <1>2, OptionTypes DEF OptionsOf, option
  <2>4. QED BY <1>1, <2>1, <2>2, <2>3
<1>4. HasAssertions(cmd, table, AssertionsOf(cmd, at))
  BY <1>1 DEF IInv, Assertions
<1>5. TRUE \in BOOLEAN /\ TRUE = (at <= Len(cmd.options))
  BY <1>1
<1>6. /\ table' \in Seq(AssertionType)
      /\ HasAssertions(cmd, table', AssertionsOf(cmd, at + 1))
      /\ Buffer'
      /\ Holds(cmd, at - 1, buf) => Holds(cmd, at, buf')
      /\ keynote_errno' = "none"
  BY <1>1, <1>2, <1>3, <1>4, <1>5, AddAssertionOK
<1>7. Typed'
  BY <1>1, <1>2, <1>6 DEF IInv, Typed, NoToken
<1>8. Stack'
  BY <1>1 DEF IInv, Stack
<1>9. /\ PairsOf(cmd, at + 1) = PairsOf(cmd, at)
      /\ KeysOf(cmd, at + 1) = KeysOf(cmd, at)
      /\ EachHasKey(cmd, at) => EachHasKey(cmd, at + 1)
  BY <1>1, <1>2, NextOption DEF option
<1>10. /\ Given("e")' <=> Given("e")
       /\ Given("k")' <=> Given("k")
  BY <1>1, <1>2, GivenFacts
<1>11. /\ Has(cmd, env', PairsOf(cmd, at + 1))
       /\ Given("e")' => env' # <<>>
       /\ ToSet(authorizers') = KeysOf(cmd, at + 1)
       /\ EachHasKey(cmd, at + 1)
       /\ Given("k")' => authorizers' # <<>>
  BY <1>1, <1>9, <1>10 DEF IInv, Attributes, Askers
<1>12. Holds(cmd, at, buf')
  BY <1>1, <1>6 DEF IInv, Askers
<1>13. QED BY <1>1, <1>6, <1>7, <1>8, <1>11, <1>12, NextOptionOK

\* An operand: an assertion that is not trusted.
LEMMA OperandStep ==
    ASSUME IInv, Operand
    PROVE  IInv'
<1>1. /\ pc = "operands" /\ at > 0 /\ cmd.operands[at] # None
      /\ AddAssertion(cmd.operands[at], FALSE)
      /\ at' = at - 1 /\ pc' = "operands"
      /\ UNCHANGED <<cmd, text, pos, start, stack, token, env, authorizers, out>>
  BY DEF Operand, parserVars
<1> DEFINE m == Len(cmd.options)
           n == Len(cmd.operands)
           p == Size(cmd) + 1 - at
<1>2. /\ cmd \in CommandLines /\ m \in Nat /\ n \in Nat /\ Size(cmd) = m + n
      /\ \A i \in 1 .. n : cmd.operands[i] \in AssertionFile \union {None}
  <2>1. cmd \in CommandLines
    BY DEF IInv, Typed
  <2>2. QED BY <2>1, OptionTypes
<1>3. at \in 0 .. n
  BY <1>1 DEF IInv, Position
<1>4. at > 0
  BY <1>1
<1> DEFINE s == Size(cmd)
<1>5. s = m + n
  BY <1>2
<1> HIDE DEF m, n, s
<1>6. /\ s + 1 - at \in 1 .. s /\ ~ (s + 1 - at <= m) /\ s + 1 - (s + 1 - at) = at
      /\ at - 1 \in 0 .. n /\ at - 1 \in 0 .. s + 1 /\ at \in 1 .. n
      /\ s + 1 - (at - 1) = (s + 1 - at) + 1
  BY <1>2, <1>3, <1>4, <1>5
<1>7. /\ p \in 1 .. Size(cmd) /\ ~ (p <= Len(cmd.options))
      /\ Size(cmd) + 1 - p = at /\ Size(cmd) + 1 - (at - 1) = p + 1
      /\ at - 1 \in 0 .. Size(cmd) + 1 /\ at - 1 \in 0 .. Len(cmd.operands)
  BY <1>6 DEF m, n, s
<1> HIDE DEF p
<1>8. FileOf(cmd, p) = cmd.operands[at] /\ FileOf(cmd, p) \in AssertionFile
      /\ FileOf(cmd, p) # None
  <2>1. FileOf(cmd, p) = cmd.operands[at]
    BY <1>7 DEF FileOf
  <2>2. cmd.operands[at] \in AssertionFile \union {None}
    BY <1>2, <1>6
  <2>3. QED BY <1>1, <2>1, <2>2
<1>9. HasAssertions(cmd, table, AssertionsOf(cmd, p))
  BY <1>1 DEF IInv, Assertions, p
<1>10. FALSE \in BOOLEAN /\ FALSE = (p <= Len(cmd.options))
  BY <1>7
<1>11. /\ table' \in Seq(AssertionType)
       /\ HasAssertions(cmd, table', AssertionsOf(cmd, p + 1))
       /\ Buffer'
       /\ keynote_errno' = "none"
  BY <1>1, <1>7, <1>8, <1>9, <1>10, AddAssertionOK
<1>12. Typed'
  BY <1>1, <1>7, <1>11 DEF IInv, Typed, NoToken
<1>13. Stack'
  BY <1>1 DEF IInv, Stack
<1>14. Position' /\ Attributes' /\ Askers'
  BY <1>1, <1>7, <1>11 DEF IInv, Position, Attributes, Askers, Unasked
<1>15. Assertions'
  BY <1>1, <1>7, <1>11 DEF Assertions
<1>16. Reports' /\ Grounds'
  BY <1>1, <1>11, Silent DEF IInv, Unasked
<1>17. QED BY <1>11, <1>12, <1>13, <1>14, <1>15, <1>16 DEF IInv

\* The end of the options.
LEMMA EndOfOptionsStep ==
    ASSUME IInv, EndOfOptions
    PROVE  IInv'
<1>1. /\ pc = "options" /\ at > Len(cmd.options)
      /\ UNCHANGED <<cmd, buf, text, pos, start, stack, token, keynote_errno, env,
                     authorizers, table, out>>
      /\ IF \A opt \in {"r", "e", "k", "l"} : Given(opt)
         THEN pc' = "operands" /\ at' = Len(cmd.operands)
         ELSE pc' = "exited" /\ at' = at
  BY DEF EndOfOptions, parserVars, sessionVars
<1> DEFINE m == Len(cmd.options)
           n == Len(cmd.operands)
           s == Size(cmd)
<1>2. cmd \in CommandLines /\ m \in Nat /\ n \in Nat /\ s = m + n
  <2>1. cmd \in CommandLines
    BY DEF IInv, Typed
  <2>2. QED BY <2>1, OptionTypes
<1>3. at \in 1 .. m + 1 /\ at > m
  BY <1>1 DEF IInv, Position
<1> HIDE DEF m, n, s
<1>4. /\ at = m + 1 /\ n \in 0 .. s + 1 /\ n \in 0 .. n /\ s + 1 - n = m + 1
      /\ at \in 0 .. s + 1 /\ at - 1 = m
  BY <1>2, <1>3
<1>5. Buffer' /\ Stack'
  BY <1>1 DEF IInv, Buffer, Stack
<1>6. Typed'
  BY <1>1, <1>4 DEF IInv, Typed, NoToken, Unasked, m, n, s
<1>7. keynote_errno' # "NOTFOUND" /\ out = <<>>
  BY <1>1 DEF IInv, Position, Unasked
<1>8. CASE pc' = "exited"
  BY <1>1, <1>5, <1>6, <1>7, <1>8, Ends DEF Unasked
<1>9. CASE pc' # "exited"
  <2>1. /\ pc' = "operands" /\ at' = n
        /\ Given("r") /\ Given("e") /\ Given("k")
    BY <1>1, <1>9 DEF n
  <2>2. OptionsOf(cmd, "r") # {}
    <3>1. PICK i \in 1 .. at - 1 : cmd.options[i].opt = "r"
      BY <2>1 DEF Given
    <3>2. i \in DOMAIN cmd.options
      <4>1. DOMAIN cmd.options = 1 .. m
        BY <1>2, OptionTypes DEF m
      <4>2. QED BY <1>4, <3>1, <4>1
    <3>3. i \in OptionsOf(cmd, "r")
      BY <3>1, <3>2 DEF OptionsOf
    <3>4. QED BY <3>3
  <2>3. Position'
    BY <1>1, <1>4, <1>7, <2>1, <2>2 DEF Position, Unasked, n
  <2>4. Attributes'
    BY <1>1, <1>4, <2>1 DEF IInv, Attributes, m
  <2>5. Askers'
    BY <1>1, <1>4, <2>1 DEF IInv, Askers, m
  <2>6. Assertions'
    <3>1. HasAssertions(cmd, table, AssertionsOf(cmd, s + 1 - n))
      BY <1>1, <1>4 DEF IInv, Assertions
    <3>2. QED BY <1>1, <2>1, <3>1 DEF Assertions, s
  <2>7. Reports' /\ Grounds'
    BY <1>1, <1>7, <2>1, Silent DEF IInv, Unasked
  <2>8. QED BY <1>5, <1>6, <2>3, <2>4, <2>5, <2>6, <2>7 DEF IInv
<1>10. QED BY <1>8, <1>9

\* The end of the operands.
LEMMA EndOfOperandsStep ==
    ASSUME IInv, EndOfOperands
    PROVE  IInv'
<1>1. /\ pc = "operands" /\ at = 0 /\ pc' = "query" /\ at' = at
      /\ UNCHANGED <<cmd, buf, text, pos, start, stack, token, keynote_errno, env,
                     authorizers, table, out>>
  BY DEF EndOfOperands, parserVars, sessionVars
<1>2. Typed' /\ Buffer' /\ Stack'
  BY <1>1 DEF IInv, Typed, Buffer, Stack, NoToken, Unasked
<1>3. Position' /\ Attributes' /\ Askers'
  BY <1>1 DEF IInv, Position, Attributes, Askers, Unasked
<1>4. Assertions'
  <2>1. Size(cmd) + 1 - at = Size(cmd) + 1
    <3>1. Size(cmd) \in Nat
      BY OptionTypes DEF IInv, Typed
    <3>2. QED BY <1>1, <3>1
  <2>2. QED BY <1>1, <2>1 DEF IInv, Assertions
<1>5. Reports' /\ Grounds'
  <2>1. keynote_errno' # "NOTFOUND"
    BY <1>1 DEF IInv, Position, Unasked
  <2>2. QED BY <1>1, <2>1, Silent DEF IInv, Unasked
<1>6. QED BY <1>2, <1>3, <1>4, <1>5 DEF IInv


-------------------------------------------------------------------------------
(***************************************************************************)
(* The parser starts.                                                      *)
(***************************************************************************)

\* The parser's first stack.
LEMMA FirstStack ==
    ASSUME NEW bytes \in Seq(Byte), NEW condition, Parse(bytes, condition)
    PROVE  /\ IsPath(stack') /\ Len(stack') < YYMAXDEPTH /\ stack' # <<>>
           /\ text' = bytes /\ pos' = 0 /\ start' = condition /\ token' = NoToken
           /\ token' \in Token /\ token'.t = "none" /\ state' = 0 /\ pc' = "parse"
<1>1. /\ text' = bytes /\ pos' = 0 /\ start' = condition /\ pc' = "parse"
      /\ stack' = <<[state |-> 0, v |-> None]>> /\ token' = NoToken
  BY DEF Parse
<1>2. [state |-> 0, v |-> None] \in Entry
  BY DEF Entry, Semantic
<1>3. /\ stack' \in Seq(Entry) /\ Len(stack') = 1 /\ stack'[1].state = 0
      /\ stack' # <<>>
  BY <1>1, <1>2
<1>4. IsPath(stack')
  BY <1>3 DEF IsPath
<1>5. Len(stack') < YYMAXDEPTH
  BY <1>3, CommandAssumption
<1>6. state' = 0
  BY <1>3 DEF state, Last
<1>7. token' \in Token /\ token'.t = "none"
  BY <1>1 DEF NoToken, Token, Semantic
<1>8. QED BY <1>1, <1>3, <1>4, <1>5, <1>6, <1>7

\* Nothing is read of a file.
LEMMA FileStart ==
    ASSUME NEW file \in File, NEW c, NEW k
    PROVE  /\ Lexed(file, 0, 0, "FIRSTPART") /\ ReadPairs(file, 0) = {}
           /\ AndHere(c, k, {}) = PairsOf(c, k)
<1>1. Read(file, 0) /\ ReadPairs(file, 0) = {}
  BY ReadStart
<1>2. Lexed(file, 0, 0, "FIRSTPART")
  BY <1>1 DEF Lexed
<1>3. QED BY <1>1, <1>2 DEF AndHere

\* -e: a file of attributes.
LEMMA ReadEnvironmentStep ==
    ASSUME IInv, read_environment
    PROVE  IInv'
<1>1. /\ pc = "options" /\ at <= Len(cmd.options) /\ option.opt = "e"
      /\ option.arg # None /\ Parse(option.arg, "FIRSTPART")
      /\ UNCHANGED <<cmd, at, buf, keynote_errno, env, authorizers, table, out>>
  BY DEF read_environment, AtOption, sessionVars
<1>2. /\ cmd \in CommandLines /\ at \in 1 .. Len(cmd.options)
  BY <1>1, AtAnOption
<1>3. option.arg \in File /\ option.arg \in Seq(Byte) /\ Len(option.arg) \in Nat
  <2>1. option.arg \in File \union {None}
    BY <1>1, <1>2, OptionTypes DEF option
  <2>2. QED BY <1>1, <2>1 DEF File
<1>4. /\ IsPath(stack') /\ Len(stack') < YYMAXDEPTH /\ stack' # <<>>
      /\ text' = option.arg /\ pos' = 0 /\ start' = "FIRSTPART"
      /\ token' = NoToken /\ token' \in Token /\ token'.t = "none"
      /\ state' = 0 /\ pc' = "parse"
  BY <1>1, <1>3, FirstStack
<1>5. Stack' /\ Buffer'
  BY <1>1, <1>4 DEF IInv, Stack, Buffer
<1>6. Typed'
  <2>1. pos' \in 0 .. Len(text')
    BY <1>3, <1>4
  <2>2. QED BY <1>1, <1>3, <1>4, <2>1 DEF IInv, Typed, Unasked, NoToken
<1>7. option' = option
  BY <1>1 DEF option
<1>8. Position'
  BY <1>1, <1>2, <1>3, <1>4, <1>7 DEF IInv, Position, Unasked
<1>9. Reports' /\ Grounds'
  <2>1. keynote_errno' # "NOTFOUND"
    BY <1>1 DEF IInv, Position, Unasked
  <2>2. QED BY <1>1, <1>4, <2>1, Silent DEF IInv, Unasked
<1>10. Assertions'
  BY <1>1, <1>4 DEF IInv, Assertions
<1>11. /\ Given("e")' <=> Given("e")
       /\ Given("k")' <=> Given("k")
  BY <1>1, GivenFacts
<1>12. Reading'
  <2>1. /\ Lexed(option.arg, 0, 0, "FIRSTPART")
        /\ Has(cmd, env, AndHere(cmd, at, ReadPairs(option.arg, 0)))
    <3>1. Has(cmd, env, PairsOf(cmd, at))
      BY <1>1 DEF IInv, Attributes
    <3>2. /\ Lexed(option.arg, 0, 0, "FIRSTPART")
          /\ AndHere(cmd, at, ReadPairs(option.arg, 0)) = PairsOf(cmd, at)
      BY <1>3, FileStart
    <3>3. QED BY <3>1, <3>2
  <2>2. BeforeString(0)'
    BY <1>1, <1>4, <1>7, <2>1 DEF BeforeString, At
  <2>3. /\ text' = option'.arg /\ 0 \in Nat
        /\ Lexed(option'.arg, 0, pos', start')
    BY <1>4, <1>7, <2>1
  <2>4. QED BY <2>2, <2>3 DEF Reading
<1>13. Attributes'
  BY <1>1, <1>4, <1>7, <1>11, <1>12 DEF IInv, Attributes
<1>14. Holds(cmd, at, buf)
  <2>1. Holds(cmd, at - 1, buf)
    BY <1>1 DEF IInv, Askers
  <2>2. QED BY <1>1, <1>2, <2>1, HoldsOn DEF option
<1>15. Askers'
  <2>1. Holds(cmd, at, buf)'
    BY <1>1, <1>14
  <2>2. /\ Given("k")' => authorizers' # <<>>
        /\ (ToSet(authorizers) = KeysOf(cmd, at))' /\ EachHasKey(cmd, at)'
    BY <1>1, <1>11 DEF IInv, Askers
  <2>3. QED BY <1>1, <1>4, <1>7, <2>1, <2>2 DEF Askers
<1>16. QED BY <1>5, <1>6, <1>8, <1>9, <1>10, <1>13, <1>15 DEF IInv

\* The string in a buffer that has a zero byte: the bytes before the first.
LEMMA StringFacts ==
    ASSUME NEW b \in Seq(Byte), b # <<>>, Last(b) = "zero"
    PROVE  LET s == String(b)
           IN  /\ s \in Seq(Byte) /\ Len(s) \in Nat /\ Len(s) < Len(b)
               /\ \A i \in 1 .. Len(s) : s[i] = b[i] /\ b[i] # "zero"
               /\ b[Len(s) + 1] = "zero"
<1> DEFINE I == {i \in 1 .. Len(b) : b[i] = "zero"}
           f == SelectInSeq(b, LAMBDA c : c = "zero")
           s == SubSeq(b, 1, f - 1)
<1>1. f = IF I # {} THEN Min(I) ELSE 0
  BY DEF SelectInSeq
<1>2. Len(b) \in Nat /\ Len(b) \in I
  BY DEF Last
<1>3. /\ f \in 1 .. Len(b) /\ b[f] = "zero"
      /\ \A i \in 1 .. f - 1 : b[i] # "zero"
  <2>1. I \in SUBSET (1 .. Len(b)) /\ I # {}
    BY <1>2
  <2>2. \A i \in 1 .. Len(b) : i \in I <=> b[i] = "zero"
    OBVIOUS
  <2> HIDE DEF I, f
  <2>3. /\ f \in 0 .. Len(b)
        /\ f # 0 => f \in I /\ \A i \in 1 .. f - 1 : i \notin I
        /\ f = 0 => I = {}
    BY <1>1, <1>2, <2>1, FirstPlace
  <2>4. f \in 1 .. Len(b) /\ f \in I /\ \A i \in 1 .. f - 1 : i \notin I
    BY <2>1, <2>3
  <2>5. ASSUME NEW i \in 1 .. f - 1 PROVE i \in 1 .. Len(b)
    BY <1>2, <2>4
  <2>6. QED BY <2>2, <2>4, <2>5
<1> HIDE DEF f
<1>4. f - 1 \in Nat /\ f - 1 < Len(b) /\ (f - 1) + 1 = f
  BY <1>2, <1>3
<1>5. /\ s \in Seq(Byte) /\ Len(s) = f - 1
      /\ \A i \in 1 .. f - 1 : s[i] = b[i]
  <2>1. ASSUME NEW i \in 1 .. f - 1 PROVE b[i] \in Byte
    <3>1. i \in 1 .. Len(b)
      BY <1>2, <1>3
    <3>2. QED BY <3>1
  <2>2. /\ SubSeq(b, 1, f - 1) \in Seq(Byte)
        /\ Len(SubSeq(b, 1, f - 1)) = IF 1 <= f - 1 THEN (f - 1) - 1 + 1 ELSE 0
        /\ \A i \in 1 .. (f - 1) - 1 + 1 : SubSeq(b, 1, f - 1)[i] = b[1 + i - 1]
    <3>1. 1 \in Int /\ f - 1 \in Int
      BY <1>4
    <3>2. QED BY <2>1, <3>1, SubSeqProperties
  <2>3. (f - 1) - 1 + 1 = f - 1 /\ (~ (1 <= f - 1) => f - 1 = 0)
        /\ \A i \in 1 .. f - 1 : 1 + i - 1 = i
    <3>1. \A k \in Nat : /\ k - 1 + 1 = k /\ (~ (1 <= k) => k = 0)
                         /\ \A i \in 1 .. k : 1 + i - 1 = i
      OBVIOUS
    <3>2. QED BY <1>4, <3>1
  <2>4. QED BY <2>2, <2>3
<1> HIDE DEF s
<1>6. QED BY <1>3, <1>4, <1>5 DEF String, s, f

\* What option i leaves in the buffer, as a string, is the text of it.
LEMMA StringIsText ==
    ASSUME NEW c \in CommandLines, NEW i \in 1 .. Len(c.options),
           NEW b \in Seq(Byte), b # <<>>, Last(b) = "zero", Holds(c, i, b)
    PROVE  String(b) = TextOf(c, i)
<1> DEFINE s == String(b)
           n == Len(s)
           W == OptionsOf(c, "k") \union OptionsOf(c, "l")
           written == UNION {1 .. SizeOf(c, j) : j \in WritersOf(c, i, 1)}
           D == {m \in written : \A k \in 1 .. m : WrittenOf(c, i, k) # "zero"}
<1>1. /\ s \in Seq(Byte) /\ n \in Nat /\ n < Len(b)
      /\ \A k \in 1 .. n : s[k] = b[k] /\ b[k] # "zero"
      /\ b[n + 1] = "zero"
  BY StringFacts
<1>2. DOMAIN s = 1 .. n
  <2>1. \A t \in Seq(Byte) : DOMAIN t = 1 .. Len(t)
    OBVIOUS
  <2> HIDE DEF s
  <2>2. QED BY <1>1, <2>1
<1>3. Len(b) \in Nat
  OBVIOUS
<1> HIDE DEF s, n
<1>4. /\ \A j \in W : j <= i => SizeOf(c, j) \in Nat /\ SizeOf(c, j) < Len(b)
      /\ \A k \in 1 .. Len(b) : b[k] = WrittenOf(c, i, k)
  BY DEF Holds
<1>5. /\ \A k \in 1 .. n : /\ k \in 1 .. Len(b) /\ s[k] = WrittenOf(c, i, k)
                           /\ WrittenOf(c, i, k) # "zero"
      /\ WrittenOf(c, i, n + 1) = "zero"
  <2>1. n + 1 \in 1 .. Len(b) /\ \A k \in 1 .. n : k \in 1 .. Len(b)
    BY <1>1, <1>3
  <2>2. QED BY <1>1, <1>4, <2>1
<1>6. ASSUME NEW m \in 1 .. n PROVE m \in D
  <2>1. WrittenOf(c, i, m) # "zero"
    BY <1>5
  <2>2. PICK j : j \in WritersOf(c, i, m)
    BY <2>1 DEF WrittenOf
  <2>3. j \in W /\ j <= i /\ m <= SizeOf(c, j)
    BY <2>2 DEF WritersOf
  <2>4. SizeOf(c, j) \in Nat
    BY <1>4, <2>3
  <2>5. 1 <= SizeOf(c, j) /\ m \in 1 .. SizeOf(c, j)
    BY <2>3, <2>4
  <2>6. j \in WritersOf(c, i, 1)
    BY <2>3, <2>5 DEF WritersOf
  <2>7. m \in written
    BY <2>5, <2>6
  <2>8. \A k \in 1 .. m : k \in 1 .. n
    BY <1>1
  <2>9. QED BY <1>5, <2>7, <2>8
<1>7. ASSUME NEW m \in D PROVE m \in 1 .. n
  <2>1. PICK j \in WritersOf(c, i, 1) : m \in 1 .. SizeOf(c, j)
    OBVIOUS
  <2>2. j \in W /\ j <= i
    BY DEF WritersOf
  <2>3. SizeOf(c, j) \in Nat
    BY <1>4, <2>2
  <2>4. m \in Nat /\ 1 <= m
    BY <2>1, <2>3
  <2>5. ~ (n + 1 \in 1 .. m)
    BY <1>5
  <2>6. QED BY <1>1, <2>4, <2>5
<1>8. D = 1 .. n
  BY <1>6, <1>7
<1>9. TextOf(c, i) = [k \in D |-> WrittenOf(c, i, k)]
  BY DEF TextOf
<1> HIDE DEF D
<1>10. s = [k \in 1 .. n |-> s[k]]
  BY <1>1, <1>2
<1>11. [k \in 1 .. n |-> s[k]] = [k \in 1 .. n |-> WrittenOf(c, i, k)]
  BY <1>5
<1>12. s = TextOf(c, i)
  BY <1>8, <1>9, <1>10, <1>11
<1>13. QED BY <1>12 DEF s

\* -k: a file of keys, over what the buffer had before.
LEMMA ParseKeyStep ==
    ASSUME IInv, parse_key
    PROVE  IInv'
<1>1. /\ pc = "options" /\ at <= Len(cmd.options) /\ option.opt = "k"
      /\ option.arg # None
      /\ buf' = Over(option.arg, Fresh(Len(option.arg)))
      /\ Parse(String(buf'), "KEYSTATE")
      /\ UNCHANGED <<cmd, at, keynote_errno, env, authorizers, table, out>>
  BY DEF parse_key, AtOption, sessionVars
<1>2. /\ cmd \in CommandLines /\ at \in 1 .. Len(cmd.options) /\ at \in Nat
  BY <1>1, AtAnOption
<1> DEFINE file == option.arg
           n == Len(file)
<1>3. file \in File /\ n \in Nat /\ file \in [1 .. n -> Byte]
  <2>1. option.arg \in File \union {None}
    BY <1>1, <1>2, OptionTypes DEF option
  <2>2. QED BY <1>1, <2>1 DEF File
<1>4. Buffer
  BY DEF IInv
<1>5. buf' = [i \in DOMAIN Fresh(n) |-> IF i <= n THEN file[i] ELSE Fresh(n)[i]]
  BY <1>1 DEF Over
<1>6. n = SizeOf(cmd, at)
  BY <1>1, <1>2, OptionTypes DEF SizeOf, OptionsOf, option
<1>7. file = cmd.options[at].arg /\ cmd.options[at].opt = "k"
  BY <1>1 DEF option
<1> HIDE DEF file, n
<1>8. /\ buf' \in Seq(Byte) /\ buf' # <<>> /\ Last(buf') = "zero"
      /\ Len(buf') \in Nat /\ n < Len(buf') /\ Len(buf) <= Len(buf')
      /\ \A i \in 1 .. n : i \in 1 .. Len(buf') /\ buf'[i] = file[i]
      /\ \A i \in 1 .. Len(buf') : i > n =>
             \/ i \in 1 .. Len(buf) /\ buf'[i] = buf[i]
             \/ i > Len(buf) /\ buf'[i] = "zero"
  BY <1>3, <1>4, <1>5, OverwrittenOK
<1>9. Buffer'
  BY <1>8 DEF Buffer
<1>10. Holds(cmd, at, buf')
  <2>1. Holds(cmd, at - 1, buf)
    BY <1>1 DEF IInv, Askers
  <2>2. \A i \in 1 .. n : buf'[i] = IF cmd.options[at].opt = "l" THEN "zero"
                                    ELSE cmd.options[at].arg[i]
    BY <1>7, <1>8
  <2>3. QED BY <1>2, <1>3, <1>4, <1>6, <1>7, <1>8, <2>1, <2>2, BufferWritten
<1> DEFINE s == String(buf')
<1>11. s = TextOf(cmd, at)
  BY <1>2, <1>8, <1>10, StringIsText
<1>12. s \in Seq(Byte) /\ Len(s) \in Nat
  BY <1>8, StringFacts
<1>13. Parse(s, "KEYSTATE")
  BY <1>1
<1> HIDE DEF s
<1>14. /\ IsPath(stack') /\ Len(stack') < YYMAXDEPTH /\ stack' # <<>>
       /\ text' = s /\ pos' = 0 /\ start' = "KEYSTATE" /\ token' = NoToken
       /\ token' \in Token /\ token'.t = "none" /\ state' = 0 /\ pc' = "parse"
  BY <1>12, <1>13, FirstStack
<1>15. Stack'
  BY <1>14 DEF Stack
<1>16. Typed'
  <2>1. pos' \in 0 .. Len(text')
    BY <1>12, <1>14
  <2>2. QED BY <1>1, <1>12, <1>14, <2>1 DEF IInv, Typed, Unasked, NoToken
<1>17. option' = option
  BY <1>1 DEF option
<1>18. Position'
  BY <1>1, <1>2, <1>3, <1>14, <1>17 DEF IInv, Position, Unasked, file
<1>19. Reports' /\ Grounds'
  <2>1. keynote_errno' # "NOTFOUND"
    BY <1>1 DEF IInv, Position, Unasked
  <2>2. QED BY <1>1, <1>14, <2>1, Silent DEF IInv, Unasked
<1>20. Assertions'
  BY <1>1, <1>14 DEF IInv, Assertions
<1>21. /\ Given("e")' <=> Given("e")
       /\ Given("k")' <=> Given("k")
  BY <1>1, GivenFacts
<1>22. Attributes'
  BY <1>1, <1>14, <1>17, <1>21 DEF IInv, Attributes
<1>23. ToSet(authorizers) = KeysOf(cmd, at) /\ EachHasKey(cmd, at)
  BY <1>1 DEF IInv, Askers
<1>24. ReadingKey'
  BY <1>1, <1>11, <1>14, <1>23 DEF ReadingKey, BeforeKey, At
<1>25. Askers'
  <2>1. Given("k")' => authorizers' # <<>>
    BY <1>1, <1>21 DEF IInv, Askers
  <2>2. QED BY <1>1, <1>10, <1>14, <1>17, <1>23, <1>24, <2>1 DEF Askers
<1>26. QED BY <1>9, <1>15, <1>16, <1>18, <1>19, <1>20, <1>22, <1>25 DEF IInv

-------------------------------------------------------------------------------
(***************************************************************************)
(* The lexer, within the parser.                                           *)
(***************************************************************************)

\* What is known while a file is parsed.
LEMMA InParse ==
    ASSUME IInv, pc = "parse"
    PROVE  /\ cmd \in CommandLines /\ at \in 1 .. Len(cmd.options)
           /\ option.opt \in {"e", "k"} /\ option.arg \in File
           /\ out = <<>> /\ keynote_errno \in {"none", "SYNTAX"}
           /\ IsPath(stack) /\ stack \in Seq(Entry) /\ Len(stack) \in Nat
           /\ Len(stack) >= 1 /\ Len(stack) < YYMAXDEPTH
           /\ stack[Len(stack)] \in Entry /\ state = stack[Len(stack)].state
           /\ state \in 0 .. 9 /\ stack[Len(stack)] = Last(stack)
           /\ text \in Seq(Byte) /\ Len(text) \in Nat /\ pos \in 0 .. Len(text)
           /\ token \in Token /\ (token.t = "none" <=> token = NoToken)
           /\ token.t \in {"STRING", "VSTRING"} => token.v \in Texts
<1>1. /\ cmd \in CommandLines /\ at \in 1 .. Len(cmd.options)
      /\ option.opt \in {"e", "k"} /\ option.arg \in File
      /\ out = <<>> /\ keynote_errno \in {"none", "SYNTAX"}
  BY DEF IInv, Typed, Position, Unasked
<1>2. IsPath(stack) /\ stack \in Seq(Entry) /\ stack # <<>> /\ Len(stack) < YYMAXDEPTH
  BY DEF IInv, Stack, IsPath
<1>3. Len(stack) \in Nat /\ Len(stack) >= 1 /\ stack[Len(stack)] \in Entry
  BY <1>2
<1>4. state = stack[Len(stack)].state /\ stack[Len(stack)] = Last(stack)
  BY DEF state, Last
<1>5. state \in 0 .. 9
  BY <1>3, <1>4 DEF Entry
<1>6. /\ text \in Seq(Byte) /\ Len(text) \in Nat /\ pos \in 0 .. Len(text)
      /\ token \in Token /\ (token.t = "none" <=> token = NoToken)
      /\ token.t \in {"STRING", "VSTRING"} => token.v \in Texts
  BY DEF IInv, Typed, NoToken
<1>7. QED BY <1>1, <1>2, <1>3, <1>4, <1>5, <1>6

\* A step of the parser that goes on parsing.
LEMMA GoesOn ==
    ASSUME IInv, pc = "parse", UNCHANGED <<cmd, at, pc, buf, table, out>>,
           keynote_errno' # "NOTFOUND", Typed', Stack',
           option.opt = "e" => Reading' /\ UNCHANGED authorizers,
           option.opt = "k" => ReadingKey' /\ UNCHANGED env,
           env # <<>> => env' # <<>>,
           authorizers # <<>> => authorizers' # <<>>
    PROVE  IInv'
<1>1. option' = option /\ pc' = "parse"
  BY DEF option
<1>2. Buffer' /\ Assertions'
  BY DEF IInv, Buffer, Assertions
<1>3. Position'
  BY <1>1, InParse DEF Position, Unasked
<1>4. Reports' /\ Grounds'
  BY <1>1, Silent DEF IInv, Unasked
<1>5. /\ Given("e")' <=> Given("e")
      /\ Given("k")' <=> Given("k")
  BY GivenFacts
<1>6. Attributes'
  BY <1>1, <1>5 DEF IInv, Attributes
<1>7. Askers'
  <2>1. Holds(cmd, at, buf) /\ Holds(cmd, at, buf)' /\ EachHasKey(cmd, at)'
    BY DEF IInv, Askers
  <2>2. QED BY <1>1, <1>5, <2>1 DEF IInv, Askers
<1>8. QED BY <1>2, <1>3, <1>4, <1>6, <1>7 DEF IInv

\* What the lexer does: it comes to the end, or it takes a token by a rule.
Here == Begin(text, pos, start \in {"FIRSTPART", "KEYSTATE"})
LexesEnd ==
    /\ token' = [t |-> "$end", v |-> None] /\ start' = start
    /\ \/ /\ Here > Len(text) /\ pos' = Len(text)
          /\ keynote_errno' = keynote_errno
       \/ /\ Here <= Len(text) /\ pos' = Here
          /\ \A r \in Rules : r.in = start => r.t # Class(text, Here)
          /\ keynote_errno' = "SYNTAX"
Lexes(r) ==
    /\ r.in = start /\ r.t = Class(text, Here)
    /\ token' = [t |-> r.token, v |-> Value(text, Here)] /\ start' = r.next
    /\ pos' = End(text, Here)
    /\ keynote_errno' = keynote_errno

\* A step of the lexer is its end of input or one of its rules.
LEMMA LexerCases ==
    ASSUME IInv, kvlex
    PROVE  /\ pc = "parse" /\ token.t = "none" /\ state \in {0, 2, 3, 5, 7, 8}
           /\ UNCHANGED <<cmd, at, pc, buf, text, stack, env, authorizers, table, out>>
           /\ LexesEnd \/ \E r \in Rules : Lexes(r)
<1>1. /\ pc = "parse" /\ token = NoToken /\ state \in {0, 2, 3, 5, 7, 8}
      /\ UNCHANGED <<cmd, at, pc, buf, text, stack, env, authorizers, table, out>>
  BY DEF kvlex, NeedsToken, state, sessionVars
<1>2. LET rules == {r \in Rules : r.in = start /\ r.t = Class(text, Here)}
      IN  \/ /\ Here > Len(text)
             /\ token' = [t |-> "$end", v |-> None]
             /\ pos' = Len(text)
             /\ UNCHANGED <<start, keynote_errno>>
          \/ /\ Here <= Len(text) /\ rules = {}
             /\ token' = [t |-> "$end", v |-> None]
             /\ pos' = Here
             /\ keynote_errno' = "SYNTAX"
             /\ UNCHANGED start
          \/ /\ \E r \in rules :
                    token' = [t |-> r.token, v |-> Value(text, Here)] /\ start' = r.next
             /\ pos' = End(text, Here)
             /\ UNCHANGED keynote_errno
  BY DEF kvlex, Here
<1>3. token.t = "none"
  BY <1>1 DEF NoToken
<1>4. LexesEnd \/ \E r \in Rules : Lexes(r)
  BY <1>2 DEF LexesEnd, Lexes
<1>5. QED BY <1>1, <1>3, <1>4

\* The next token is behind where the lexer is, and within the text.
LEMMA HereFacts ==
    ASSUME IInv, pc = "parse"
    PROVE  /\ Here \in pos + 1 .. Len(text) + 1 /\ Here \in Nat \ {0}
           /\ Here > Len(text) <=> Class(text, Here) = "end"
           /\ Class(text, Here) # "end" => End(text, Here) \in pos + 1 .. Len(text)
<1>1. text \in Seq(Byte) /\ Len(text) \in Nat /\ pos \in 0 .. Len(text)
  BY InParse
<1>2. Here \in pos + 1 .. Len(text) + 1
  BY <1>1, BeginFacts DEF Here
<1>3. Here \in Nat \ {0}
  BY <1>1, <1>2
<1>4. Here > Len(text) <=> Class(text, Here) = "end"
  BY <1>1, <1>3, ClassFacts
<1>5. Class(text, Here) # "end" => End(text, Here) \in pos + 1 .. Len(text)
  BY <1>1, TokenFacts DEF Here
<1>6. QED BY <1>2, <1>3, <1>4, <1>5

\* The types of what the lexer leaves.
LEMMA LexerTypes ==
    ASSUME IInv, kvlex
    PROVE  /\ Typed' /\ Stack' /\ keynote_errno' # "NOTFOUND"
           /\ state' = state /\ option' = option
<1>1. /\ pc = "parse" /\ token.t = "none"
      /\ UNCHANGED <<cmd, at, pc, buf, text, stack, env, authorizers, table, out>>
      /\ LexesEnd \/ \E r \in Rules : Lexes(r)
  BY LexerCases
<1>2. /\ text \in Seq(Byte) /\ Len(text) \in Nat /\ pos \in 0 .. Len(text)
      /\ Here \in pos + 1 .. Len(text) + 1 /\ Here \in Nat
      /\ Class(text, Here) # "end" => End(text, Here) \in pos + 1 .. Len(text)
      /\ keynote_errno \in {"none", "SYNTAX"}
      /\ start \in {"INITIAL", "FIRSTPART", "MIDDLEPART", "SECONDPART", "KEYSTATE"}
  <2>1. start \in {"INITIAL", "FIRSTPART", "MIDDLEPART", "SECONDPART", "KEYSTATE"}
    BY DEF IInv, Typed
  <2>2. QED BY <1>1, <2>1, InParse, HereFacts
<1>3. /\ pos' \in 0 .. Len(text)
      /\ token' \in Token /\ token'.t # "none"
      /\ token'.t \in {"STRING", "VSTRING"} => token'.v \in Texts
      /\ start' \in {"INITIAL", "FIRSTPART", "MIDDLEPART", "SECONDPART", "KEYSTATE"}
      /\ keynote_errno' \in {"none", "SYNTAX"}
  <2>1. CASE LexesEnd
    <3>1. token' \in Token /\ token'.t = "$end"
      BY <2>1 DEF LexesEnd, Token, Semantic
    <3>2. start' = start /\ keynote_errno' \in {"none", "SYNTAX"}
      BY <1>2, <2>1 DEF LexesEnd
    <3>3. pos' \in 0 .. Len(text)
      <4>1. pos' = Len(text) \/ (pos' = Here /\ Here <= Len(text))
        BY <2>1 DEF LexesEnd
      <4>2. QED BY <1>2, <4>1
    <3>4. QED BY <1>2, <3>1, <3>2, <3>3
  <2>2. CASE \E r \in Rules : Lexes(r)
    <3>1. PICK r \in Rules : Lexes(r)
      BY <2>2
    <3>2. /\ r.token \in {"VSTRING", "EQ", "STRING"}
          /\ r.token \in {"VSTRING", "STRING"} <=> r.t \in {"word", "string"}
          /\ r.t \in {"word", "eq", "string"}
          /\ r.next \in {"FIRSTPART", "MIDDLEPART", "SECONDPART"}
      BY DEF Rules
    <3>3. /\ token' = [t |-> r.token, v |-> Value(text, Here)] /\ start' = r.next
          /\ pos' = End(text, Here) /\ keynote_errno' = keynote_errno
          /\ r.t = Class(text, Here)
      BY <3>1 DEF Lexes
    <3>4. Value(text, Here) \in Texts
      BY <1>2 DEF Texts
    <3>5. token' \in Token /\ token'.t # "none" /\ token'.v \in Texts
      BY <3>2, <3>3, <3>4 DEF Token, Semantic
    <3>6. pos' \in 0 .. Len(text)
      <4>1. End(text, Here) \in pos + 1 .. Len(text)
        BY <1>2, <3>2, <3>3
      <4>2. QED BY <1>2, <3>3, <4>1
    <3>7. QED BY <1>2, <3>2, <3>3, <3>5, <3>6
  <2>3. QED BY <1>1, <2>1, <2>2
<1>4. Typed'
  BY <1>1, <1>3 DEF IInv, Typed
<1>5. Stack'
  BY <1>1 DEF IInv, Stack
<1>6. state' = state /\ option' = option
  BY <1>1 DEF state, option
<1>7. QED BY <1>3, <1>4, <1>5, <1>6

\* What the lexer has read after it took a token of a file of attributes.
LEMMA LexedOn ==
    ASSUME NEW file \in File, text = file, NEW e, Lexed(file, e, pos, start),
           start \in {"FIRSTPART", "MIDDLEPART", "SECONDPART"},
           NEW r \in Rules, Lexes(r)
    PROVE  /\ start = "FIRSTPART" =>
                  /\ r.t = "word" /\ token'.t = "VSTRING" /\ start' = "MIDDLEPART"
                  /\ token'.v = Name(file, e)
                  /\ Lexed(file, e, pos', start')
           /\ start = "MIDDLEPART" =>
                  /\ r.t = "eq" /\ token'.t = "EQ" /\ start' = "SECONDPART"
                  /\ Lexed(file, e, pos', start')
           /\ start = "SECONDPART" =>
                  /\ r.t = "string" /\ token'.t = "STRING" /\ start' = "FIRSTPART"
                  /\ IsPair(file, e) /\ PairEnd(file, e) \in Nat
                  /\ Lexed(file, PairEnd(file, e), pos', start')
                  /\ Pair(file, e) = <<Name(file, e), token'.v>>
<1>1. /\ r.in = start /\ r.t = Class(file, Here)
      /\ token'.t = r.token /\ token'.v = Value(file, Here) /\ start' = r.next
      /\ pos' = End(file, Here)
  BY DEF Lexes
<1>2. Read(file, e)
  BY DEF Lexed
<1>3. ASSUME start = "FIRSTPART"
      PROVE  /\ r.t = "word" /\ token'.t = "VSTRING" /\ start' = "MIDDLEPART"
             /\ token'.v = Name(file, e)
             /\ Lexed(file, e, pos', start')
  <2>1. r.t = "word" /\ r.token = "VSTRING" /\ r.next = "MIDDLEPART"
    BY <1>1, <1>3 DEF Rules
  <2>2. Here = PairName(file, e)
    <3>1. (start \in {"FIRSTPART", "KEYSTATE"}) = TRUE /\ pos = e
      BY <1>3 DEF Lexed
    <3>2. QED BY <3>1 DEF Here, PairName
  <2>3. token'.v = Name(file, e)
    BY <1>1, <2>2 DEF Name
  <2>4. QED BY <1>1, <1>2, <2>1, <2>2, <2>3 DEF Lexed
<1>4. ASSUME start = "MIDDLEPART"
      PROVE  /\ r.t = "eq" /\ token'.t = "EQ" /\ start' = "SECONDPART"
             /\ Lexed(file, e, pos', start')
  <2>1. r.t = "eq" /\ r.token = "EQ" /\ r.next = "SECONDPART"
    BY <1>1, <1>4 DEF Rules
  <2>2. /\ Here = PairEquals(file, e)
        /\ Class(file, PairName(file, e)) = "word"
    <3>1. /\ (start \in {"FIRSTPART", "KEYSTATE"}) = FALSE
          /\ pos = End(file, PairName(file, e))
          /\ Class(file, PairName(file, e)) = "word"
      BY <1>4 DEF Lexed
    <3>2. QED BY <3>1 DEF Here, PairEquals
  <2>3. QED BY <1>1, <1>2, <2>1, <2>2 DEF Lexed
<1>5. ASSUME start = "SECONDPART"
      PROVE  /\ r.t = "string" /\ token'.t = "STRING" /\ start' = "FIRSTPART"
             /\ IsPair(file, e) /\ PairEnd(file, e) \in Nat
             /\ Lexed(file, PairEnd(file, e), pos', start')
             /\ Pair(file, e) = <<Name(file, e), token'.v>>
  <2>1. r.t = "string" /\ r.token = "STRING" /\ r.next = "FIRSTPART"
    BY <1>1, <1>5 DEF Rules
  <2>2. /\ Here = PairString(file, e)
        /\ Class(file, PairName(file, e)) = "word"
        /\ Class(file, PairEquals(file, e)) = "eq"
    <3>1. /\ (start \in {"FIRSTPART", "KEYSTATE"}) = FALSE
          /\ pos = End(file, PairEquals(file, e))
          /\ Class(file, PairName(file, e)) = "word"
          /\ Class(file, PairEquals(file, e)) = "eq"
      BY <1>5 DEF Lexed
    <3>2. QED BY <3>1 DEF Here, PairString
  <2>3. IsPair(file, e)
    BY <1>1, <2>1, <2>2 DEF IsPair
  <2>4. PairEnd(file, e) \in e + 1 .. Len(file) /\ Read(file, PairEnd(file, e))
    BY <1>2, <2>3, NextPair
  <2>5. PairEnd(file, e) \in Nat
    <3>1. e \in Nat /\ Len(file) \in Nat
      BY <1>2, MetFacts
    <3>2. QED BY <2>4, <3>1
  <2>6. pos' = PairEnd(file, e)
    BY <1>1, <2>2 DEF PairEnd
  <2>7. Pair(file, e) = <<Name(file, e), token'.v>>
    BY <1>1, <2>2 DEF Pair, Name
  <2>8. QED BY <1>1, <2>1, <2>3, <2>4, <2>5, <2>6, <2>7 DEF Lexed
<1>6. QED BY <1>3, <1>4, <1>5

\* Where the parser asks for a token of a file of attributes.
LEMMA AsksForPair ==
    ASSUME IInv, pc = "parse", option.opt = "e", token.t = "none",
           state \in {0, 2, 3, 5, 7, 8}
    PROVE  /\ text = option.arg
           /\ \E e \in Nat :
                  /\ Lexed(option.arg, e, pos, start)
                  /\ \/ /\ BeforeString(e)
                        /\ \/ state = 0 /\ start = "FIRSTPART"
                           \/ state = 2 /\ start = "MIDDLEPART"
                           \/ state = 5 /\ start = "SECONDPART"
                     \/ BehindString(e) /\ state = 7 /\ start = "FIRSTPART"
<1>1. Reading
  BY DEF IInv, Attributes
<1>2. ~ LastPair /\ ~ AllPairs /\ ~ NoPair /\ \A e : ~ AtString(e)
  BY DEF LastPair, AllPairs, NoPair, AtString, At
<1>3. PICK e \in Nat : /\ text = option.arg /\ Lexed(option.arg, e, pos, start)
                       /\ BeforeString(e) \/ BehindString(e)
  BY <1>1, <1>2 DEF Reading
<1>4. CASE BeforeString(e)
  <2>1. \/ state = 0 /\ start = "FIRSTPART"
        \/ state = 2 /\ start = "MIDDLEPART"
        \/ state = 5 /\ start = "SECONDPART"
    BY <1>4 DEF BeforeString, At
  <2>2. QED BY <1>3, <1>4, <2>1
<1>5. CASE BehindString(e)
  <2>1. state = 7 /\ start = "FIRSTPART"
    BY <1>5 DEF BehindString, At
  <2>2. QED BY <1>3, <1>5, <2>1
<1>6. QED BY <1>3, <1>4, <1>5

\* The file ends where the next pair would have its name: it has no more pairs.
LEMMA NoMorePairs ==
    ASSUME IInv, pc = "parse", text = option.arg, NEW e,
           Lexed(option.arg, e, pos, start), start = "FIRSTPART", LexesEnd
    PROVE  PairsIn(option.arg) = ReadPairs(option.arg, e)
<1>1. option.arg \in File /\ Read(option.arg, e)
  BY InParse DEF Lexed
<1>2. Here = PairName(option.arg, e)
  <2>1. (start \in {"FIRSTPART", "KEYSTATE"}) = TRUE /\ pos = e
    BY DEF Lexed
  <2>2. QED BY <2>1 DEF Here, PairName
<1>3. Class(text, Here) # "word"
  <2>1. CASE Here > Len(text)
    BY <2>1, HereFacts
  <2>2. CASE ~ (Here > Len(text))
    <3>1. \A r \in Rules : r.in = "FIRSTPART" => r.t # Class(text, Here)
      BY <2>2 DEF LexesEnd
    <3>2. \E r \in Rules : r.in = "FIRSTPART" /\ r.t = "word"
      BY DEF Rules
    <3>3. QED BY <3>1, <3>2
  <2>3. QED BY <2>1, <2>2
<1>4. ~ IsPair(option.arg, e)
  BY <1>2, <1>3 DEF IsPair
<1>5. QED BY <1>1, <1>4, NoMore

\* The lexer in a file of attributes.
LEMMA LexerReading ==
    ASSUME IInv, kvlex, option.opt = "e"
    PROVE  Reading'
<1>1. /\ pc = "parse" /\ token.t = "none" /\ state \in {0, 2, 3, 5, 7, 8}
      /\ UNCHANGED <<cmd, at, pc, buf, text, stack, env, authorizers, table, out>>
      /\ LexesEnd \/ \E r \in Rules : Lexes(r)
  BY LexerCases
<1>2. state' = state /\ option' = option
  BY LexerTypes
<1> DEFINE file == option.arg
<1>3. text = file /\ file \in File
  BY <1>1, AsksForPair, InParse
<1>4. PICK e \in Nat :
          /\ Lexed(file, e, pos, start)
          /\ \/ /\ BeforeString(e)
                /\ \/ state = 0 /\ start = "FIRSTPART"
                   \/ state = 2 /\ start = "MIDDLEPART"
                   \/ state = 5 /\ start = "SECONDPART"
             \/ BehindString(e) /\ state = 7 /\ start = "FIRSTPART"
  BY <1>1, AsksForPair
<1>5. CASE LexesEnd
  <2>1. token'.t = "$end"
    BY <1>5 DEF LexesEnd
  <2>2. CASE state \in {0, 2, 5}
    BY <1>2, <2>1, <2>2 DEF Reading, NoPair
  <2>3. CASE state = 7
    <3>1. BehindString(e) /\ start = "FIRSTPART"
      BY <1>4, <2>3
    <3>2. PairsIn(file) = ReadPairs(file, e)
      BY <1>1, <1>3, <1>4, <1>5, <3>1, NoMorePairs
    <3>3. Pending(cmd, at, env, PairsIn(option.arg),
                  stack[Len(stack) - 2].v, stack[Len(stack)].v)
      BY <3>1, <3>2 DEF BehindString
    <3>4. LastPair'
      BY <1>1, <1>2, <2>1, <2>3, <3>3 DEF LastPair
    <3>5. QED BY <3>4 DEF Reading
  <2>4. QED BY <1>4, <2>2, <2>3
<1>6. CASE \E r \in Rules : Lexes(r)
  <2>1. PICK r \in Rules : Lexes(r)
    BY <1>6
  <2>2. /\ start = "FIRSTPART" =>
               /\ r.t = "word" /\ token'.t = "VSTRING" /\ start' = "MIDDLEPART"
               /\ token'.v = Name(file, e)
               /\ Lexed(file, e, pos', start')
        /\ start = "MIDDLEPART" =>
               /\ r.t = "eq" /\ token'.t = "EQ" /\ start' = "SECONDPART"
               /\ Lexed(file, e, pos', start')
        /\ start = "SECONDPART" =>
               /\ r.t = "string" /\ token'.t = "STRING" /\ start' = "FIRSTPART"
               /\ IsPair(file, e) /\ PairEnd(file, e) \in Nat
               /\ Lexed(file, PairEnd(file, e), pos', start')
               /\ Pair(file, e) = <<Name(file, e), token'.v>>
    <3>1. start \in {"FIRSTPART", "MIDDLEPART", "SECONDPART"}
      BY <1>4
    <3> HIDE DEF file
    <3>2. QED BY <1>3, <1>4, <2>1, <3>1, LexedOn
  <2>3. text' = option'.arg
    BY <1>1, <1>2, <1>3
  <2>4. ASSUME NEW n \in Nat, Lexed(file, n, pos', start'),
               BeforeString(n)' \/ AtString(n)' \/ BehindString(n)'
        PROVE  Reading'
    <3>1. Lexed(option.arg, n, pos, start)'
      BY <1>2, <2>4
    <3>2. QED BY <2>3, <2>4, <3>1 DEF Reading
  <2>5. CASE start = "FIRSTPART"
    <3>1. /\ token'.t = "VSTRING" /\ start' = "MIDDLEPART" /\ token'.v = Name(file, e)
          /\ Lexed(file, e, pos', start')
      BY <2>2, <2>5
    <3>2. CASE state = 0
      <4>1. Has(cmd, env, AndHere(cmd, at, ReadPairs(file, e)))
        BY <1>4, <3>2 DEF BeforeString
      <4>2. BeforeString(e)'
        BY <1>1, <1>2, <3>1, <3>2, <4>1 DEF BeforeString, At
      <4>3. QED BY <2>4, <3>1, <4>2
    <3>3. CASE state = 7
      <4>1. Pending(cmd, at, env, ReadPairs(file, e),
                    stack[Len(stack) - 2].v, stack[Len(stack)].v)
        BY <1>4, <3>3 DEF BehindString
      <4>2. BehindString(e)'
        BY <1>1, <1>2, <3>1, <3>3, <4>1 DEF BehindString, At
      <4>3. QED BY <2>4, <3>1, <4>2
    <3>4. QED BY <1>4, <2>5, <3>2, <3>3
  <2>6. CASE start = "MIDDLEPART"
    <3>1. token'.t = "EQ" /\ start' = "SECONDPART" /\ Lexed(file, e, pos', start')
      BY <2>2, <2>6
    <3>2. BeforeString(e) /\ state = 2
      BY <1>4, <2>6
    <3>3. /\ Has(cmd, env, AndHere(cmd, at, ReadPairs(file, e)))
          /\ stack[Len(stack)].v = Name(file, e)
      BY <3>2 DEF BeforeString
    <3>4. BeforeString(e)'
      BY <1>1, <1>2, <3>1, <3>2, <3>3 DEF BeforeString, At
    <3>5. QED BY <2>4, <3>1, <3>4
  <2>7. CASE start = "SECONDPART"
    <3>1. /\ token'.t = "STRING" /\ start' = "FIRSTPART"
          /\ IsPair(file, e) /\ PairEnd(file, e) \in Nat
          /\ Lexed(file, PairEnd(file, e), pos', start')
          /\ Pair(file, e) = <<Name(file, e), token'.v>>
      BY <2>2, <2>7
    <3>2. BeforeString(e) /\ state = 5
      BY <1>4, <2>7
    <3> DEFINE S == ReadPairs(file, e)
    <3> PICK b \in Nat : b = PairEnd(file, e)
      BY <3>1
    <3>3. Has(cmd, env, AndHere(cmd, at, S)) /\ stack[Len(stack) - 1].v = Name(file, e)
      BY <3>2 DEF BeforeString
    <3>4. Read(file, e)
      BY <1>4 DEF Lexed
    <3>5. ReadPairs(file, b) = S \union {e}
      <4> HIDE DEF file
      <4>1. QED BY <1>3, <3>1, <3>4, NextPair
    <3>6. \A m \in S : m < e
      BY DEF ReadPairs
    <3>7. PairAt(cmd, <<at, e>>) = <<stack[Len(stack) - 1].v, token'.v>>
      BY <3>1, <3>3 DEF PairAt, option
    <3> HIDE DEF S
    <3>8. Pending(cmd, at, env, S \union {e}, stack[Len(stack) - 1].v, token'.v)
      <4>1. (\A m \in S \union {e} : m <= e) /\ e \notin S
        <5>1. S \subseteq Nat
          <6>1. PairsIn(file) \subseteq Nat
            BY <1>3, ClosedFacts
          <6>2. QED BY <6>1 DEF S, ReadPairs
        <5>2. QED BY <3>6, <5>1
      <4>2. (S \union {e}) \ {e} = S /\ e \in S \union {e}
        BY <4>1
      <4>3. QED BY <3>3, <3>7, <4>1, <4>2 DEF Pending
    <3>9. AtString(b)'
      <4>1. Pending(cmd, at, env, ReadPairs(option.arg, b),
                    stack[Len(stack) - 1].v, token.v)'
        BY <1>1, <1>2, <3>5, <3>8
      <4>2. QED BY <1>2, <3>1, <3>2, <4>1 DEF AtString, At
    <3>10. QED BY <2>4, <3>1, <3>9
  <2>8. QED BY <1>4, <2>5, <2>6, <2>7
<1>7. QED BY <1>1, <1>5, <1>6

\* The lexer in a file of keys.
LEMMA LexerReadingKey ==
    ASSUME IInv, kvlex, option.opt = "k"
    PROVE  ReadingKey'
<1>1. /\ pc = "parse" /\ token.t = "none" /\ state \in {0, 2, 3, 5, 7, 8}
      /\ UNCHANGED <<cmd, at, pc, buf, text, stack, env, authorizers, table, out>>
      /\ LexesEnd \/ \E r \in Rules : Lexes(r)
  BY LexerCases
<1>2. state' = state /\ option' = option /\ Key' = Key
  BY <1>1, LexerTypes DEF Key
<1>3. ReadingKey /\ text = TextOf(cmd, at)
  BY <1>1 DEF IInv, Askers, ReadingKey
<1>4. (BeforeKey /\ ToSet(authorizers) = KeysOf(cmd, at)) \/ KeyIsAdded
  <2>1. ~ AtKey /\ ~ BehindKey /\ ~ AllKeys /\ ~ NoKey
    BY <1>1 DEF AtKey, BehindKey, AllKeys, NoKey, At
  <2>2. QED BY <1>3, <2>1 DEF ReadingKey
<1>5. text' = TextOf(cmd', at')
  BY <1>1, <1>3
<1>6. CASE LexesEnd
  <2>1. token'.t = "$end"
    BY <1>6 DEF LexesEnd
  <2>2. CASE BeforeKey
    <3>1. NoKey'
      BY <1>2, <2>1, <2>2 DEF NoKey, BeforeKey, At
    <3>2. QED BY <1>5, <3>1 DEF ReadingKey
  <2>3. CASE KeyIsAdded
    <3>1. /\ state = 3 /\ start = "FIRSTPART" /\ authorizers # <<>>
          /\ \E v \in Texts : /\ KeyIs(v)
                              /\ ToSet(authorizers) = KeysOf(cmd, at) \union {v}
      BY <2>3 DEF KeyIsAdded, At
    <3>2. ASSUME keynote_errno' = "none"
          PROVE  /\ KeysIn(text) # {}
                 /\ ToSet(authorizers) = KeysOf(cmd, at) \union KeysIn(text)
      <4>1. Here > Len(text)
        BY <1>6, <3>2 DEF LexesEnd
      <4>2. /\ Class(text, Key) = "string" /\ pos = End(text, Key)
            /\ ToSet(authorizers) = KeysOf(cmd, at) \union {Value(text, Key)}
        BY <3>1 DEF KeyIs
      <4>3. (start \in {"FIRSTPART", "KEYSTATE"}) = TRUE
        BY <3>1
      <4>4. Begin(text, End(text, Key), TRUE) > Len(text)
        BY <4>1, <4>2, <4>3 DEF Here
      <4>5. KeysIn(text) = {Value(text, Key)}
        BY <4>2, <4>4 DEF KeysIn, Key
      <4>6. QED BY <4>2, <4>5
    <3>3. AllKeys'
      BY <1>1, <1>2, <2>1, <3>1, <3>2 DEF AllKeys
    <3>4. QED BY <1>5, <3>3 DEF ReadingKey
  <2>4. QED BY <1>4, <2>2, <2>3
<1>7. CASE \E r \in Rules : Lexes(r)
  <2>1. PICK r \in Rules : Lexes(r)
    BY <1>7
  <2>2. /\ r.in = start /\ r.t = Class(text, Here)
        /\ token'.t = r.token /\ token'.v = Value(text, Here) /\ start' = r.next
        /\ pos' = End(text, Here)
    BY <2>1 DEF Lexes
  <2>3. CASE BeforeKey /\ ToSet(authorizers) = KeysOf(cmd, at)
    <3>1. state = 0 /\ start = "KEYSTATE" /\ pos = 0
      BY <2>3 DEF BeforeKey, At
    <3>2. r.t = "string" /\ token'.t = "STRING" /\ start' = "FIRSTPART"
      BY <2>2, <3>1 DEF Rules
    <3>3. Here = Key
      <4>1. (start \in {"FIRSTPART", "KEYSTATE"}) = TRUE
        BY <3>1
      <4>2. QED BY <3>1, <4>1 DEF Here, Key
    <3>4. KeyIs(token.v)'
      <4>1. Class(text, Key) = "string" /\ pos' = End(text, Key)
            /\ token'.v = Value(text, Key)
        BY <2>2, <3>2, <3>3
      <4>2. QED BY <1>1, <1>2, <4>1 DEF KeyIs
    <3>5. AtKey'
      BY <1>2, <3>1, <3>2, <3>4 DEF AtKey, At
    <3>6. ToSet(authorizers') = KeysOf(cmd', at')
      BY <1>1, <2>3
    <3>7. QED BY <1>5, <3>5, <3>6 DEF ReadingKey
  <2>4. CASE KeyIsAdded
    <3>1. state = 3 /\ start = "FIRSTPART"
      BY <2>4 DEF KeyIsAdded, At
    <3>2. token'.t = "VSTRING"
      BY <2>2, <3>1 DEF Rules
    <3>3. NoKey'
      BY <1>2, <3>1, <3>2 DEF NoKey
    <3>4. QED BY <1>5, <3>3 DEF ReadingKey
  <2>5. QED BY <1>4, <2>3, <2>4
<1>8. QED BY <1>1, <1>6, <1>7

\* The lexer.
LEMMA LexerStep ==
    ASSUME IInv, kvlex
    PROVE  IInv'
<1>1. /\ pc = "parse"
      /\ UNCHANGED <<cmd, at, pc, buf, stack, env, authorizers, table, out>>
  BY LexerCases
<1>2. Typed' /\ Stack' /\ keynote_errno' # "NOTFOUND"
  BY LexerTypes
<1>3. option.opt = "e" => Reading'
  BY LexerReading
<1>4. option.opt = "k" => ReadingKey'
  BY LexerReadingKey
<1>5. QED BY <1>1, <1>2, <1>3, <1>4, GoesOn

-------------------------------------------------------------------------------
(***************************************************************************)
(* The parser's stack.                                                     *)
(***************************************************************************)

\* What is below a state in the stack.
LEMMA StateBelow ==
    ASSUME NEW s, IsPath(s), NEW n \in 1 .. Len(s), s[n].state # 0
    PROVE  /\ n - 1 \in 1 .. Len(s)
           /\ s[n].state \in {1, 3, 4} => s[n - 1].state = 0
           /\ s[n].state = 2 => s[n - 1].state \in {0, 8}
           /\ s[n].state = 5 => s[n - 1].state = 2
           /\ s[n].state = 7 => s[n - 1].state = 5
           /\ s[n].state = 8 => s[n - 1].state = 7
           /\ s[n].state = 9 => s[n - 1].state = 8
<1>1. Len(s) \in Nat /\ n # 1
  BY DEF IsPath
<1>2. n - 1 \in 1 .. Len(s) /\ n - 1 \in 1 .. Len(s) - 1 /\ (n - 1) + 1 = n
  BY <1>1
<1>3. <<s[n - 1].state, s[n].state>> \in Edges
  <2>1. <<s[n - 1].state, s[(n - 1) + 1].state>> \in Edges
    BY <1>2 DEF IsPath
  <2>2. QED BY <1>2, <2>1
<1> DEFINE a == s[n - 1].state
           b == s[n].state
<1>4. <<a, b>> \in Edges
  BY <1>3
<1> HIDE DEF a, b
<1>5. \/ a = 0 /\ b = 1
      \/ a = 0 /\ b = 2
      \/ a = 0 /\ b = 3
      \/ a = 0 /\ b = 4
      \/ a = 8 /\ b = 2
      \/ a = 8 /\ b = 9
      \/ a = 2 /\ b = 5
      \/ a = 3 /\ b = 6
      \/ a = 5 /\ b = 7
      \/ a = 7 /\ b = 8
  BY <1>4 DEF Edges
<1>6. /\ b \in {1, 3, 4} => a = 0
      /\ b = 2 => a \in {0, 8}
      /\ b = 5 => a = 2
      /\ b = 7 => a = 5
      /\ b = 8 => a = 7
      /\ b = 9 => a = 8
  <2>1. CASE a = 0
    BY <1>5, <2>1
  <2>2. CASE a = 8
    BY <1>5, <2>2
  <2>3. CASE a = 2 /\ b = 5
    BY <2>3
  <2>4. CASE a = 3 /\ b = 6
    BY <2>4
  <2>5. CASE a = 5 /\ b = 7
    BY <2>5
  <2>6. CASE a = 7 /\ b = 8
    BY <2>6
  <2>7. QED BY <1>5, <2>1, <2>2, <2>3, <2>4, <2>5, <2>6
<1>7. QED BY <1>2, <1>6 DEF a, b

\* The lower part of a stack is one.
LEMMA LowerPart ==
    ASSUME NEW s, IsPath(s), NEW n \in 1 .. Len(s)
    PROVE  LET r == SubSeq(s, 1, n)
           IN  /\ IsPath(r) /\ Len(r) = n /\ Last(r) = s[n]
               /\ \A i \in 1 .. n : r[i] = s[i]
<1> DEFINE r == SubSeq(s, 1, n)
<1>1. s \in Seq(Entry) /\ Len(s) \in Nat /\ n \in Nat /\ 1 <= n /\ n <= Len(s)
  BY DEF IsPath
<1>2. r \in Seq(Entry) /\ Len(r) = n /\ \A i \in 1 .. n : r[i] = s[i]
  BY <1>1
<1> HIDE DEF r
<1>3. n \in 1 .. n /\ r[n] = s[n]
  BY <1>1, <1>2
<1>4. Last(r) = s[n]
  BY <1>2, <1>3 DEF Last
<1>5. ASSUME NEW i \in 1 .. n
      PROVE  i \in 1 .. Len(s) /\ r[i] = s[i]
  BY <1>1, <1>2
<1>6. ASSUME NEW i \in 1 .. n - 1
      PROVE  <<r[i].state, r[i + 1].state>> \in Edges
  <2>1. i \in 1 .. n /\ i + 1 \in 1 .. n /\ i \in 1 .. Len(s) - 1
    BY <1>1
  <2>2. QED BY <1>5, <2>1 DEF IsPath
<1>7. IsPath(r)
  BY <1>2, <1>5, <1>6 DEF IsPath
<1>8. QED BY <1>2, <1>4, <1>7 DEF r

\* What follows when a state was pushed.
Grown(st, value, errno, lookahead) ==
    /\ Len(stack') = Len(st) + 1 /\ stack'[Len(st) + 1] = value
    /\ \A i \in 1 .. Len(st) : stack'[i] = st[i]
    /\ state' = value.state /\ token' = lookahead /\ keynote_errno' = errno
    /\ UNCHANGED <<cmd, at, pc, buf, text, pos, start, table, out, option>>

MayFollow(st, value) ==
    /\ IsPath(st) /\ st # <<>> /\ value \in Entry
    /\ <<st[Len(st)].state, value.state>> \in Edges
    /\ value.state \in {1, 2, 7} => value.v \in Texts

\* A state that an edge leads to continues the path.
LEMMA PathGrows ==
    ASSUME NEW st, NEW value, MayFollow(st, value)
    PROVE  LET s == Append(st, value)
           IN  /\ IsPath(s) /\ Len(s) = Len(st) + 1 /\ s[Len(st) + 1] = value
               /\ \A i \in 1 .. Len(st) : s[i] = st[i]
<1> DEFINE s == Append(st, value)
           n == Len(st)
<1>1. /\ st \in Seq(Entry) /\ n \in Nat /\ 1 <= n /\ value \in Entry
      /\ <<st[n].state, value.state>> \in Edges
  BY DEF MayFollow, IsPath
<1>2. /\ s \in Seq(Entry) /\ Len(s) = n + 1 /\ s[n + 1] = value
      /\ \A i \in 1 .. n : s[i] = st[i]
  BY <1>1
<1> HIDE DEF s, n
<1>3. ASSUME NEW i \in 1 .. n + 1
      PROVE  /\ s[i].state = 0 <=> i = 1
             /\ s[i].state \in {1, 2, 7} => s[i].v \in Texts
  <2>1. CASE i = n + 1
    <3>1. s[i] = value /\ i # 1
      BY <1>1, <1>2, <2>1
    <3>2. value.state # 0
      BY <1>1 DEF Edges
    <3>3. QED BY <3>1, <3>2 DEF MayFollow
  <2>2. CASE i # n + 1
    <3>1. i \in 1 .. n
      BY <1>1, <2>2
    <3>2. QED BY <1>2, <3>1 DEF MayFollow, IsPath, n
  <2>3. QED BY <2>1, <2>2
<1>4. ASSUME NEW i \in 1 .. n
      PROVE  <<s[i].state, s[i + 1].state>> \in Edges
  <2>1. CASE i = n
    BY <1>1, <1>2, <2>1
  <2>2. CASE i # n
    <3>1. i \in 1 .. n - 1 /\ i + 1 \in 1 .. n
      BY <1>1, <2>2
    <3>2. <<st[i].state, st[i + 1].state>> \in Edges
      BY <3>1 DEF MayFollow, IsPath, n
    <3>3. QED BY <1>2, <3>1, <3>2
  <2>3. QED BY <2>1, <2>2
<1>5. IsPath(s)
  <2>1. Len(s) - 1 = n
    BY <1>1, <1>2
  <2>2. QED BY <1>2, <1>3, <1>4, <2>1 DEF IsPath
<1>6. QED BY <1>2, <1>5 DEF s, n

\* The parser that fails ends the command.
LEMMA ParserFails ==
    ASSUME IInv, pc = "parse", NEW errno \in {"none", "SYNTAX"},
           Returned(FALSE, errno), UNCHANGED <<cmd, buf, text, pos, start, table, out>>,
           env' \in Seq(Texts \X Texts), authorizers' \in Seq(Keys)
    PROVE  IInv'
<1>1. /\ pc' = "exited" /\ at' = at /\ stack' = <<>> /\ token' = NoToken
      /\ keynote_errno' \in {"none", "SYNTAX"}
  BY DEF Returned, Fails
<1>2. Stack'
  <2>1. stack' \in Seq(Entry) /\ Len(stack') = 0
    BY <1>1
  <2>2. IsPath(stack')
    BY <2>1 DEF IsPath
  <2>3. QED BY <1>1, <2>1, <2>2, CommandAssumption DEF Stack
<1>3. Buffer'
  BY DEF IInv, Buffer
<1>4. Typed'
  <2>1. NoToken \in Token /\ NoToken.t = "none"
    BY DEF NoToken, Token, Semantic
  <2>2. QED BY <1>1, <2>1 DEF IInv, Typed, NoToken
<1>5. QED BY <1>1, <1>2, <1>3, <1>4, Ends DEF Unasked

\* A push, with or without room for it.
LEMMA Pushed ==
    ASSUME IInv, pc = "parse", NEW st, NEW value, MayFollow(st, value),
           NEW errno \in {"none", "SYNTAX"},
           NEW lookahead, lookahead \in {token, NoToken},
           Push(st, value, errno, lookahead),
           UNCHANGED <<cmd, buf, text, pos, start, table, out>>,
           env' \in Seq(Texts \X Texts), authorizers' \in Seq(Keys)
    PROVE  IInv' \/ (Grown(st, value, errno, lookahead) /\ Typed' /\ Stack')
<1>1. CASE Len(st) + 1 >= YYMAXDEPTH
  <2>1. Returned(FALSE, errno)
    BY <1>1 DEF Push
  <2>2. QED BY <2>1, ParserFails
<1>2. CASE ~ (Len(st) + 1 >= YYMAXDEPTH)
  <2>1. /\ stack' = Append(st, value) /\ keynote_errno' = errno
        /\ token' = lookahead /\ pc' = pc /\ at' = at
    BY <1>2 DEF Push
  <2>2. /\ IsPath(stack') /\ Len(stack') = Len(st) + 1
        /\ stack'[Len(st) + 1] = value /\ \A i \in 1 .. Len(st) : stack'[i] = st[i]
    BY <2>1, PathGrows
  <2>3. Len(st) \in Nat /\ st \in Seq(Entry)
    BY DEF MayFollow, IsPath
  <2>4. Len(stack') < YYMAXDEPTH /\ stack' # <<>>
    <3>1. Len(st) + 1 < YYMAXDEPTH
      BY <1>2, <2>3, CommandAssumption
    <3>2. QED BY <2>1, <2>2, <2>3, <3>1
  <2>5. Stack'
    BY <2>2, <2>4 DEF Stack
  <2>6. state' = value.state
    BY <2>2 DEF state, Last
  <2>7. option' = option
    BY <2>1 DEF option
  <2>8. Grown(st, value, errno, lookahead)
    BY <2>1, <2>2, <2>6, <2>7 DEF Grown
  <2>9. Typed'
    <3>1. /\ token' \in Token /\ (token'.t = "none" => token' = NoToken)
          /\ token'.t \in {"STRING", "VSTRING"} => token'.v \in Texts
      <4>1. CASE lookahead = token
        BY <2>1, <4>1 DEF IInv, Typed
      <4>2. CASE lookahead = NoToken
        BY <2>1, <4>2 DEF NoToken, Token, Semantic
      <4>3. QED BY <4>1, <4>2
    <3>2. NoToken' = NoToken
      BY DEF NoToken
    <3>3. QED BY <2>1, <3>1, <3>2 DEF IInv, Typed
  <2>10. QED BY <2>5, <2>8, <2>9
<1>3. QED BY <1>1, <1>2

-------------------------------------------------------------------------------
(***************************************************************************)
(* The parser's steps.                                                     *)
(***************************************************************************)

\* What kn_add_action has added, the pair that was on its way.
LEMMA PendingAdded ==
    ASSUME NEW c \in CommandLines, NEW k \in Nat,
           NEW e \in Seq(Texts \X Texts), NEW S \in SUBSET Nat,
           NEW name \in Texts, NEW value \in Texts,
           Pending(c, k, e, S, name, value)
    PROVE  Has(c, <<<<name, value>>>> \o e, AndHere(c, k, S))
<1>1. PICK n \in S : /\ \A m \in S : m <= n
                     /\ PairAt(c, <<k, n>>) = <<name, value>>
                     /\ Has(c, e, AndHere(c, k, S \ {n}))
  BY DEF Pending
<1> DEFINE T == S \ {n}
           p == <<k, n>>
<1>2. T \in SUBSET Nat /\ n \in Nat /\ \A m \in T : m < n
  <2>1. ASSUME NEW m \in T PROVE m < n
    <3>1. m \in Nat /\ m <= n /\ m # n
      BY <1>1
    <3>2. QED BY <3>1
  <2>2. QED BY <2>1
<1>3. AndHere(c, k, S) = AndHere(c, k, T) \union {p}
  BY DEF AndHere
<1>4. Has(c, e, AndHere(c, k, T)) /\ PairAt(c, p) = <<name, value>>
  BY <1>1
<1> HIDE DEF T
<1>5. \A q \in AndHere(c, k, T) : Before(q, p)
  BY <1>2, PairsInOrder
<1> HIDE DEF p
<1>6. PairAt(c, p) \in Texts \X Texts
  <2>1. <<name, value>> \in Texts \X Texts
    OBVIOUS
  <2>2. QED BY <1>4, <2>1
<1>7. Has(c, <<PairAt(c, p)>> \o e, AndHere(c, k, T) \union {p})
  BY <1>4, <1>5, <1>6, HasMore
<1>8. QED BY <1>3, <1>4, <1>7

\* What a shift reads of a pair.
LEMMA ShiftReading ==
    ASSUME IInv, pc = "parse", option.opt = "e", NEW s \in Shifts,
           s[1] = state, s[2] = token.t, UNCHANGED env,
           Grown(stack, [state |-> s[3], v |-> token.v], keynote_errno, NoToken)
    PROVE  Reading'
<1> DEFINE n == Len(stack)
<1>1. /\ n \in Nat /\ n >= 1 /\ IsPath(stack)
      /\ state = stack[n].state /\ token \in Token
  BY InParse
<1>2. /\ Len(stack') = n + 1 /\ stack'[n + 1].v = token.v
      /\ \A i \in 1 .. n : stack'[i] = stack[i]
      /\ state' = s[3] /\ token'.t = "none"
      /\ UNCHANGED <<cmd, at, text, pos, start, option>>
  BY DEF Grown, NoToken
<1>3. Reading
  BY DEF IInv, Attributes
<1>4. (n + 1) - 1 = n /\ (n + 1) - 2 = n - 1 /\ n \in 1 .. n
  BY <1>1
<1> HIDE DEF n
<1>5. ASSUME NEW e \in Nat, text = option.arg, Lexed(option.arg, e, pos, start),
             BeforeString(e)' \/ AtString(e)' \/ BehindString(e)'
      PROVE  Reading'
  BY <1>2, <1>5 DEF Reading
<1>6. CASE s = <<0, "STRING", 1>>
  <2>1. state = 0 /\ token.t = "STRING"
    BY <1>6
  <2>2. /\ ~ LastPair /\ ~ AllPairs /\ ~ NoPair
        /\ \A e : ~ BeforeString(e) /\ ~ AtString(e) /\ ~ BehindString(e)
    BY <2>1 DEF BeforeString, AtString, BehindString, LastPair, AllPairs,
                NoPair, At
  <2>3. QED BY <1>3, <2>2 DEF Reading
<1>7. CASE s \in {<<0, "VSTRING", 2>>, <<8, "VSTRING", 2>>}
  <2>1. state \in {0, 8} /\ token.t = "VSTRING" /\ state' = 2
    BY <1>2, <1>7
  <2>2. /\ ~ LastPair /\ ~ AllPairs /\ ~ NoPair
        /\ \A e : ~ AtString(e) /\ ~ BehindString(e)
    BY <2>1 DEF AtString, BehindString, LastPair, AllPairs, NoPair, At
  <2>3. PICK e \in Nat : /\ text = option.arg /\ Lexed(option.arg, e, pos, start)
                         /\ BeforeString(e)
    BY <1>3, <2>2 DEF Reading
  <2>4. /\ start = "MIDDLEPART"
        /\ Has(cmd, env, AndHere(cmd, at, ReadPairs(option.arg, e)))
        /\ token.v = Name(option.arg, e)
    BY <2>1, <2>3 DEF BeforeString, At
  <2>5. BeforeString(e)'
    BY <1>2, <2>1, <2>4 DEF BeforeString, At
  <2>6. QED BY <1>5, <2>3, <2>5
<1>8. CASE s = <<2, "EQ", 5>>
  <2>1. state = 2 /\ token.t = "EQ" /\ state' = 5
    BY <1>2, <1>8
  <2>2. /\ ~ LastPair /\ ~ AllPairs /\ ~ NoPair
        /\ \A e : ~ AtString(e) /\ ~ BehindString(e)
    BY <2>1 DEF AtString, BehindString, LastPair, AllPairs, NoPair, At
  <2>3. PICK e \in Nat : /\ text = option.arg /\ Lexed(option.arg, e, pos, start)
                         /\ BeforeString(e)
    BY <1>3, <2>2 DEF Reading
  <2>4. /\ start = "SECONDPART"
        /\ Has(cmd, env, AndHere(cmd, at, ReadPairs(option.arg, e)))
        /\ stack[n].v = Name(option.arg, e)
    BY <2>1, <2>3 DEF BeforeString, At, n
  <2>5. stack'[Len(stack') - 1].v = Name(option.arg, e)
    BY <1>2, <1>4, <2>4
  <2>6. BeforeString(e)'
    BY <1>2, <2>1, <2>4, <2>5 DEF BeforeString, At
  <2>7. QED BY <1>5, <2>3, <2>6
<1>9. CASE s = <<3, "$end", 6>>
  <2>1. state = 3 /\ token.t = "$end" /\ state' = 6
    BY <1>2, <1>9
  <2>2. /\ ~ LastPair /\ ~ NoPair
        /\ \A e : ~ BeforeString(e) /\ ~ AtString(e) /\ ~ BehindString(e)
    BY <2>1 DEF BeforeString, AtString, BehindString, LastPair, NoPair, At
  <2>3. AllPairs
    BY <1>3, <2>2 DEF Reading
  <2>4. AllPairs'
    BY <1>2, <2>1, <2>3 DEF AllPairs
  <2>5. QED BY <2>4 DEF Reading
<1>10. CASE s = <<5, "STRING", 7>>
  <2>1. state = 5 /\ token.t = "STRING" /\ state' = 7
    BY <1>2, <1>10
  <2>2. /\ ~ LastPair /\ ~ AllPairs /\ ~ NoPair
        /\ \A e : ~ BeforeString(e) /\ ~ BehindString(e)
    BY <2>1 DEF BeforeString, BehindString, LastPair, AllPairs, NoPair, At
  <2>3. PICK e \in Nat : /\ text = option.arg /\ Lexed(option.arg, e, pos, start)
                         /\ AtString(e)
    BY <1>3, <2>2 DEF Reading
  <2>4. /\ start = "FIRSTPART"
        /\ Pending(cmd, at, env, ReadPairs(option.arg, e), stack[n - 1].v, token.v)
    BY <2>3 DEF AtString, At, n
  <2>5. n - 1 \in 1 .. n
    <3>1. Len(stack) \in 1 .. Len(stack) /\ stack[Len(stack)].state # 0
      BY <1>1, <1>4, <2>1 DEF n
    <3>2. Len(stack) - 1 \in 1 .. Len(stack)
      BY <1>1, <3>1, StateBelow
    <3>3. QED BY <3>2 DEF n
  <2>6. stack'[Len(stack') - 2].v = stack[n - 1].v /\ stack'[Len(stack')].v = token.v
    BY <1>2, <1>4, <2>5
  <2>7. BehindString(e)'
    BY <1>2, <2>1, <2>4, <2>6 DEF BehindString, At
  <2>8. QED BY <1>5, <2>3, <2>7
<1>11. QED BY <1>6, <1>7, <1>8, <1>9, <1>10 DEF Shifts

\* What a shift reads of the keys.
LEMMA ShiftReadingKey ==
    ASSUME IInv, pc = "parse", option.opt = "k", NEW s \in Shifts,
           s[1] = state, s[2] = token.t, UNCHANGED authorizers,
           Grown(stack, [state |-> s[3], v |-> token.v], keynote_errno, NoToken)
    PROVE  ReadingKey'
<1>1. /\ stack'[Len(stack')].v = token.v
      /\ state' = s[3] /\ token'.t = "none" /\ keynote_errno' = keynote_errno
      /\ UNCHANGED <<cmd, at, text, pos, start, option>>
  BY DEF Grown, NoToken
<1>2. ReadingKey
  BY DEF IInv, Askers
<1>3. (AtKey /\ ToSet(authorizers) = KeysOf(cmd, at)) \/ AllKeys
  <2>1. token.t # "none" /\ state # 6 /\ ~ NoKey
    BY DEF Shifts, NoKey
  <2>2. ~ BeforeKey /\ ~ BehindKey /\ ~ KeyIsAdded
    BY <2>1 DEF BeforeKey, BehindKey, KeyIsAdded, At
  <2>3. QED BY <1>2, <2>1, <2>2 DEF ReadingKey
<1>4. text' = TextOf(cmd', at')
  BY <1>1, <1>2 DEF ReadingKey
<1>5. CASE AtKey /\ ToSet(authorizers) = KeysOf(cmd, at)
  <2>1. state = 0 /\ token.t = "STRING" /\ start = "FIRSTPART" /\ KeyIs(token.v)
    BY <1>5 DEF AtKey, At
  <2>2. state' = 1
    BY <1>1, <2>1 DEF Shifts
  <2>3. KeyIs(stack[Len(stack)].v)'
    BY <1>1, <2>1 DEF KeyIs, Key
  <2>4. BehindKey'
    BY <1>1, <2>1, <2>2, <2>3 DEF BehindKey, At
  <2>5. ToSet(authorizers') = KeysOf(cmd', at')
    BY <1>1, <1>5
  <2>6. QED BY <1>4, <2>4, <2>5 DEF ReadingKey
<1>6. CASE AllKeys
  <2>1. state' = 6
    BY <1>1, <1>6 DEF AllKeys, Shifts
  <2>2. AllKeys'
    BY <1>1, <1>6, <2>1 DEF AllKeys
  <2>3. QED BY <1>4, <2>2 DEF ReadingKey
<1>7. QED BY <1>3, <1>5, <1>6

\* A shift.
LEMMA ShiftStep ==
    ASSUME IInv, Shift
    PROVE  IInv'
<1>1. pc = "parse" /\ UNCHANGED <<cmd, buf, text, pos, start, env, authorizers, table, out>>
  BY DEF Shift, Ready, sessionVars
<1>2. PICK s \in Shifts :
          /\ s[1] = state /\ s[2] = token.t
          /\ Push(stack, [state |-> s[3], v |-> token.v], keynote_errno, NoToken)
  BY DEF Shift
<1> DEFINE value == [state |-> s[3], v |-> token.v]
<1>3. /\ IsPath(stack) /\ Len(stack) >= 1 /\ state = stack[Len(stack)].state
      /\ token \in Token /\ keynote_errno \in {"none", "SYNTAX"}
      /\ token.t \in {"STRING", "VSTRING"} => token.v \in Texts
      /\ option.opt \in {"e", "k"}
  BY <1>1, InParse
<1>4. MayFollow(stack, value)
  <2>1. s[3] \in 0 .. 9 /\ <<s[1], s[3]>> \in Edges
        /\ (s[3] \in {1, 2, 7} => s[2] \in {"STRING", "VSTRING"})
    BY DEF Shifts, Edges
  <2>2. value \in Entry
    BY <1>3, <2>1 DEF Entry, Token
  <2>3. stack # <<>>
    BY <1>3
  <2>4. QED BY <1>2, <1>3, <2>1, <2>2, <2>3 DEF MayFollow
<1> HIDE DEF value
<1>5. env' \in Seq(Texts \X Texts) /\ authorizers' \in Seq(Keys)
  BY <1>1 DEF IInv, Typed
<1>6. \/ IInv'
      \/ Grown(stack, value, keynote_errno, NoToken) /\ Typed' /\ Stack'
  <2>1. Push(stack, value, keynote_errno, NoToken)
    BY <1>2 DEF value
  <2>2. QED BY <1>1, <1>3, <1>4, <1>5, <2>1, Pushed
<1>7. ASSUME Grown(stack, value, keynote_errno, NoToken), Typed', Stack'
      PROVE  IInv'
  <2>1. option.opt = "e" => Reading'
    BY <1>1, <1>2, <1>7, ShiftReading DEF value
  <2>2. option.opt = "k" => ReadingKey'
    BY <1>1, <1>2, <1>7, ShiftReadingKey DEF value
  <2>3. UNCHANGED <<cmd, at, pc, buf, table, out>> /\ keynote_errno' # "NOTFOUND"
    BY <1>3, <1>7 DEF Grown
  <2>4. QED BY <1>1, <1>7, <2>1, <2>2, <2>3, GoesOn
<1>8. QED BY <1>6, <1>7

\* The first error ends the parse; a string that is no key, too.
LEMMA ParserFailsStep ==
    ASSUME IInv, ReduceFails \/ SyntaxError
    PROVE  IInv'
<1>1. /\ pc = "parse"
      /\ UNCHANGED <<cmd, buf, text, pos, start, env, authorizers, table, out>>
      /\ Returned(FALSE, "SYNTAX") \/ Returned(FALSE, keynote_errno)
  BY DEF ReduceFails, SyntaxError, Ready, sessionVars
<1>2. keynote_errno \in {"none", "SYNTAX"}
  BY <1>1, InParse
<1>3. env' \in Seq(Texts \X Texts) /\ authorizers' \in Seq(Keys)
  BY <1>1 DEF IInv, Typed
<1>4. QED BY <1>1, <1>2, <1>3, ParserFails

\* The parser is done with a file.
LEMMA AcceptStep ==
    ASSUME IInv, Accept
    PROVE  IInv'
<1>1. /\ pc = "parse" /\ state = 6 /\ Returned(TRUE, keynote_errno)
      /\ UNCHANGED <<cmd, buf, text, pos, start, env, authorizers, table, out>>
  BY DEF Accept, Ready, sessionVars
<1>2. /\ cmd \in CommandLines /\ at \in 1 .. Len(cmd.options)
      /\ option.opt \in {"e", "k"} /\ option.arg \in File
      /\ keynote_errno \in {"none", "SYNTAX"}
  BY <1>1, InParse
<1>3. at <= Len(cmd.options) /\ at \in 1 .. Size(cmd) /\ at + 1 \in 0 .. Size(cmd) + 1
  <2>1. at <= Len(cmd.options)
    BY <1>2, OptionTypes
  <2>2. QED BY <1>1, <2>1, AtAnOption
<1>4. /\ keynote_errno' = keynote_errno /\ stack' = <<>> /\ token' = NoToken
      /\ pc' = IF Fails(TRUE, keynote_errno) THEN "exited" ELSE "options"
      /\ at' = IF Fails(TRUE, keynote_errno) THEN at ELSE at + 1
  BY <1>1 DEF Returned
<1>5. Stack' /\ Buffer'
  <2>1. stack' \in Seq(Entry) /\ Len(stack') = 0
    BY <1>4
  <2>2. IsPath(stack')
    BY <2>1 DEF IsPath
  <2>3. Len(stack') < YYMAXDEPTH
    BY <2>1, CommandAssumption
  <2>4. pc' # "parse"
    BY <1>4
  <2>5. QED BY <1>1, <2>2, <2>3, <2>4 DEF Stack, IInv, Buffer
<1>6. Typed'
  <2>1. NoToken \in Token /\ NoToken.t = "none" /\ NoToken' = NoToken
    BY DEF NoToken, Token, Semantic
  <2>2. pc' \in Unasked \union {"SYNTAX", "SIGNATURE", "ANY", "exited"}
    BY <1>4 DEF Unasked
  <2>3. at' \in 0 .. Size(cmd) + 1
    BY <1>3, <1>4 DEF IInv, Typed
  <2>4. QED BY <1>1, <1>4, <2>1, <2>2, <2>3 DEF IInv, Typed
<1>7. keynote_errno' # "NOTFOUND" /\ pc \in Unasked
  BY <1>1, <1>2, <1>4 DEF Unasked
<1>8. CASE pc' = "exited"
  BY <1>1, <1>5, <1>6, <1>7, <1>8, Ends
<1>9. CASE pc' # "exited"
  <2>1. /\ pc' = "options" /\ at' = at + 1 /\ ~ Fails(TRUE, keynote_errno)
        /\ option.opt = "k" => keynote_errno = "none"
    BY <1>2, <1>4, <1>9 DEF Fails
  <2>2. /\ Given("e")' <=> Given("e") \/ option.opt = "e"
        /\ Given("k")' <=> Given("k") \/ option.opt = "k"
    BY <1>1, <1>2, <2>1, GivenFacts
  <2>3. /\ option.opt # "e" => PairsOf(cmd, at + 1) = PairsOf(cmd, at)
        /\ option.opt = "e" =>
               PairsOf(cmd, at + 1) = AndHere(cmd, at, PairsIn(option.arg))
        /\ option.opt # "k" => /\ KeysOf(cmd, at + 1) = KeysOf(cmd, at)
                               /\ EachHasKey(cmd, at) => EachHasKey(cmd, at + 1)
        /\ option.opt = "k" =>
               /\ KeysOf(cmd, at + 1) =
                      KeysOf(cmd, at) \union KeysIn(TextOf(cmd, at))
               /\ EachHasKey(cmd, at) /\ KeysIn(TextOf(cmd, at)) # {}
                      => EachHasKey(cmd, at + 1)
    BY <1>2, NextOption DEF option
  <2>4. AssertionsOf(cmd, at + 1) = AssertionsOf(cmd, at)
    <3>1. ~ IsAssertion(cmd, at)
      BY <1>2, <1>3 DEF OptionsOf, option, IsAssertion
    <3>2. QED BY <1>2, <1>3, <3>1, NextPlace
  <2>5. HasAssertions(cmd, table', AssertionsOf(cmd, at + 1))
    BY <1>1, <2>4 DEF IInv, Assertions
  <2>6. Holds(cmd, at, buf') /\ EachHasKey(cmd, at)
    BY <1>1 DEF IInv, Askers
  <2>7. /\ Has(cmd, env', PairsOf(cmd, at + 1))
        /\ Given("e")' => env' # <<>>
    <3>1. CASE option.opt = "e"
      <4>1. Reading
        BY <1>1, <3>1 DEF IInv, Attributes
      <4>2. /\ ~ LastPair /\ ~ NoPair
            /\ \A e : ~ BeforeString(e) /\ ~ AtString(e) /\ ~ BehindString(e)
        BY <1>1 DEF BeforeString, AtString, BehindString, LastPair, NoPair, At
      <4>3. AllPairs
        BY <4>1, <4>2 DEF Reading
      <4>4. QED BY <1>1, <2>3, <3>1, <4>3 DEF AllPairs
    <3>2. CASE option.opt # "e"
      <4>1. option.opt = "k"
        BY <1>2, <3>2
      <4>2. QED BY <1>1, <2>2, <2>3, <4>1 DEF IInv, Attributes
    <3>3. QED BY <3>1, <3>2
  <2>8. /\ ToSet(authorizers') = KeysOf(cmd, at + 1)
        /\ Given("k")' => authorizers' # <<>>
        /\ EachHasKey(cmd, at + 1)
    <3>1. CASE option.opt = "k"
      <4>1. ReadingKey
        BY <1>1, <3>1 DEF IInv, Askers
      <4>2. ~ BeforeKey /\ ~ AtKey /\ ~ BehindKey /\ ~ KeyIsAdded /\ ~ NoKey
        BY <1>1 DEF BeforeKey, AtKey, BehindKey, KeyIsAdded, NoKey, At
      <4>3. text = TextOf(cmd, at) /\ AllKeys
        BY <4>1, <4>2 DEF ReadingKey
      <4>4. /\ authorizers # <<>> /\ KeysIn(text) # {}
            /\ ToSet(authorizers) = KeysOf(cmd, at) \union KeysIn(text)
        BY <2>1, <3>1, <4>3 DEF AllKeys
      <4>5. QED BY <1>1, <2>3, <2>6, <3>1, <4>3, <4>4
    <3>2. CASE option.opt # "k"
      <4>1. option.opt = "e"
        BY <1>2, <3>2
      <4>2. QED BY <1>1, <2>2, <2>3, <2>6, <4>1 DEF IInv, Askers
    <3>3. QED BY <3>1, <3>2
  <2>9. QED BY <1>1, <1>3, <1>5, <1>6, <1>7, <2>1, <2>5, <2>6, <2>7, <2>8,
               NextOptionOK
<1>10. QED BY <1>8, <1>9

\* A reduction by a rule, up to what is left of the stack.
Reduces(rule) ==
    LET left == SubSeq(stack, 1, Len(stack) - PopLength(rule))
        errno == IF rule \in {3, 4, 5} THEN "none" ELSE keynote_errno
    IN  Push(left, [state |-> Goto(rule, Last(left).state), v |-> None], errno, token)

\* A step that reduces is one of the five rules of the grammar.
LEMMA ReduceCases ==
    ASSUME IInv, Reduce
    PROVE  /\ pc = "parse" /\ UNCHANGED <<cmd, buf, text, pos, start, table, out>>
           /\ \E rule \in 2 .. 6 :
                  /\ Reduces(rule) /\ Adds(rule)
                  /\ rule = 2 => state = 4
                  /\ rule = 3 => state = 1 /\ Last(stack).v \in Keys
                  /\ rule = 4 => state = 7 /\ token.t \notin {"VSTRING", "none"}
                  /\ rule = 5 => state = 7 /\ token.t = "VSTRING"
                  /\ rule = 6 => state = 9
<1>1. pc = "parse" /\ UNCHANGED <<cmd, buf, text, pos, start, table, out>>
      /\ (state = 7 => token # NoToken)
  BY DEF Reduce, Ready, NeedsToken, state
<1>2. PICK rule \in Reduction(state) :
          /\ rule = 3 => Last(stack).v \in Keys
          /\ Adds(rule)
          /\ Reduces(rule)
  BY DEF Reduce, Reduces
<1>3. state \in 0 .. 9 /\ (token.t = "none" <=> token = NoToken)
  BY <1>1, InParse
<1>4. \/ state = 1 /\ rule = 3
      \/ state = 4 /\ rule = 2
      \/ state = 9 /\ rule = 6
      \/ state = 7 /\ rule = IF token.t = "VSTRING" THEN 5 ELSE 4
  <2>1. CASE state \in {1, 4, 7, 9}
    BY <1>2, <2>1 DEF Reduction
  <2>2. CASE state \notin {1, 4, 7, 9}
    BY <1>2, <2>2 DEF Reduction
  <2>3. QED BY <2>1, <2>2
<1>5. /\ rule \in 2 .. 6
      /\ rule = 2 => state = 4
      /\ rule = 3 => state = 1
      /\ rule = 4 => state = 7 /\ token.t # "VSTRING"
      /\ rule = 5 => state = 7 /\ token.t = "VSTRING"
      /\ rule = 6 => state = 9
  <2>1. CASE state = 7
    <3>1. CASE token.t = "VSTRING"
      BY <1>4, <2>1, <3>1
    <3>2. CASE token.t # "VSTRING"
      BY <1>4, <2>1, <3>2
    <3>3. QED BY <3>1, <3>2
  <2>2. CASE state # 7
    BY <1>4, <2>2
  <2>3. QED BY <2>1, <2>2
<1>6. QED BY <1>1, <1>2, <1>3, <1>5

\* The state of the stack at which a rule has begun, and where it goes.
LEMMA ReductionStack ==
    ASSUME IInv, pc = "parse", NEW rule \in 2 .. 6,
           rule = 2 => state = 4, rule = 3 => state = 1,
           rule = 4 => state = 7, rule = 5 => state = 7, rule = 6 => state = 9
    PROVE  LET left == SubSeq(stack, 1, Len(stack) - PopLength(rule))
               goto == Goto(rule, Last(left).state)
           IN  /\ MayFollow(left, [state |-> goto, v |-> None])
               /\ rule \in {2, 3} => goto = 3
               /\ rule = 5 => goto = 8
               /\ rule \in {4, 6} => goto \in {4, 9}
<1> DEFINE n == Len(stack)
           p == PopLength(rule)
           left == SubSeq(stack, 1, n - p)
           goto == Goto(rule, Last(left).state)
           value == [state |-> goto, v |-> None]
<1>1. IsPath(stack) /\ n \in Nat /\ n >= 1 /\ state = stack[n].state
  BY InParse
<1>2. /\ rule \in {2, 3} => p = 1 /\ n - 1 \in 1 .. n /\ stack[n - 1].state = 0
      /\ rule = 4 => p = 3 /\ n - 3 \in 1 .. n /\ stack[n - 3].state \in {0, 8}
      /\ rule = 5 => p = 0 /\ n - 0 \in 1 .. n /\ stack[n].state = 7
      /\ rule = 6 => p = 5 /\ n - 5 \in 1 .. n /\ stack[n - 5].state \in {0, 8}
  <2>1. n \in 1 .. n
    BY <1>1
  <2>2. CASE rule \in {2, 3}
    <3>1. stack[n].state \in {1, 4}
      BY <1>1, <2>2
    <3>2. n - 1 \in 1 .. n /\ stack[n - 1].state = 0
      BY <1>1, <2>1, <3>1, StateBelow
    <3>3. QED BY <2>2, <3>2 DEF PopLength
  <2>3. ASSUME NEW m \in 1 .. n, stack[m].state = 7
        PROVE  m - 3 \in 1 .. n /\ stack[m - 3].state \in {0, 8}
    <3>1. m - 1 \in 1 .. n /\ stack[m - 1].state = 5
      BY <1>1, <2>3, StateBelow
    <3>2. (m - 1) - 1 \in 1 .. n /\ stack[(m - 1) - 1].state = 2
      BY <1>1, <3>1, StateBelow
    <3>3. ((m - 1) - 1) - 1 \in 1 .. n /\ stack[((m - 1) - 1) - 1].state \in {0, 8}
      BY <1>1, <3>2, StateBelow
    <3>4. ((m - 1) - 1) - 1 = m - 3
      <4> HIDE DEF n
      <4> QED BY <1>1
    <3>5. QED BY <3>3, <3>4
  <2>4. CASE rule = 4
    <3>1. n - 3 \in 1 .. n /\ stack[n - 3].state \in {0, 8}
      BY <1>1, <2>1, <2>3, <2>4
    <3>2. QED BY <2>4, <3>1 DEF PopLength
  <2>5. CASE rule = 5
    <3>1. n - 0 = n
      <4> HIDE DEF n
      <4> QED BY <1>1
    <3>2. QED BY <1>1, <2>1, <2>5, <3>1 DEF PopLength
  <2>6. CASE rule = 6
    <3>1. n - 1 \in 1 .. n /\ stack[n - 1].state = 8
      BY <1>1, <2>1, <2>6, StateBelow
    <3>2. (n - 1) - 1 \in 1 .. n /\ stack[(n - 1) - 1].state = 7
      BY <1>1, <3>1, StateBelow
    <3>3. ((n - 1) - 1) - 3 \in 1 .. n /\ stack[((n - 1) - 1) - 3].state \in {0, 8}
      BY <2>3, <3>2
    <3>4. ((n - 1) - 1) - 3 = n - 5
      <4> HIDE DEF n
      <4> QED BY <1>1
    <3>5. n - 5 \in 1 .. n /\ stack[n - 5].state \in {0, 8}
      BY <3>3, <3>4
    <3>6. QED BY <2>6, <3>5 DEF PopLength
  <2>7. QED BY <2>2, <2>4, <2>5, <2>6
<1>3. n - p \in 1 .. n
  <2>1. CASE rule \in {2, 3}
    BY <1>2, <2>1
  <2>2. CASE rule = 4
    BY <1>2, <2>2
  <2>3. CASE rule = 5
    BY <1>2, <2>3
  <2>4. CASE rule = 6
    BY <1>2, <2>4
  <2>5. QED BY <2>1, <2>2, <2>3, <2>4
<1>4. /\ IsPath(left) /\ Len(left) = n - p /\ Last(left) = stack[n - p]
      /\ \A i \in 1 .. n - p : left[i] = stack[i]
  BY <1>1, <1>3, LowerPart
<1> HIDE DEF left, n
<1>5. left[Len(left)] = stack[n - p]
  <2>1. n - p \in 1 .. n - p
    BY <1>1, <1>3
  <2>2. QED BY <1>4, <2>1
<1>6. /\ rule \in {2, 3} => goto = 3
      /\ rule = 5 => goto = 8
      /\ rule \in {4, 6} => goto = IF Last(left).state = 8 THEN 9 ELSE 4
  BY DEF Goto
<1>7. <<left[Len(left)].state, goto>> \in Edges
  <2>1. CASE rule \in {2, 3}
    <3>1. left[Len(left)].state = 0 /\ goto = 3
      BY <1>2, <1>5, <1>6, <2>1
    <3>2. QED BY <3>1 DEF Edges
  <2>2. CASE rule = 5
    <3>1. left[Len(left)].state = 7 /\ goto = 8
      BY <1>1, <1>2, <1>5, <1>6, <2>2
    <3>2. QED BY <3>1 DEF Edges
  <2>3. CASE rule \in {4, 6}
    <3>1. stack[n - p].state \in {0, 8}
      BY <1>2, <2>3
    <3>2. \/ left[Len(left)].state = 0 /\ goto = 4
          \/ left[Len(left)].state = 8 /\ goto = 9
      BY <1>4, <1>5, <1>6, <2>3, <3>1
    <3>3. QED BY <3>2 DEF Edges
  <2>4. QED BY <2>1, <2>2, <2>3
<1>8. goto \in {3, 4, 8, 9}
  BY <1>6
<1> HIDE DEF goto
<1>9. value \in Entry /\ value.state = goto /\ goto \notin {1, 2, 7}
  BY <1>8 DEF Entry, Semantic
<1>10. left # <<>>
  BY <1>1, <1>3, <1>4
<1> HIDE DEF value
<1>11. MayFollow(left, value)
  BY <1>4, <1>7, <1>9, <1>10 DEF MayFollow
<1>12. rule \in {4, 6} => goto \in {4, 9}
  BY <1>6
<1>13. QED BY <1>6, <1>11, <1>12 DEF left, goto, value, n

\* The strings of a pair that is about to be added.
LEMMA PairStrings ==
    ASSUME IInv, pc = "parse", state = 7
    PROVE  /\ stack[Len(stack)].v \in Texts /\ stack[Len(stack) - 2].v \in Texts
           /\ Last(stack) = stack[Len(stack)]
<1> DEFINE n == Len(stack)
<1>1. /\ IsPath(stack) /\ n \in Nat /\ n >= 1 /\ stack[n].state = 7
      /\ Last(stack) = stack[n]
  BY InParse
<1>2. n \in 1 .. n
  BY <1>1
<1>3. n - 1 \in 1 .. n /\ stack[n - 1].state = 5
  BY <1>1, <1>2, StateBelow
<1>4. (n - 1) - 1 \in 1 .. n /\ stack[(n - 1) - 1].state = 2
  BY <1>1, <1>3, StateBelow
<1>5. (n - 1) - 1 = n - 2
  <2> HIDE DEF n
  <2> QED BY <1>1
<1>6. stack[n].v \in Texts /\ stack[n - 2].v \in Texts
  BY <1>1, <1>2, <1>4, <1>5 DEF IsPath
<1>7. QED BY <1>1, <1>6

\* What the reduction adds has its type.
LEMMA AddsTypes ==
    ASSUME IInv, pc = "parse", NEW rule \in 2 .. 6, Adds(rule),
           rule = 3 => Last(stack).v \in Keys,
           rule \in {4, 5} => state = 7
    PROVE  /\ env' \in Seq(Texts \X Texts) /\ authorizers' \in Seq(Keys)
           /\ env # <<>> => env' # <<>>
           /\ authorizers # <<>> => authorizers' # <<>>
           /\ rule \in {4, 5} => env' = <<<<stack[Len(stack) - 2].v,
                                            stack[Len(stack)].v>>>> \o env
                                 /\ env' # <<>>
           /\ rule \notin {4, 5} => env' = env
           /\ rule = 3 => authorizers' = <<stack[Len(stack)].v>> \o authorizers
                          /\ authorizers' # <<>>
                          /\ ToSet(authorizers') =
                                 ToSet(authorizers) \union {stack[Len(stack)].v}
           /\ rule # 3 => authorizers' = authorizers
<1>1. env \in Seq(Texts \X Texts) /\ authorizers \in Seq(Keys)
  BY DEF IInv, Typed
<1>2. Last(stack) = stack[Len(stack)]
  BY InParse
<1>3. /\ env' = IF rule \in {4, 5}
                THEN <<<<stack[Len(stack) - 2].v, stack[Len(stack)].v>>>> \o env
                ELSE env
      /\ authorizers' = IF rule = 3 THEN <<stack[Len(stack)].v>> \o authorizers
                        ELSE authorizers
  BY <1>2 DEF Adds
<1> DEFINE pair == <<stack[Len(stack) - 2].v, stack[Len(stack)].v>>
           key == stack[Len(stack)].v
<1>4. CASE rule \in {4, 5}
  <2>1. pair \in Texts \X Texts
    BY <1>4, PairStrings
  <2>2. env' = <<pair>> \o env /\ authorizers' = authorizers
    BY <1>3, <1>4
  <2>3. <<pair>> \o env \in Seq(Texts \X Texts) /\ <<pair>> \o env # <<>>
    <3> HIDE DEF pair
    <3> QED BY <1>1, <2>1, FrontFacts
  <2>4. QED BY <1>1, <1>4, <2>2, <2>3
<1>5. CASE rule = 3
  <2>1. key \in Keys /\ authorizers' = <<key>> \o authorizers /\ env' = env
    BY <1>2, <1>3, <1>5
  <2>2. /\ <<key>> \o authorizers \in Seq(Keys) /\ <<key>> \o authorizers # <<>>
        /\ ToSet(<<key>> \o authorizers) = ToSet(authorizers) \union {key}
    <3> HIDE DEF key
    <3> QED BY <1>1, <2>1, FrontFacts
  <2>3. ~ (rule \in {4, 5}) /\ ~ (rule # 3)
    BY <1>5
  <2>4. env' \in Seq(Texts \X Texts) /\ authorizers' \in Seq(Keys)
    BY <1>1, <2>1, <2>2
  <2>5. /\ authorizers' = <<stack[Len(stack)].v>> \o authorizers
        /\ authorizers' # <<>>
        /\ ToSet(authorizers') = ToSet(authorizers) \union {stack[Len(stack)].v}
    BY <2>1, <2>2
  <2>6. QED BY <2>1, <2>3, <2>4, <2>5
<1>6. CASE rule \notin {3, 4, 5}
  BY <1>1, <1>3, <1>6
<1>7. QED BY <1>4, <1>5, <1>6

\* A reduction in a file of attributes adds the pair that was on its way.
LEMMA ReduceReading ==
    ASSUME IInv, pc = "parse", option.opt = "e", NEW rule \in 2 .. 6, Adds(rule),
           rule = 2 => state = 4, rule = 3 => state = 1,
           rule = 4 => state = 7 /\ token.t \notin {"VSTRING", "none"},
           rule = 5 => state = 7 /\ token.t = "VSTRING", rule = 6 => state = 9,
           UNCHANGED <<cmd, at, text, pos, start, token, option>>,
           rule = 2 => state' = 3, rule \in {4, 6} => state' \in {4, 9},
           rule = 5 => state' = 8
    PROVE  rule # 3 /\ Reading'
<1>1. Reading
  BY DEF IInv, Attributes
<1>2. rule # 3
  <2>1. ASSUME state = 1 PROVE FALSE
    BY <1>1, <2>1 DEF Reading, BeforeString, AtString, BehindString, LastPair,
                      AllPairs, NoPair, At
  <2>2. QED BY <2>1
<1>3. /\ cmd \in CommandLines /\ at \in Nat /\ option.arg \in File
      /\ env \in Seq(Texts \X Texts)
  <2>1. at \in 1 .. Len(cmd.options) /\ cmd \in CommandLines
    BY InParse
  <2>2. QED BY <2>1, InParse, OptionTypes DEF IInv, Typed
<1>4. /\ PairsIn(option.arg) \in SUBSET Nat
      /\ \A e : ReadPairs(option.arg, e) \in SUBSET Nat
  <2>1. PairsIn(option.arg) \subseteq Nat
    BY <1>3, ClosedFacts
  <2>2. QED BY <2>1 DEF ReadPairs
<1> DEFINE name == stack[Len(stack) - 2].v
           value == stack[Len(stack)].v
<1>5. CASE rule = 5
  <2>1. state = 7 /\ token.t = "VSTRING"
    BY <1>5
  <2>2. /\ ~ LastPair /\ ~ AllPairs /\ ~ NoPair
        /\ \A e : ~ BeforeString(e) /\ ~ AtString(e)
    BY <2>1 DEF BeforeString, AtString, LastPair, AllPairs, NoPair, At
  <2>3. PICK e \in Nat : /\ text = option.arg /\ Lexed(option.arg, e, pos, start)
                         /\ BehindString(e)
    BY <1>1, <2>2 DEF Reading
  <2>4. /\ start = "MIDDLEPART"
        /\ Pending(cmd, at, env, ReadPairs(option.arg, e), name, value)
        /\ token.v = Name(option.arg, e)
    BY <2>1, <2>3 DEF BehindString, At
  <2>5. env' = <<<<name, value>>>> \o env /\ name \in Texts /\ value \in Texts
    <3>1. rule \in {4, 5} => state = 7
      BY <2>1
    <3>2. env' = <<<<name, value>>>> \o env
      BY <1>2, <1>5, <3>1, AddsTypes
    <3>3. name \in Texts /\ value \in Texts
      BY <2>1, PairStrings
    <3>4. QED BY <3>2, <3>3
  <2> HIDE DEF name, value
  <2>6. Has(cmd, env', AndHere(cmd, at, ReadPairs(option.arg, e)))
    BY <1>3, <1>4, <2>4, <2>5, PendingAdded
  <2>7. state' = 8
    BY <1>5
  <2>8. BeforeString(e)'
    BY <2>1, <2>4, <2>6, <2>7 DEF BeforeString, At
  <2>9. QED BY <1>2, <2>3, <2>8 DEF Reading
<1>6. CASE rule = 4
  <2>1. state = 7 /\ token.t \notin {"VSTRING", "none"} /\ state' \in {4, 9}
    BY <1>6
  <2>2. /\ ~ AllPairs /\ ~ NoPair
        /\ \A e : ~ BeforeString(e) /\ ~ AtString(e) /\ ~ BehindString(e)
    BY <2>1 DEF BeforeString, AtString, BehindString, AllPairs, NoPair, At
  <2>3. LastPair
    BY <1>1, <2>2 DEF Reading
  <2>4. token.t = "$end" /\ Pending(cmd, at, env, PairsIn(option.arg), name, value)
    BY <2>3 DEF LastPair
  <2>5. /\ env' = <<<<name, value>>>> \o env /\ env' # <<>>
        /\ name \in Texts /\ value \in Texts
    BY <1>6, <2>1, AddsTypes, PairStrings
  <2> HIDE DEF name, value
  <2>6. Has(cmd, env', AndHere(cmd, at, PairsIn(option.arg)))
    BY <1>3, <1>4, <2>4, <2>5, PendingAdded
  <2>7. AllPairs'
    BY <2>1, <2>4, <2>5, <2>6 DEF AllPairs
  <2>8. QED BY <1>2, <2>7 DEF Reading
<1>7. CASE rule \in {2, 6}
  <2>1. state \in {4, 9} /\ state' \in {3, 4, 9}
    BY <1>7
  <2>2. /\ ~ LastPair /\ ~ NoPair
        /\ \A e : ~ BeforeString(e) /\ ~ AtString(e) /\ ~ BehindString(e)
    BY <2>1 DEF BeforeString, AtString, BehindString, LastPair, NoPair, At
  <2>3. AllPairs /\ env' = env
    BY <1>1, <1>7, <2>2 DEF Reading, Adds
  <2>4. AllPairs'
    BY <2>1, <2>3 DEF AllPairs
  <2>5. QED BY <1>2, <2>4 DEF Reading
<1>8. QED BY <1>2, <1>5, <1>6, <1>7

\* A reduction in a file of keys adds the key that was read.
LEMMA ReduceReadingKey ==
    ASSUME IInv, pc = "parse", option.opt = "k", NEW rule \in 2 .. 6, Adds(rule),
           rule = 2 => state = 4, rule = 3 => state = 1 /\ Last(stack).v \in Keys,
           rule \in {4, 5} => state = 7, rule = 6 => state = 9,
           UNCHANGED <<cmd, at, text, pos, start, token, option>>,
           rule = 3 => state' = 3 /\ keynote_errno' = "none"
    PROVE  rule = 3 /\ ReadingKey'
<1>1. ReadingKey
  BY DEF IInv, Askers
<1>2. state \in {0, 1, 3, 6}
  BY <1>1 DEF ReadingKey, BeforeKey, AtKey, BehindKey, KeyIsAdded, AllKeys,
              NoKey, At
<1>3. rule = 3 /\ state = 1
  BY <1>2
<1>4. BehindKey /\ ToSet(authorizers) = KeysOf(cmd, at)
  BY <1>1, <1>3 DEF ReadingKey, BeforeKey, AtKey, KeyIsAdded, AllKeys, NoKey, At
<1> DEFINE key == stack[Len(stack)].v
<1>5. /\ authorizers' # <<>>
      /\ ToSet(authorizers') = ToSet(authorizers) \union {key}
  BY <1>3, AddsTypes
<1>6. token.t = "none" /\ start = "FIRSTPART" /\ KeyIs(key)
  BY <1>4 DEF BehindKey, At
<1>7. key \in Texts
  <2>1. /\ IsPath(stack) /\ Len(stack) \in 1 .. Len(stack)
        /\ stack[Len(stack)].state = 1
    <3>1. Len(stack) \in Nat /\ Len(stack) >= 1
      BY InParse
    <3>2. QED BY <1>3, <3>1, InParse
  <2>2. QED BY <2>1 DEF IsPath
<1> HIDE DEF key
<1>8. KeyIsAdded'
  <2>1. PICK v \in Texts : v = key
    BY <1>7
  <2>2. KeyIs(v)' /\ (ToSet(authorizers) = KeysOf(cmd, at) \union {v})'
    BY <1>4, <1>5, <1>6, <2>1 DEF KeyIs, Key
  <2>3. QED BY <1>3, <1>5, <1>6, <2>2 DEF KeyIsAdded, At
<1>9. ReadingKey'
  <2>1. text' = TextOf(cmd', at')
    BY <1>1 DEF ReadingKey
  <2>2. QED BY <1>8, <2>1 DEF ReadingKey
<1>10. QED BY <1>3, <1>9

\* A reduction.
LEMMA ReduceStep ==
    ASSUME IInv, Reduce
    PROVE  IInv'
<1>1. pc = "parse" /\ UNCHANGED <<cmd, buf, text, pos, start, table, out>>
  BY ReduceCases
<1>2. PICK rule \in 2 .. 6 :
          /\ Reduces(rule) /\ Adds(rule)
          /\ rule = 2 => state = 4
          /\ rule = 3 => state = 1 /\ Last(stack).v \in Keys
          /\ rule = 4 => state = 7 /\ token.t \notin {"VSTRING", "none"}
          /\ rule = 5 => state = 7 /\ token.t = "VSTRING"
          /\ rule = 6 => state = 9
  BY ReduceCases
<1> DEFINE left == SubSeq(stack, 1, Len(stack) - PopLength(rule))
           goto == Goto(rule, Last(left).state)
           value == [state |-> goto, v |-> None]
           errno == IF rule \in {3, 4, 5} THEN "none" ELSE keynote_errno
<1>3. keynote_errno \in {"none", "SYNTAX"} /\ option.opt \in {"e", "k"}
  BY <1>1, InParse
<1>4. /\ MayFollow(left, value)
      /\ rule \in {2, 3} => goto = 3
      /\ rule = 5 => goto = 8
      /\ rule \in {4, 6} => goto \in {4, 9}
  BY <1>1, <1>2, ReductionStack
<1>5. /\ env' \in Seq(Texts \X Texts) /\ authorizers' \in Seq(Keys)
      /\ env # <<>> => env' # <<>>
      /\ authorizers # <<>> => authorizers' # <<>>
      /\ rule \notin {4, 5} => env' = env
      /\ rule # 3 => authorizers' = authorizers
  BY <1>1, <1>2, AddsTypes
<1>6. errno \in {"none", "SYNTAX"} /\ Push(left, value, errno, token)
      /\ value.state = goto /\ (rule = 3 => errno = "none")
  BY <1>2, <1>3 DEF Reduces
<1> HIDE DEF left, goto, value, errno
<1>7. \/ IInv'
      \/ Grown(left, value, errno, token) /\ Typed' /\ Stack'
  BY <1>1, <1>4, <1>5, <1>6, Pushed
<1>8. ASSUME Grown(left, value, errno, token), Typed', Stack'
      PROVE  IInv'
  <2>1. /\ UNCHANGED <<cmd, at, pc, buf, text, pos, start, token, table, out, option>>
        /\ state' = goto /\ keynote_errno' = errno
    BY <1>6, <1>8 DEF Grown
  <2>2. option.opt = "e" => rule # 3 /\ Reading'
    BY <1>1, <1>2, <1>4, <2>1, ReduceReading
  <2>3. option.opt = "k" => rule = 3 /\ ReadingKey'
    BY <1>1, <1>2, <1>4, <1>6, <2>1, ReduceReadingKey
  <2>4. option.opt = "e" => UNCHANGED authorizers
    BY <1>5, <2>2
  <2>5. option.opt = "k" => UNCHANGED env
    BY <1>5, <2>3
  <2>6. keynote_errno' # "NOTFOUND"
    BY <1>6, <2>1
  <2>7. QED BY <1>1, <1>5, <1>8, <2>1, <2>2, <2>3, <2>4, <2>5, <2>6, GoesOn
<1>9. QED BY <1>7, <1>8

-------------------------------------------------------------------------------
(***************************************************************************)
(* The query.                                                              *)
(***************************************************************************)

\* What RemoveAt leaves of a list.
LEMMA RemoveAtFacts ==
    ASSUME NEW S, NEW s \in Seq(S), NEW p \in 1 .. Len(s)
    PROVE  /\ RemoveAt(s, p) \in Seq(S)
           /\ Len(RemoveAt(s, p)) = Len(s) - 1
           /\ \A i \in 1 .. Len(s) - 1 :
                  RemoveAt(s, p)[i] = s[IF i < p THEN i ELSE i + 1]
<1> DEFINE front == SubSeq(s, 1, p - 1)
           back == SubSeq(s, p + 1, Len(s))
<1>1. Len(s) \in Nat /\ p \in Nat /\ p >= 1 /\ p <= Len(s)
  OBVIOUS
<1>2. /\ front \in Seq(S) /\ Len(front) = p - 1
      /\ \A i \in 1 .. p - 1 : front[i] = s[i]
  <2>1. \A i \in 1 .. p - 1 : s[i] \in S
    BY <1>1
  <2>2. /\ SubSeq(s, 1, p - 1) \in Seq(S)
        /\ Len(SubSeq(s, 1, p - 1)) = IF 1 <= p - 1 THEN (p - 1) - 1 + 1 ELSE 0
        /\ \A i \in 1 .. (p - 1) - 1 + 1 : SubSeq(s, 1, p - 1)[i] = s[1 + i - 1]
    BY <1>1, <2>1, SubSeqProperties
  <2>3. QED BY <1>1, <2>2
<1>3. /\ back \in Seq(S) /\ Len(back) = Len(s) - p
      /\ \A i \in 1 .. Len(s) - p : back[i] = s[p + i]
  <2>1. \A i \in p + 1 .. Len(s) : s[i] \in S
    BY <1>1
  <2>2. /\ SubSeq(s, p + 1, Len(s)) \in Seq(S)
        /\ Len(SubSeq(s, p + 1, Len(s))) =
               IF p + 1 <= Len(s) THEN Len(s) - (p + 1) + 1 ELSE 0
        /\ \A i \in 1 .. Len(s) - (p + 1) + 1 :
               SubSeq(s, p + 1, Len(s))[i] = s[(p + 1) + i - 1]
    BY <1>1, <2>1, SubSeqProperties
  <2>3. QED BY <1>1, <2>2
<1> HIDE DEF front, back
<1>4. /\ front \o back \in Seq(S)
      /\ Len(front \o back) = Len(s) - 1
      /\ \A i \in 1 .. Len(s) - 1 :
             (front \o back)[i] = IF i <= p - 1 THEN front[i]
                                  ELSE back[i - (p - 1)]
  <2>1. /\ front \o back \in Seq(S)
        /\ Len(front \o back) = Len(front) + Len(back)
        /\ \A i \in 1 .. Len(front) + Len(back) :
               (front \o back)[i] = IF i <= Len(front) THEN front[i]
                                    ELSE back[i - Len(front)]
    BY <1>2, <1>3, ConcatProperties
  <2>2. Len(front) = p - 1 /\ Len(front) + Len(back) = Len(s) - 1
    BY <1>1, <1>2, <1>3
  <2>3. QED BY <2>1, <2>2
<1>5. RemoveAt(s, p) = front \o back
  BY DEF RemoveAt, front, back
<1>6. ASSUME NEW i \in 1 .. Len(s) - 1
      PROVE  (front \o back)[i] = s[IF i < p THEN i ELSE i + 1]
  <2>1. CASE i < p
    BY <1>1, <1>2, <1>4, <2>1
  <2>2. CASE ~ (i < p)
    <3>1. i - (p - 1) \in 1 .. Len(s) - p /\ p + (i - (p - 1)) = i + 1
      BY <1>1, <2>2
    <3>2. (front \o back)[i] = back[i - (p - 1)]
      BY <1>1, <1>4, <2>2
    <3>3. back[i - (p - 1)] = s[i + 1]
      BY <1>3, <3>1
    <3>4. QED BY <2>2, <3>2, <3>3
  <2>3. QED BY <2>1, <2>2
<1>7. QED BY <1>4, <1>5, <1>6

\* Where a query is asked, its values were given.
LEMMA ValuesFacts ==
    ASSUME cmd \in CommandLines, OptionsOf(cmd, "r") # {}
    PROVE  /\ ReturnValues = ValuesOf(cmd)
           /\ \A p \in DOMAIN ReturnValues : ReturnValues[p] \in STRING
<1> DEFINE I == {i \in 1 .. Len(cmd.options) : cmd.options[i].opt = "r"}
           f == SelectInSeq(cmd.options, LAMBDA o : o.opt = "r")
<1>1. Len(cmd.options) \in Nat /\ DOMAIN cmd.options = 1 .. Len(cmd.options)
  BY OptionTypes
<1>2. I \in SUBSET (1 .. Len(cmd.options)) /\ I # {}
  BY <1>1 DEF OptionsOf
<1>3. f = IF I # {} THEN Min(I) ELSE 0
  BY DEF SelectInSeq
<1>4. \A i \in I : i \in 1 .. Len(cmd.options) /\ cmd.options[i].opt = "r"
  OBVIOUS
<1>5. ReturnValues = cmd.options[f].arg /\ ValuesOf(cmd) = cmd.options[f].arg
  BY DEF ReturnValues, ValuesOf
<1> HIDE DEF I, f
<1>6. f \in I
  BY <1>1, <1>2, <1>3, FirstPlace
<1>7. f \in 1 .. Len(cmd.options) /\ cmd.options[f].opt = "r"
  BY <1>4, <1>6
<1>8. cmd.options[f].arg \in Seq(STRING)
  BY <1>7, OptionTypes
<1>9. QED BY <1>5, <1>8

\* The search keeps what an assertion is.
LEMMA SearchedFacts ==
    ASSUME NEW a \in AssertionType, ~ a.error, a.sigresult = "untouched", NEW reached
    PROVE  LET s == Searched(a, reached)
           IN  /\ s \in AssertionType
               /\ s.id = a.id /\ s.kind = a.kind /\ s.local = a.local
               /\ s.error => s.kind \in {"badlics", "badcond"}
               /\ s.sigresult = "false" => s.kind = "badsig" /\ ~ s.local
<1> DEFINE error == a.kind = "badlics" \/ (a.kind = "badcond" /\ a.id \in reached)
           sig == IF a.id \notin reached \/ a.kind = "badcond" THEN a.sigresult
                  ELSE IF a.kind = "badsig" /\ ~ a.local THEN "false" ELSE "true"
           s == Searched(a, reached)
<1>1. /\ a.id \in Nat /\ a.kind \in Kinds \ {"unparsable"} /\ a.local \in BOOLEAN
      /\ a = [id |-> a.id, kind |-> a.kind, local |-> a.local,
              error |-> a.error, sigresult |-> a.sigresult]
  BY DEF AssertionType
<1>2. s = [id |-> a.id, kind |-> a.kind, local |-> a.local,
           error |-> error, sigresult |-> sig]
  <2> DEFINE b == [a EXCEPT !.error = error]
  <2>1. b = [id |-> a.id, kind |-> a.kind, local |-> a.local,
             error |-> error, sigresult |-> a.sigresult]
    <3> HIDE DEF error
    <3> QED BY <1>1
  <2>2. s = [b EXCEPT !.sigresult = sig]
    BY <2>1 DEF Searched
  <2> HIDE DEF b, sig, error
  <2>3. QED BY <2>1, <2>2
<1>3. error \in BOOLEAN /\ (error => a.kind \in {"badlics", "badcond"})
  OBVIOUS
<1>4. sig \in {"untouched", "true", "false"}
      /\ (sig = "false" => a.kind = "badsig" /\ ~ a.local)
  OBVIOUS
<1> HIDE DEF error, sig, s
<1>5. s \in AssertionType
  BY <1>1, <1>2, <1>3, <1>4 DEF AssertionType
<1>6. QED BY <1>2, <1>3, <1>4, <1>5 DEF s

\* The session at the query.
LEMMA AtQuery ==
    ASSUME IInv, pc = "query"
    PROVE  /\ cmd \in CommandLines /\ OptionsOf(cmd, "r") # {} /\ out = <<>>
           /\ table \in Seq(AssertionType) /\ Len(table) \in Nat
           /\ DOMAIN table = 1 .. Len(table)
           /\ authorizers # <<>> /\ env # <<>>
           /\ \A i \in 1 .. Len(table) :
                  /\ table[i] \in AssertionType /\ table[i].id = i - 1
                  /\ ~ table[i].error /\ table[i].sigresult = "untouched"
           /\ \E l \in Places(Len(table), AssertionsOf(cmd, Size(cmd) + 1)) :
                  \A i \in 1 .. Len(table) : Is(cmd, table[i], l[i])
<1>1. HasAssertions(cmd, table, AssertionsOf(cmd, Size(cmd) + 1))
  BY DEF IInv, Assertions
<1>2. /\ cmd \in CommandLines /\ OptionsOf(cmd, "r") # {} /\ out = <<>>
      /\ authorizers # <<>> /\ env # <<>> /\ table \in Seq(AssertionType)
  BY DEF IInv, Typed, Position, Attributes, Askers, Unasked
<1>3. \A i \in 1 .. Len(table) : table[i] \in AssertionType
  BY <1>2
<1>4. QED BY <1>1, <1>2, <1>3 DEF HasAssertions

\* A query that has a value.
Answered(reached, value) ==
    /\ table' = [i \in DOMAIN table |-> Searched(table[i], reached)]
    /\ out' = <<<<"Result", value>>>>

\* When the query has answered, what is printed and what is in the table
\* account for the files.
LEMMA AnsweredReports ==
    ASSUME IInv, pc = "query", UNCHANGED cmd, pc' = "SYNTAX",
           NEW reached, NEW value, Answered(reached, value)
    PROVE  Reports' /\ table' \in Seq(AssertionType)
<1> DEFINE n == Len(table)
<1>1. /\ n \in Nat /\ DOMAIN table = 1 .. n
      /\ \A i \in 1 .. n :
             /\ table[i] \in AssertionType /\ table[i].id = i - 1
             /\ ~ table[i].error /\ table[i].sigresult = "untouched"
  BY AtQuery
<1>2. PICK l \in Places(n, AssertionsOf(cmd, Size(cmd) + 1)) :
          \A i \in 1 .. n : Is(cmd, table[i], l[i])
  BY AtQuery
<1>3. \A i \in 1 .. n :
          LET s == Searched(table[i], reached)
          IN  /\ s \in AssertionType
              /\ s.id = i - 1 /\ s.kind = table[i].kind /\ s.local = table[i].local
              /\ s.error => s.kind \in {"badlics", "badcond"}
              /\ s.sigresult = "false" => s.kind = "badsig" /\ ~ s.local
  BY <1>1, SearchedFacts
<1> HIDE DEF n
<1>4. table' = [i \in 1 .. n |-> Searched(table[i], reached)]
  <2>1. table' = [i \in DOMAIN table |-> Searched(table[i], reached)]
    BY Zenon DEF Answered
  <2>2. QED BY <1>1, <2>1
<1>5. /\ table' \in Seq(AssertionType) /\ Len(table') = n
      /\ \A i \in 1 .. n : table'[i] = Searched(table[i], reached)
  <2>1. table' \in [1 .. n -> AssertionType]
    BY <1>3, <1>4
  <2>2. QED BY <1>1, <1>4, <2>1
<1>6. /\ out' # <<>> /\ out'[1][1] = "Result" /\ Len(out') = 1
      /\ 2 .. Len(out') = {} /\ Len(out') - 1 + Len(table') = n
  <2> DEFINE x == <<"Result", value>>
  <2>1. out' = <<x>>
    BY Zenon DEF Answered
  <2>2. x[1] = "Result"
    OBVIOUS
  <2> HIDE DEF x
  <2>3. out' # <<>> /\ out'[1] = x /\ Len(out') = 1
    BY <2>1
  <2>4. 2 .. Len(out') = {} /\ Len(out') - 1 + Len(table') = n
    BY <1>1, <1>5, <2>3
  <2>5. QED BY <2>2, <2>3, <2>4
<1>7. \A i \in 1 .. n : (i - 1) + 1 = i /\ i - 1 \in 0 .. n - 1
  BY <1>1
<1>8. \A i \in 1 .. n : Is(cmd, table'[i], l[table'[i].id + 1])
  <2>1. ASSUME NEW i \in 1 .. n
        PROVE  Is(cmd, table'[i], l[table'[i].id + 1])
    <3>1. /\ table'[i].kind = table[i].kind /\ table'[i].local = table[i].local
          /\ table'[i].id + 1 = i
      BY <1>3, <1>5, <1>7
    <3>2. Is(cmd, table[i], l[i])
      BY <1>2
    <3>3. QED BY <3>1, <3>2 DEF Is
  <2>2. QED BY <2>1
<1>9. {table'[i].id : i \in 1 .. n} = 0 .. n - 1
  <2>1. \A i \in 1 .. n : table'[i].id = i - 1
    BY <1>3, <1>5
  <2>2. \A k \in 0 .. n - 1 : k + 1 \in 1 .. n /\ (k + 1) - 1 = k
    BY <1>1
  <2>3. QED BY <1>7, <2>1, <2>2
<1>10. Accounted(cmd, out', table', n)
  BY <1>2, <1>5, <1>6, <1>8, <1>9 DEF Accounted
<1>11. \A i, j \in 1 .. n : table'[i].id = table'[j].id => i = j
  <2>1. \A i \in 1 .. n : table'[i].id = i - 1
    BY <1>3, <1>5
  <2>2. \A i, j \in 1 .. n : i - 1 = j - 1 => i = j
    BY <1>1
  <2>3. QED BY <2>1, <2>2
<1>12. \A i \in 1 .. n :
           /\ table'[i].error => table'[i].kind \in {"badlics", "badcond"}
           /\ table'[i].sigresult = "false" =>
                  table'[i].kind = "badsig" /\ ~ table'[i].local
  BY <1>3, <1>5
<1>13. out'[1][1] = "Result"
  BY <1>6
<1>14. Accounted(cmd', out', table', Len(out') - 1 + Len(table'))
  BY <1>6, <1>10
<1>15. QED BY <1>5, <1>6, <1>11, <1>12, <1>13, <1>14 DEF Reports

\* What a grant rests on when its value is not the lowest one.
LEMMA GroundsOfGrant ==
    ASSUME IInv, pc = "query", UNCHANGED <<cmd, env, authorizers>>,
           NEW reached, NEW p \in Values(reached),
           ~ \E i \in DOMAIN table : table[i].kind = "badauth",
           Answered(reached, ReturnValues[p])
    PROVE  Grounds'
<1> DEFINE P == AssertionsOf(cmd, Size(cmd) + 1)
           value == ReturnValues[p]
           x == <<"Result", value>>
<1>1. /\ authorizers # <<>> /\ env # <<>> /\ cmd \in CommandLines
      /\ OptionsOf(cmd, "r") # {} /\ DOMAIN table = 1 .. Len(table)
  BY AtQuery
<1>2. PICK l \in Places(Len(table), P) : \A i \in 1 .. Len(table) : Is(cmd, table[i], l[i])
  BY AtQuery
<1>3. /\ l \in [1 .. Len(table) -> P] /\ \A q \in P : \E i \in 1 .. Len(table) : l[i] = q
  BY <1>2 DEF Places, Range
<1>4. out'[1] = x
  <2>1. out' = <<x>>
    BY Zenon DEF Answered
  <2> HIDE DEF x
  <2>2. QED BY <2>1
<1>5. ASSUME x = <<"Result", "authorized">>, ValuesOf(cmd)[1] # "authorized"
      PROVE  p # 1
  <2>1. value = "authorized"
    BY <1>5
  <2>2. ReturnValues = ValuesOf(cmd)
    BY <1>1, ValuesFacts
  <2>3. QED BY <1>5, <2>1, <2>2
<1> HIDE DEF x
<1>6. \A q \in P : FileOf(cmd, q).kind # "badauth"
  <2>1. ASSUME NEW q \in P PROVE FileOf(cmd, q).kind # "badauth"
    <3>1. PICK i \in 1 .. Len(table) : l[i] = q
      BY <1>3
    <3>2. Is(cmd, table[i], q) /\ i \in DOMAIN table
      BY <1>1, <1>2, <3>1
    <3>3. QED BY <3>2 DEF Is
  <2>2. QED BY <2>1
<1>7. ASSUME p # 1
      PROVE  \E q \in P : /\ q <= Len(cmd.options)
                          /\ FileOf(cmd, q).kind \in {"good", "badsig"}
  <2>1. PICK i \in DOMAIN table : /\ table[i].id \in reached /\ table[i].local
                                  /\ table[i].kind \in {"good", "badsig"}
    <3>1. CASE \E i \in DOMAIN table : /\ table[i].id \in reached /\ table[i].local
                                       /\ table[i].kind \in {"good", "badsig"}
      BY <3>1
    <3>2. CASE ~ \E i \in DOMAIN table : /\ table[i].id \in reached /\ table[i].local
                                         /\ table[i].kind \in {"good", "badsig"}
      <4>1. Values(reached) = {1}
        BY Zenon, <3>2 DEF Values
      <4>2. QED BY <1>7, <4>1
    <3>3. QED BY <3>1, <3>2
  <2>2. Is(cmd, table[i], l[i]) /\ l[i] \in P
    BY <1>1, <1>2, <1>3
  <2>3. l[i] <= Len(cmd.options) /\ FileOf(cmd, l[i]).kind \in {"good", "badsig"}
    BY <2>1, <2>2 DEF Is
  <2>4. QED BY <2>2, <2>3
<1> HIDE DEF P
<1>8. ASSUME out'[1] = <<"Result", "authorized">>, ValuesOf(cmd)[1] # "authorized"
      PROVE  /\ authorizers # <<>> /\ env # <<>>
             /\ \A q \in P : FileOf(cmd, q).kind # "badauth"
             /\ \E q \in P : q <= Len(cmd.options)
                             /\ FileOf(cmd, q).kind \in {"good", "badsig"}
  <2>1. x = <<"Result", "authorized">>
    BY <1>4, <1>8
  <2>2. p # 1
    BY <1>5, <1>8, <2>1
  <2>3. QED BY <1>1, <1>6, <1>7, <2>2
<1>9. QED BY <1>8 DEF Grounds, P

\* The query.
LEMMA QueryStep ==
    ASSUME IInv, kn_do_query
    PROVE  IInv'
<1>1. /\ pc = "query"
      /\ UNCHANGED <<cmd, at, buf, text, pos, start, stack, token, env, authorizers>>
  BY DEF kn_do_query, parserVars
<1>2. /\ out = <<>> /\ cmd \in CommandLines /\ OptionsOf(cmd, "r") # {}
      /\ table \in Seq(AssertionType)
  BY <1>1, AtQuery
<1>3. PICK reached \in SUBSET Ids, p \in DOMAIN ReturnValues :
          IF \E i \in DOMAIN table : table[i].kind = "badauth"
          THEN /\ keynote_errno' = "SYNTAX"
               /\ UNCHANGED table
               /\ PrintResult(p)
          ELSE /\ keynote_errno' = "none"
               /\ p \in Values(reached)
               /\ table' = [i \in DOMAIN table |-> Searched(table[i], reached)]
               /\ PrintResult(p)
  BY DEF kn_do_query
<1>4. ReturnValues[p] \in STRING
  BY <1>2, ValuesFacts
<1>5. Buffer' /\ Stack'
  <2>1. pc' # "parse"
    BY <1>3 DEF PrintResult
  <2>2. QED BY <1>1, <2>1 DEF IInv, Buffer, Stack
<1>6. ASSUME NEW v \in STRING \union {"error"}, out' = Append(out, <<"Result", v>>)
      PROVE  /\ out' = <<<<"Result", v>>>> /\ out'[1] = <<"Result", v>>
             /\ out' \in Seq(Line)
  <2> DEFINE x == <<"Result", v>>
  <2>1. x \in Line
    BY DEF Line
  <2> HIDE DEF x
  <2>2. out' = <<x>> /\ out'[1] = x /\ out' \in Seq(Line)
    <3>1. out' = Append(out, x)
      BY <1>6 DEF x
    <3>2. QED BY <1>2, <2>1, <3>1
  <2>3. QED BY <2>2 DEF x
<1>7. CASE \E i \in DOMAIN table : table[i].kind = "badauth"
  <2>1. /\ keynote_errno' = "SYNTAX" /\ table' = table
        /\ out' = Append(out, <<"Result", "error">>) /\ pc' = "exited"
    BY <1>3, <1>7 DEF PrintResult
  <2>2. out'[1] = <<"Result", "error">> /\ out' \in Seq(Line)
    <3> DEFINE v == "error"
    <3>1. v \in STRING \union {"error"}
      OBVIOUS
    <3>2. out' = Append(out, <<"Result", v>>)
      BY <2>1, Zenon
    <3> HIDE DEF v
    <3>3. out'[1] = <<"Result", v>> /\ out' \in Seq(Line)
      BY <1>6, <3>1, <3>2
    <3>4. QED BY <3>3 DEF v
  <2>3. Typed'
    BY <1>1, <2>1, <2>2 DEF IInv, Typed, NoToken
  <2>4. Grounds'
    <3>1. <<"Result", "error">> # <<"Result", "authorized">>
      OBVIOUS
    <3>2. QED BY <2>2, <3>1 DEF Grounds
  <2>5. Position' /\ Attributes' /\ Askers' /\ Assertions' /\ Reports'
    BY <2>1 DEF Position, Attributes, Askers, Assertions, Reports, Reporting,
                Unasked
  <2>6. QED BY <1>5, <2>3, <2>4, <2>5 DEF IInv
<1>8. CASE ~ \E i \in DOMAIN table : table[i].kind = "badauth"
  <2>1. /\ keynote_errno' = "none" /\ p \in Values(reached)
        /\ table' = [i \in DOMAIN table |-> Searched(table[i], reached)]
        /\ out' = Append(out, <<"Result", ReturnValues[p]>>) /\ pc' = "SYNTAX"
    BY <1>3, <1>8 DEF PrintResult
  <2>2. out' = <<<<"Result", ReturnValues[p]>>>> /\ out' \in Seq(Line)
    <3> DEFINE v == ReturnValues[p]
    <3>1. v \in STRING /\ out' = Append(out, <<"Result", v>>)
      BY <1>4, <2>1
    <3> HIDE DEF v
    <3>2. out' = <<<<"Result", v>>>> /\ out' \in Seq(Line)
      BY <1>6, <3>1
    <3>3. QED BY <3>2 DEF v
  <2>3. Answered(reached, ReturnValues[p])
    BY <2>1, <2>2, Zenon DEF Answered
  <2>4. Reports' /\ table' \in Seq(AssertionType)
    BY <1>1, <2>1, <2>3, AnsweredReports
  <2>5. Grounds'
    BY <1>1, <1>8, <2>1, <2>3, GroundsOfGrant
  <2>6. Typed'
    BY <1>1, <2>1, <2>2, <2>4 DEF IInv, Typed, NoToken
  <2>7. Position' /\ Attributes' /\ Askers' /\ Assertions'
    BY <2>1 DEF Position, Attributes, Askers, Assertions, Unasked
  <2>8. QED BY <1>5, <2>4, <2>5, <2>6, <2>7 DEF IInv
<1>9. QED BY <1>7, <1>8

-------------------------------------------------------------------------------
(***************************************************************************)
(* The report.                                                             *)
(***************************************************************************)

\* While the report is made.
LEMMA AtReport ==
    ASSUME IInv, pc \in {"SYNTAX", "SIGNATURE", "ANY"}
    PROVE  /\ out \in Seq(Line) /\ Len(out) \in Nat /\ Len(out) >= 1
           /\ table \in Seq(AssertionType) /\ Len(table) \in Nat
           /\ DOMAIN table = 1 .. Len(table)
           /\ \A i \in 1 .. Len(table) : table[i] \in AssertionType
           /\ out[1][1] = "Result" /\ \A i \in 2 .. Len(out) : out[i][1] = "Failed"
           /\ Accounted(cmd, out, table, Len(out) - 1 + Len(table))
           /\ \A i, j \in 1 .. Len(table) : table[i].id = table[j].id => i = j
           /\ \A i \in 1 .. Len(table) :
                  /\ table[i].error =>
                         table[i].kind \in {"badlics", "badcond"} /\ pc = "SYNTAX"
                  /\ table[i].sigresult = "false" =>
                         /\ table[i].kind = "badsig" /\ ~ table[i].local
                         /\ pc \in {"SYNTAX", "SIGNATURE"}
<1>1. Reporting
  BY DEF Reporting
<1>2. out \in Seq(Line) /\ table \in Seq(AssertionType)
  BY DEF IInv, Typed
<1>3. out # <<>>
  BY <1>1 DEF IInv, Reports
<1>4. Len(out) \in Nat /\ Len(out) >= 1
  BY <1>2, <1>3
<1>5. \A i \in 1 .. Len(table) : table[i] \in AssertionType
  BY <1>2
<1>6. QED BY <1>1, <1>2, <1>4, <1>5 DEF IInv, Reports

Removed(u, t, i) ==
    /\ u \in Seq(AssertionType) /\ Len(u) = Len(t) - 1
    /\ \A j \in 1 .. Len(t) - 1 : u[j] = t[IF j < i THEN j ELSE j + 1]

\* An assertion is removed from the table, and nothing else.
LEMMA WithoutFacts ==
    ASSUME NEW i \in 1 .. Len(table), table \in Seq(AssertionType),
           \A j, k \in 1 .. Len(table) : table[j].id = table[k].id => j = k
    PROVE  Removed(Without(table[i].id), table, i)
<1> DEFINE I == {j \in 1 .. Len(table) : table[j].id = table[i].id}
           f == SelectInSeq(table, LAMBDA a : a.id = table[i].id)
<1>1. Len(table) \in Nat
  OBVIOUS
<1>2. f = IF I # {} THEN Min(I) ELSE 0
  BY DEF SelectInSeq
<1>3. I \in SUBSET (1 .. Len(table)) /\ I = {i}
  OBVIOUS
<1>4. Without(table[i].id) = RemoveAt(table, f)
  BY DEF Without
<1> HIDE DEF I, f
<1>5. f = i
  <2>1. f # 0 => f \in I
    BY <1>1, <1>2, <1>3, FirstPlace
  <2>2. f = 0 => I = {}
    BY <1>1, <1>2, <1>3, FirstPlace
  <2>3. QED BY <1>3, <2>1, <2>2
<1>6. QED BY <1>1, <1>4, <1>5, RemoveAtFacts DEF Removed

\* What is reported has its reason.
LEMMA ReportedReason ==
    ASSUME IInv, pc \in {"SYNTAX", "SIGNATURE", "ANY"},
           NEW i \in 1 .. Len(table), HasFailed(table[i], pc),
           NEW p, Is(cmd, table[i], p)
    PROVE  Reason(cmd, pc, p)
<1>1. /\ table[i].error =>
             table[i].kind \in {"badlics", "badcond"} /\ pc = "SYNTAX"
      /\ table[i].sigresult = "false" =>
             table[i].kind = "badsig" /\ pc \in {"SYNTAX", "SIGNATURE"}
  BY AtReport
<1>2. \/ pc = "SYNTAX" /\ table[i].error
      \/ pc = "SIGNATURE" /\ table[i].sigresult = "false"
  BY <1>1 DEF HasFailed
<1>3. FileOf(cmd, p).kind = table[i].kind
  BY DEF Is
<1>4. QED BY <1>1, <1>2, <1>3 DEF Reason

\* The account stays in order when one of the table is reported.
LEMMA ReportAccounted ==
    ASSUME NEW c, NEW o \in Seq(Line), Len(o) >= 1,
           NEW t \in Seq(AssertionType), NEW n,
           Accounted(c, o, t, n), NEW i \in 1 .. Len(t), NEW class,
           \A p : Is(c, t[i], p) => Reason(c, class, p),
           NEW o2, NEW t2, Len(o2) = Len(o) + 1,
           \A j \in 1 .. Len(o) : o2[j] = o[j],
           o2[Len(o) + 1][2] = t[i].id, o2[Len(o) + 1][3] = class,
           Len(t2) = Len(t) - 1,
           \A j \in 1 .. Len(t) - 1 : t2[j] = t[IF j < i THEN j ELSE j + 1]
    PROVE  Accounted(c, o2, t2, n)
<1> DEFINE m == Len(o)
           k == Len(t)
<1>1. m \in Nat /\ 1 <= m /\ k \in Nat /\ i \in 1 .. k
  OBVIOUS
<1>2. PICK l \in Places(n, AssertionsOf(c, Size(c) + 1)) :
          /\ \A j \in 1 .. k : Is(c, t[j], l[t[j].id + 1])
          /\ \A j \in 2 .. m : Reason(c, o[j][3], l[o[j][2] + 1])
  BY DEF Accounted
<1>3. {o[j][2] : j \in 2 .. m} \union {t[j].id : j \in 1 .. k} = 0 .. n - 1
  BY DEF Accounted
<1>4. /\ Len(o2) = m + 1 /\ \A j \in 1 .. m : o2[j] = o[j]
      /\ o2[m + 1][2] = t[i].id /\ o2[m + 1][3] = class
      /\ Len(t2) = k - 1
      /\ \A j \in 1 .. k - 1 : t2[j] = t[IF j < i THEN j ELSE j + 1]
  OBVIOUS
<1> HIDE DEF m, k
<1>5. ASSUME NEW j \in 1 .. k - 1
      PROVE  \E q \in 1 .. k : q # i /\ t2[j] = t[q]
  <2>1. CASE j < i
    <3>1. j \in 1 .. k /\ j # i
      BY <1>1, <2>1
    <3>2. t2[j] = t[j]
      BY <1>4, <2>1
    <3>3. QED BY <3>1, <3>2
  <2>2. CASE ~ (j < i)
    <3>1. j + 1 \in 1 .. k /\ j + 1 # i
      <4>1. j \in Nat /\ i \in Nat /\ j >= i /\ j + 1 <= k
        BY <1>1, <2>2
      <4>2. QED BY <1>1, <4>1
    <3>2. t2[j] = t[j + 1]
      BY <1>4, <2>2
    <3>3. QED BY <3>1, <3>2
  <2>3. QED BY <2>1, <2>2
<1>6. ASSUME NEW q \in 1 .. k, q # i
      PROVE  \E j \in 1 .. k - 1 : t2[j] = t[q]
  <2>1. CASE q < i
    <3>1. q \in 1 .. k - 1 /\ t2[q] = t[q]
      BY <1>1, <1>4, <2>1
    <3>2. QED BY <3>1
  <2>2. CASE ~ (q < i)
    <3>1. q - 1 \in 1 .. k - 1 /\ ~ (q - 1 < i) /\ (q - 1) + 1 = q
      BY <1>1, <1>6, <2>2
    <3>2. t2[q - 1] = t[q]
      BY <1>4, <3>1
    <3>3. QED BY <3>1, <3>2
  <2>3. QED BY <2>1, <2>2
<1>7. \A j \in 1 .. k - 1 : Is(c, t2[j], l[t2[j].id + 1])
  BY <1>2, <1>5
<1>8. \A j \in 2 .. m + 1 : j = m + 1 \/ (j \in 2 .. m /\ o2[j] = o[j])
  <2>1. \A j \in 2 .. m + 1 : j = m + 1 \/ (j \in 2 .. m /\ j \in 1 .. m)
    BY <1>1
  <2>2. QED BY <1>4, <2>1
<1>9. \A j \in 2 .. m + 1 : Reason(c, o2[j][3], l[o2[j][2] + 1])
  <2>1. Is(c, t[i], l[t[i].id + 1])
    BY <1>1, <1>2
  <2>2. Reason(c, class, l[t[i].id + 1])
    BY <2>1
  <2>3. ASSUME NEW j \in 2 .. m + 1 PROVE Reason(c, o2[j][3], l[o2[j][2] + 1])
    <3>1. CASE j = m + 1
      BY <1>4, <2>2, <3>1
    <3>2. CASE j # m + 1
      BY <1>2, <1>8, <3>2
    <3>3. QED BY <3>1, <3>2
  <2>4. QED BY <2>3
<1>10. {o2[j][2] : j \in 2 .. m + 1} = {o[j][2] : j \in 2 .. m} \union {t[i].id}
  <2>1. \A j \in 2 .. m : j \in 2 .. m + 1 /\ o2[j] = o[j]
    <3>1. \A j \in 2 .. m : j \in 2 .. m + 1 /\ j \in 1 .. m
      BY <1>1
    <3>2. QED BY <1>4, <3>1
  <2>2. m + 1 \in 2 .. m + 1
    BY <1>1
  <2>3. QED BY <1>4, <1>8, <2>1, <2>2
<1>11. {t[j].id : j \in 1 .. k} = {t2[j].id : j \in 1 .. k - 1} \union {t[i].id}
  <2>1. ASSUME NEW j \in 1 .. k
        PROVE  t[j].id \in {t2[q].id : q \in 1 .. k - 1} \union {t[i].id}
    <3>1. CASE j = i
      BY <3>1
    <3>2. CASE j # i
      BY <1>6, <3>2
    <3>3. QED BY <3>1, <3>2
  <2>2. ASSUME NEW j \in 1 .. k - 1
        PROVE  t2[j].id \in {t[q].id : q \in 1 .. k}
    BY <1>5
  <2>3. t[i].id \in {t[q].id : q \in 1 .. k}
    BY <1>1
  <2>4. QED BY <2>1, <2>2, <2>3
<1>12. {o2[j][2] : j \in 2 .. m + 1} \union {t2[j].id : j \in 1 .. k - 1} = 0 .. n - 1
  BY <1>3, <1>10, <1>11
<1>13. QED BY <1>2, <1>4, <1>7, <1>9, <1>12 DEF Accounted

\* The classes of failures the command asks for.
LEMMA ClassNames ==
    ToSet(Classes) = {"SYNTAX", "SIGNATURE", "ANY"}
<1>1. DOMAIN Classes = {1, 2, 3}
  BY DEF Classes
<1>2. Classes[1] = "SYNTAX" /\ Classes[2] = "SIGNATURE" /\ Classes[3] = "ANY"
  BY DEF Classes
<1>3. QED BY <1>1, <1>2 DEF ToSet

\* An assertion that failed is reported and removed.
LEMMA ReportFailedStep ==
    ASSUME IInv, ReportFailed
    PROVE  IInv'
<1>1. PICK i \in DOMAIN table :
          /\ pc \in ToSet(Classes) /\ HasFailed(table[i], pc)
          /\ out' = Append(out, <<"Failed", table[i].id, pc>>)
          /\ table' = Without(table[i].id)
          /\ UNCHANGED <<cmd, at, pc, buf, parserVars, keynote_errno, env,
                         authorizers>>
  BY DEF ReportFailed
<1>2. /\ pc \in {"SYNTAX", "SIGNATURE", "ANY"} /\ pc' = pc
      /\ UNCHANGED <<cmd, at, buf, text, pos, start, stack, token, keynote_errno,
                     env, authorizers>>
  BY <1>1, ClassNames DEF parserVars
<1>3. /\ out \in Seq(Line) /\ Len(out) \in Nat /\ Len(out) >= 1
      /\ table \in Seq(AssertionType) /\ Len(table) \in Nat
      /\ DOMAIN table = 1 .. Len(table)
      /\ \A j \in 1 .. Len(table) : table[j] \in AssertionType
      /\ out[1][1] = "Result" /\ \A j \in 2 .. Len(out) : out[j][1] = "Failed"
      /\ Accounted(cmd, out, table, Len(out) - 1 + Len(table))
      /\ \A j, k \in 1 .. Len(table) : table[j].id = table[k].id => j = k
      /\ \A j \in 1 .. Len(table) :
             /\ table[j].error =>
                    table[j].kind \in {"badlics", "badcond"} /\ pc = "SYNTAX"
             /\ table[j].sigresult = "false" =>
                    /\ table[j].kind = "badsig" /\ ~ table[j].local
                    /\ pc \in {"SYNTAX", "SIGNATURE"}
  BY <1>2, AtReport
<1> DEFINE n == Len(table)
           m == Len(out)
           x == <<"Failed", table[i].id, pc>>
<1>4. i \in 1 .. n
  BY <1>1, <1>3
<1>5. x \in Line /\ x[1] = "Failed" /\ x[2] = table[i].id /\ x[3] = pc
  <2>1. table[i].id \in Nat
    BY <1>3, <1>4 DEF AssertionType
  <2>2. QED BY <1>2, <2>1 DEF Line
<1>6. out' = Append(out, x)
  BY <1>1
<1> HIDE DEF x
<1>7. /\ out' \in Seq(Line) /\ Len(out') = m + 1 /\ out'[m + 1] = x
      /\ \A j \in 1 .. m : out'[j] = out[j]
  BY <1>3, <1>5, <1>6
<1>8. /\ table' \in Seq(AssertionType) /\ Len(table') = n - 1
      /\ \A j \in 1 .. n - 1 : table'[j] = table[IF j < i THEN j ELSE j + 1]
  <2>1. Removed(Without(table[i].id), table, i)
    <3>1. i \in 1 .. Len(table)
      BY <1>4
    <3>2. QED BY <1>3, <3>1, WithoutFacts
  <2>2. QED BY <1>1, <2>1 DEF Removed
<1>9. \A p : Is(cmd, table[i], p) => Reason(cmd, pc, p)
  BY <1>1, <1>2, <1>4, ReportedReason
<1>10. Accounted(cmd, out', table', m - 1 + n)
  BY <1>3, <1>4, <1>5, <1>7, <1>8, <1>9, ReportAccounted
<1> HIDE DEF n, m
<1>11. n \in Nat /\ m \in Nat /\ m >= 1
  BY <1>3 DEF n, m
<1>12. Accounted(cmd', out', table', Len(out') - 1 + Len(table'))
  <2>1. Len(out') - 1 + Len(table') = m - 1 + n
    BY <1>7, <1>8, <1>11
  <2>2. QED BY <1>2, <1>10, <2>1
<1>13. /\ out' # <<>> /\ out'[1][1] = "Result"
       /\ \A j \in 2 .. Len(out') : out'[j][1] = "Failed"
  <2>1. 1 \in 1 .. m /\ Len(out') >= 1
    BY <1>7, <1>11
  <2>2. \A j \in 2 .. Len(out') : j = m + 1 \/ (j \in 2 .. m /\ j \in 1 .. m)
    BY <1>7, <1>11
  <2>3. ASSUME NEW j \in 2 .. Len(out') PROVE out'[j][1] = "Failed"
    <3>1. CASE j = m + 1
      BY <1>5, <1>7, <3>1
    <3>2. CASE j # m + 1
      BY <1>3, <1>7, <2>2, <3>2 DEF m
    <3>3. QED BY <3>1, <3>2
  <2>4. QED BY <1>3, <1>7, <2>1, <2>3
<1>14. ASSUME NEW j \in 1 .. n - 1
       PROVE  (IF j < i THEN j ELSE j + 1) \in 1 .. n
  BY <1>4, <1>11
<1>15. \A j, k \in 1 .. n - 1 : table'[j].id = table'[k].id => j = k
  <2>1. ASSUME NEW j \in 1 .. n - 1, NEW k \in 1 .. n - 1, table'[j].id = table'[k].id
        PROVE  j = k
    <3> DEFINE a == IF j < i THEN j ELSE j + 1
               b == IF k < i THEN k ELSE k + 1
    <3>1. a \in 1 .. n /\ b \in 1 .. n
      BY <1>14
    <3>2. table'[j] = table[a] /\ table'[k] = table[b]
      BY <1>8
    <3> HIDE DEF a, b
    <3>3. table[a].id = table[b].id
      BY <2>1, <3>2
    <3>4. a = b
      BY <1>3, <3>1, <3>3 DEF n
    <3>5. QED BY <1>4, <1>11, <3>4 DEF a, b
  <2>2. QED BY <2>1
<1>16. \A j \in 1 .. n - 1 :
           /\ table'[j].error =>
                  table'[j].kind \in {"badlics", "badcond"} /\ pc = "SYNTAX"
           /\ table'[j].sigresult = "false" =>
                  /\ table'[j].kind = "badsig" /\ ~ table'[j].local
                  /\ pc \in {"SYNTAX", "SIGNATURE"}
  <2>1. ASSUME NEW j \in 1 .. n - 1
        PROVE  \E q \in 1 .. Len(table) : table'[j] = table[q]
    BY <1>8, <1>14 DEF n
  <2>2. QED BY <1>3, <2>1
<1>17. Reports'
  BY <1>2, <1>8, <1>12, <1>13, <1>15, <1>16 DEF Reports
<1>18. Typed' /\ Buffer' /\ Stack'
  BY <1>2, <1>7, <1>8 DEF IInv, Typed, Buffer, Stack, NoToken
<1>19. Position' /\ Attributes' /\ Askers' /\ Assertions'
  BY <1>2 DEF Position, Attributes, Askers, Assertions, Unasked
<1>20. Grounds'
  <2>1. 1 \in 1 .. m
    BY <1>11
  <2>2. out'[1] = out[1] /\ out # <<>>
    BY <1>3, <1>7, <2>1
  <2>3. QED BY <1>2, <2>2 DEF IInv, Grounds
<1>21. QED BY <1>17, <1>18, <1>19, <1>20 DEF IInv

\* Nothing of a kind is left to be reported.
LEMMA NextClassStep ==
    ASSUME IInv, NextClass
    PROVE  IInv'
<1>1. /\ pc \in {"SYNTAX", "SIGNATURE", "ANY"}
      /\ \A i \in DOMAIN table : ~ HasFailed(table[i], pc)
      /\ keynote_errno' = "NOTFOUND"
      /\ pc' = CASE pc = "SYNTAX" -> "SIGNATURE" [] pc = "SIGNATURE" -> "ANY"
                 [] OTHER -> "exited"
      /\ UNCHANGED <<cmd, at, buf, text, pos, start, stack, token, env, authorizers,
                     table, out>>
  BY ClassNames DEF NextClass, parserVars, sessionVars
<1>2. /\ pc = "SYNTAX" => pc' = "SIGNATURE"
      /\ pc = "SIGNATURE" => pc' = "ANY"
      /\ pc = "ANY" => pc' = "exited"
  BY <1>1
<1>3. /\ out # <<>> /\ out[1][1] = "Result"
      /\ \A i \in 2 .. Len(out) : out[i][1] = "Failed"
      /\ Accounted(cmd, out, table, Len(out) - 1 + Len(table))
      /\ \A i, j \in 1 .. Len(table) : table[i].id = table[j].id => i = j
      /\ DOMAIN table = 1 .. Len(table)
      /\ \A i \in 1 .. Len(table) :
             /\ table[i].error =>
                    table[i].kind \in {"badlics", "badcond"} /\ pc = "SYNTAX"
             /\ table[i].sigresult = "false" =>
                    /\ table[i].kind = "badsig" /\ ~ table[i].local
                    /\ pc \in {"SYNTAX", "SIGNATURE"}
  BY <1>1, AtReport
<1>4. ASSUME NEW i \in 1 .. Len(table)
      PROVE  ~ table[i].error /\ (table[i].sigresult = "false" => pc = "SYNTAX")
  <2>1. ~ HasFailed(table[i], pc)
    BY <1>1, <1>3
  <2>2. CASE pc = "SYNTAX"
    BY <2>1, <2>2 DEF HasFailed
  <2>3. CASE pc = "SIGNATURE"
    BY <1>3, <2>1, <2>3 DEF HasFailed
  <2>4. CASE pc = "ANY"
    BY <1>3, <2>4
  <2>5. QED BY <1>1, <2>2, <2>3, <2>4
<1>5. Reports'
  BY <1>1, <1>2, <1>3, <1>4 DEF Reports
<1>6. pc' \in {"SIGNATURE", "ANY", "exited"}
  BY <1>1, <1>2
<1>7. Typed' /\ Buffer' /\ Stack'
  BY <1>1, <1>6 DEF IInv, Typed, Buffer, Stack, NoToken
<1>8. Position' /\ Attributes' /\ Askers' /\ Assertions'
  BY <1>6 DEF Position, Attributes, Askers, Assertions, Unasked
<1>9. Grounds'
  BY <1>1 DEF IInv, Grounds
<1>10. QED BY <1>5, <1>7, <1>8, <1>9 DEF IInv

-------------------------------------------------------------------------------
(***************************************************************************)
(* The invariant holds.                                                    *)
(***************************************************************************)

\* The command starts with everything empty.
LEMMA InitOK ==
    ASSUME Init
    PROVE  IInv
<1>1. /\ cmd \in CommandLines /\ at = 1 /\ pc = "options"
      /\ buf = [i \in 1 .. BufferSize |-> "zero"]
      /\ text = <<>> /\ pos = 0 /\ start = "INITIAL" /\ stack = <<>>
      /\ token = NoToken
      /\ keynote_errno = "none" /\ env = <<>> /\ authorizers = <<>>
      /\ table = <<>> /\ out = <<>>
  BY DEF Init
<1>2. Len(cmd.options) \in Nat /\ Size(cmd) \in Nat
  BY <1>1, OptionTypes
<1>3. Typed
  <2>1. NoToken \in Token /\ NoToken.t = "none"
    BY DEF NoToken, Token, Semantic
  <2>2. at \in 0 .. Size(cmd) + 1
    BY <1>1, <1>2
  <2>3. text \in Seq(Byte) /\ pos \in 0 .. Len(text)
    BY <1>1
  <2>4. QED BY <1>1, <2>1, <2>2, <2>3 DEF Typed, Unasked, NoToken
<1>4. Position
  BY <1>1, <1>2 DEF Position, Unasked
<1>5. Buffer
  <2>1. BufferSize \in Nat \ {0}
    BY CommandAssumption
  <2>2. /\ buf \in Seq(Byte) /\ Len(buf) = BufferSize
        /\ \A i \in 1 .. BufferSize : buf[i] = "zero"
    BY <1>1, <2>1 DEF Byte
  <2>3. buf # <<>> /\ Last(buf) = "zero"
    BY <2>1, <2>2 DEF Last
  <2>4. QED BY <2>2, <2>3 DEF Buffer
<1>6. Stack
  <2>1. stack \in Seq(Entry) /\ Len(stack) = 0
    BY <1>1
  <2>2. IsPath(stack)
    BY <2>1 DEF IsPath
  <2>3. QED BY <1>1, <2>1, <2>2, CommandAssumption DEF Stack
<1>7. /\ PairsOf(cmd, 1) = {} /\ KeysOf(cmd, 1) = {} /\ AssertionsOf(cmd, 1) = {}
  BY <1>1, FirstOption
<1>8. \A opt : ~ Given(opt)
  BY <1>1 DEF Given
<1>9. Attributes
  BY <1>1, <1>7, <1>8, HasNone DEF Attributes
<1>10. Askers
  <2>1. Holds(cmd, at - 1, buf)
    <3>1. \A j \in OptionsOf(cmd, "k") \union OptionsOf(cmd, "l") : ~ (j <= 0)
      <4>1. DOMAIN cmd.options = 1 .. Len(cmd.options)
        BY <1>1, OptionTypes
      <4>2. \A j \in 1 .. Len(cmd.options) : ~ (j <= 0)
        BY <1>2
      <4>3. QED BY <4>1, <4>2 DEF OptionsOf
    <3>2. \A n : WritersOf(cmd, 0, n) = {}
      BY <3>1 DEF WritersOf
    <3>3. \A n : WrittenOf(cmd, 0, n) = "zero"
      BY <3>2 DEF WrittenOf
    <3>4. \A n \in 1 .. Len(buf) : buf[n] = "zero"
      BY <1>1, CommandAssumption
    <3>5. Holds(cmd, 0, buf)
      BY <3>1, <3>3, <3>4 DEF Holds
    <3>6. at - 1 = 0
      BY <1>1
    <3>7. QED BY <3>5, <3>6
  <2>2. ToSet(<<>>) = {} /\ EachHasKey(cmd, 1)
    BY <1>1, FirstOption DEF ToSet
  <2>3. QED BY <1>1, <1>7, <1>8, <2>1, <2>2 DEF Askers
<1>11. Assertions
  BY <1>1, <1>7, HasNoAssertions DEF Assertions
<1>12. Reports /\ Grounds
  BY <1>1 DEF Reports, Reporting, Grounds
<1>13. QED BY <1>3, <1>4, <1>5, <1>6, <1>9, <1>10, <1>11, <1>12 DEF IInv

\* Each step of the command keeps the invariant.
LEMMA NextOK ==
    ASSUME IInv, [Next]_vars
    PROVE  IInv'
<1>1. CASE UNCHANGED vars
  <2>1. UNCHANGED <<cmd, at, pc, buf, text, pos, start, stack, token, keynote_errno,
                    env, authorizers, table, out>>
    BY <1>1 DEF vars, parserVars, sessionVars
  <2>2. option' = option /\ state' = state /\ Key' = Key
        /\ \A opt : Given(opt)' <=> Given(opt)
    BY <2>1 DEF option, state, Key, Given
  <2>3. Typed' /\ Position' /\ Buffer' /\ Stack' /\ Assertions' /\ Reports' /\ Grounds'
    BY <2>1, <2>2 DEF IInv, Typed, NoToken, Position, Buffer, Stack, Assertions,
                      Reports, Reporting, Grounds
  <2>4. Reading' <=> Reading
    BY <2>1, <2>2 DEF Reading, BeforeString, AtString, BehindString, LastPair,
                      AllPairs, NoPair, At
  <2>5. ReadingKey' <=> ReadingKey
    BY <2>1, <2>2 DEF ReadingKey, BeforeKey, AtKey, BehindKey, KeyIsAdded,
                      AllKeys, NoKey, At, KeyIs
  <2>6. Attributes'
    BY <2>1, <2>2, <2>4 DEF IInv, Attributes
  <2>7. Askers'
    BY <2>1, <2>2, <2>5 DEF IInv, Askers
  <2>8. QED BY <2>3, <2>6, <2>7 DEF IInv
<1>2. CASE Options
  <2>1. CASE OptionEnds
    BY <2>1, ExitStep DEF OptionEnds
  <2>2. QED BY <1>2, <2>1, OptionValuesStep, ReadEnvironmentStep, ParseKeyStep,
               OptionLocalStep, EndOfOptionsStep DEF Options
<1>3. CASE kvparse
  BY <1>3, LexerStep, ShiftStep, ReduceStep, AcceptStep, ParserFailsStep
     DEF kvparse
<1>4. CASE Operands
  <2>1. CASE OperandEnds
    BY <2>1, ExitStep DEF OperandEnds
  <2>2. QED BY <1>4, <2>1, OperandStep, EndOfOperandsStep DEF Operands
<1>5. CASE kn_do_query
  BY <1>5, QueryStep
<1>6. CASE Report
  BY <1>6, ReportFailedStep, NextClassStep DEF Report
<1>7. QED BY <1>1, <1>2, <1>3, <1>4, <1>5, <1>6 DEF Next

\* The invariant is inductive, so it holds at every step of the command.
THEOREM Inductive == Spec => []IInv
<1>1. Init => IInv
  BY InitOK
<1>2. IInv /\ [Next]_vars => IInv'
  BY NextOK
<1>3. QED BY <1>1, <1>2, PTL DEF Spec

\* For every command line, every file and every depth of the parser's stack the
\* variables have their types; the stack stays within its depth and on the
\* parser's first state, and the buffer has a zero byte behind what was read,
\* so that kvlex finds the end of a file of keys (keynote_verify, kvparse).
THEOREM TypeCorrect == Spec => []TypeOK
<1>1. ASSUME IInv PROVE TypeOK
  <2>1. /\ cmd \in CommandLines /\ at \in 0 .. Size(cmd) + 1
        /\ pc \in Unasked \union {"SYNTAX", "SIGNATURE", "ANY", "exited"}
        /\ text \in Seq(Byte) /\ pos \in 0 .. Len(text)
        /\ start \in {"INITIAL", "FIRSTPART", "MIDDLEPART", "SECONDPART", "KEYSTATE"}
        /\ token \in Token
        /\ keynote_errno \in {"none", "SYNTAX", "NOTFOUND"}
        /\ env \in Seq(Texts \X Texts) /\ authorizers \in Seq(Keys)
        /\ table \in Seq(AssertionType)
    BY <1>1 DEF IInv, Typed
  <2>2. at \in 0 .. Len(cmd.options) + Len(cmd.operands) + 1
    BY <2>1, Zenon DEF Size
  <2>3. pc \in {"options", "parse", "operands", "query", "exited"}
                   \union ToSet(Classes)
    BY <2>1, ClassNames DEF Unasked
  <2>4. buf \in Seq(Byte) /\ Last(buf) = "zero"
    BY <1>1 DEF IInv, Buffer
  <2>5. /\ Len(stack) < YYMAXDEPTH /\ IsPath(stack)
        /\ pc = "parse" => stack # <<>>
    BY <1>1 DEF IInv, Stack
  <2>6. stack \in Seq(Entry) /\ Len(stack) \in Nat
    BY <2>5 DEF IsPath
  <2>7. stack # <<>> => 1 \in 1 .. Len(stack)
    BY <2>6
  <2>8. pc = "parse" => stack # <<>> /\ stack[1].state = 0
    BY <2>5, <2>7 DEF IsPath
  <2>9. \A i \in 2 .. Len(stack) : stack[i].state \in 1 .. 9
    <3>1. ASSUME NEW i \in 2 .. Len(stack) PROVE stack[i].state \in 1 .. 9
      <4>1. i \in 1 .. Len(stack) /\ i # 1
        BY <2>6
      <4>2. stack[i] \in Entry /\ stack[i].state # 0
        BY <2>5, <2>6, <4>1 DEF IsPath
      <4>3. stack[i].state \in 0 .. 9
        BY <4>2 DEF Entry
      <4>4. QED BY <4>2, <4>3
    <3>2. QED BY <3>1
  <2>10. token.t \in {"none", "$end", "STRING", "VSTRING", "EQ"}
    BY <2>1 DEF Token
  <2>11. \A i \in DOMAIN env : Len(env[i]) = 2
    <3>1. \A p \in Texts \X Texts : Len(p) = 2
      OBVIOUS
    <3>2. \A i \in DOMAIN env : env[i] \in Texts \X Texts
      BY <2>1
    <3>3. QED BY <3>1, <3>2
  <2>12. QED BY <2>1, <2>2, <2>3, <2>4, <2>5, <2>8, <2>9, <2>10, <2>11 DEF TypeOK
<1>2. QED BY <1>1, Inductive, PTL

\* Whatever bytes the files hold, in whatever order and number they are named,
\* the query is about what they say: the lexer's start conditions and the
\* parser's tables find the pairs that the text has in their turn.  The keys
\* that ask are those of the texts the buffer has after each -k file, in which
\* longer files before it leave their ends (keynote_verify, kvlex, kvparse).
THEOREM QueryIsRight == Spec => []QueryIsAboutTheFiles
<1>1. ASSUME IInv PROVE QueryIsAboutTheFiles
  <2>1. SUFFICES ASSUME pc = "query"
                 PROVE  /\ \E l \in LastFirst(Len(env), PairPlaces) :
                               \A i \in DOMAIN env :
                                   env[i] = Pair(cmd.options[l[i][1]].arg, l[i][2])
                        /\ \A i \in OptionsWith("k") : KeysIn(KeyText(i)) # {}
                        /\ ToSet(authorizers) =
                               UNION {KeysIn(KeyText(i)) : i \in OptionsWith("k")}
                        /\ \E l \in Places(Len(table), AssertionPlaces) :
                               \A i \in DOMAIN table :
                                   [kind |-> table[i].kind, local |-> table[i].local]
                                       = AssertionAt(l[i])
    BY DEF QueryIsAboutTheFiles
  <2>2. /\ cmd \in CommandLines /\ env \in Seq(Texts \X Texts)
        /\ table \in Seq(AssertionType)
        /\ Has(cmd, env, PairsOf(cmd, Len(cmd.options) + 1))
        /\ ToSet(authorizers) = KeysOf(cmd, Len(cmd.options) + 1)
        /\ EachHasKey(cmd, Len(cmd.options) + 1)
        /\ HasAssertions(cmd, table, AssertionsOf(cmd, Size(cmd) + 1))
    BY <1>1, <2>1 DEF IInv, Typed, Attributes, Askers, Assertions
  <2>3. DOMAIN env = 1 .. Len(env) /\ DOMAIN table = 1 .. Len(table)
    BY <2>2
  <2>4. /\ PairsOf(cmd, Len(cmd.options) + 1) = PairPlaces
        /\ KeysOf(cmd, Len(cmd.options) + 1) =
               UNION {KeysIn(KeyText(i)) : i \in OptionsWith("k")}
        /\ \A i \in OptionsWith("k") : KeysIn(KeyText(i)) # {}
        /\ AssertionsOf(cmd, Size(cmd) + 1) = AssertionPlaces
        /\ \A p : FileOf(cmd, p) = FileAt(p)
    BY <2>2, AllPlaces
  <2>5. \E l \in LastFirst(Len(env), PairPlaces) : \A i \in DOMAIN env :
            env[i] = Pair(cmd.options[l[i][1]].arg, l[i][2])
    <3>1. Has(cmd, env, PairPlaces)
      BY <2>2, <2>4
    <3>2. QED BY <2>3, <3>1 DEF Has, PairAt
  <2>6. \E l \in Places(Len(table), AssertionPlaces) : \A i \in DOMAIN table :
            [kind |-> table[i].kind, local |-> table[i].local] = AssertionAt(l[i])
    <3>1. HasAssertions(cmd, table, AssertionPlaces)
      BY <2>2, <2>4
    <3>2. PICK l \in Places(Len(table), AssertionPlaces) :
              \A i \in 1 .. Len(table) : Is(cmd, table[i], l[i])
      BY <3>1 DEF HasAssertions
    <3>3. ASSUME NEW i \in DOMAIN table
          PROVE  [kind |-> table[i].kind, local |-> table[i].local] = AssertionAt(l[i])
      <4>1. /\ table[i].kind = FileAt(l[i]).kind
            /\ table[i].local = (l[i] <= Len(cmd.options))
        BY <2>3, <2>4, <3>2 DEF Is
      <4>2. QED BY <4>1, Zenon DEF AssertionAt
    <3>4. QED BY <3>2, <3>3
  <2>7. QED BY <2>2, <2>4, <2>5, <2>6
<1>2. QED BY <1>1, Inductive, PTL

\* A -k file that no -k or -l file before it is longer than is read as it is: the
\* text in the buffer is its bytes, up to a zero byte among them.  So a key comes
\* of two files only where the later one is shorter (parse_key, AddAssertion).
THEOREM LongFilesAreTheirOwn ==
    ASSUME cmd \in CommandLines, NEW i \in OptionsWith("k"),
           cmd.options[i].arg \in File,
           \A j \in OptionsWith("k") \union OptionsWith("l") :
               j < i => FileSize(j) \in Nat /\ FileSize(j) <= FileSize(i)
    PROVE  \A n \in DOMAIN KeyText(i) :
               /\ n \in 1 .. Len(cmd.options[i].arg)
               /\ KeyText(i)[n] = cmd.options[i].arg[n]
<1> DEFINE file == cmd.options[i].arg
           W == OptionsWith("k") \union OptionsWith("l")
<1>1. i \in Nat /\ W \subseteq Nat /\ i \in W /\ i \notin OptionsWith("l")
  <2>1. DOMAIN cmd.options = 1 .. Len(cmd.options)
    BY OptionTypes
  <2>2. QED BY <2>1 DEF OptionsWith
<1>2. FileSize(i) = Len(file) /\ Len(file) \in Nat
  BY DEF FileSize, File
<1>3. SUFFICES ASSUME NEW n \in DOMAIN KeyText(i)
               PROVE  n \in 1 .. Len(file) /\ KeyText(i)[n] = file[n]
  OBVIOUS
<1>4. /\ n \in UNION {1 .. FileSize(j) : j \in Writers(i, 1)}
      /\ KeyText(i)[n] = Written(i, n)
  BY DEF KeyText
<1>5. PICK j \in Writers(i, 1) : n \in 1 .. FileSize(j)
  BY <1>4
<1>6. n \in 1 .. Len(file)
  <2>1. j \in W /\ j <= i /\ j \in Nat
    BY <1>1 DEF Writers
  <2>2. j = i \/ j < i
    BY <1>1, <2>1
  <2>3. FileSize(j) \in Nat /\ FileSize(j) <= FileSize(i)
    BY <1>2, <2>1, <2>2
  <2>4. QED BY <1>2, <1>5, <2>3
<1>7. Max(Writers(i, n)) = i
  <2>1. i \in Writers(i, n)
    BY <1>1, <1>2, <1>6 DEF Writers
  <2>2. Writers(i, n) \in SUBSET Nat /\ \A m \in Writers(i, n) : m <= i
    BY <1>1 DEF Writers
  <2>3. QED BY <2>1, <2>2, MaxIs
<1>8. Written(i, n) = file[n]
  <2>1. Writers(i, n) # {}
    BY <1>1, <1>2, <1>6 DEF Writers
  <2>2. QED BY <1>1, <1>7, <2>1 DEF Written
<1>9. QED BY <1>4, <1>6, <1>8

\* A policy module that reads a grant reads the value of a query over a session
\* with all that a query needs, in which every Authorizer parses and a trusted
\* assertion holds, whatever the search reaches and however the command ends
\* (keynote_verify, kn_do_query).
THEOREM GrantsAreGrounded == Spec => []GrantsHaveGrounds
<1>1. ASSUME IInv PROVE GrantsHaveGrounds
  <2>1. SUFFICES ASSUME IsAuthorized, ReturnValues[1] # "authorized"
                 PROVE  /\ authorizers # <<>> /\ env # <<>>
                        /\ \A p \in AssertionPlaces : AssertionAt(p).kind # "badauth"
                        /\ \E p \in AssertionPlaces :
                               AssertionAt(p).local
                               /\ AssertionAt(p).kind \in {"good", "badsig"}
    BY DEF GrantsHaveGrounds
  <2>2. ReturnValues = ValuesOf(cmd)
    BY DEF ReturnValues, ValuesOf
  <2>3. /\ authorizers # <<>> /\ env # <<>>
        /\ \A p \in AssertionsOf(cmd, Size(cmd) + 1) :
               FileOf(cmd, p).kind # "badauth"
        /\ \E p \in AssertionsOf(cmd, Size(cmd) + 1) :
               p <= Len(cmd.options) /\ FileOf(cmd, p).kind \in {"good", "badsig"}
    BY <1>1, <2>1, <2>2 DEF IInv, Grounds, IsAuthorized
  <2>4. /\ AssertionsOf(cmd, Size(cmd) + 1) = AssertionPlaces
        /\ \A p : FileOf(cmd, p) = FileAt(p)
    BY <1>1, AllPlaces DEF IInv, Typed
  <2>5. \A p : /\ AssertionAt(p).kind = FileOf(cmd, p).kind
               /\ AssertionAt(p).local = (p <= Len(cmd.options))
    BY <2>4 DEF AssertionAt
  <2>6. QED BY <2>3, <2>4, <2>5
<1>2. QED BY <1>1, Inductive, PTL

\* In whatever order the hash table gives the assertions that failed, each is
\* reported once and for what is wrong with it, no other is removed, and none
\* is left when the command ends (kn_get_failed and kn_remove_assertion).
THEOREM FailuresAreTold == Spec => []FailuresAreReported
<1>1. ASSUME IInv PROVE FailuresAreReported
  <2> DEFINE reports == {i \in DOMAIN out : out[i][1] = "Failed"}
             number == Cardinality(reports) + Len(table)
  <2>1. SUFFICES ASSUME pc = "exited", keynote_errno = "NOTFOUND"
        PROVE  /\ \E l \in Places(number, AssertionPlaces) : \A i \in reports :
                      \/ /\ out[i][3] = "SYNTAX"
                         /\ AssertionAt(l[out[i][2] + 1]).kind
                                \in {"badlics", "badcond"}
                      \/ /\ out[i][3] = "SIGNATURE"
                         /\ AssertionAt(l[out[i][2] + 1]).kind = "badsig"
               /\ {out[i][2] : i \in reports} \union Ids = 0 .. number - 1
               /\ \A i \in DOMAIN table : ~ HasFailed(table[i], "ANY")
    BY DEF FailuresAreReported
  <2>2. /\ out # <<>> /\ out[1][1] = "Result"
        /\ \A i \in 2 .. Len(out) : out[i][1] = "Failed"
        /\ Accounted(cmd, out, table, Len(out) - 1 + Len(table))
        /\ \A i \in 1 .. Len(table) :
               ~ table[i].error /\ table[i].sigresult # "false"
    <3>1. Reporting
      BY <2>1 DEF Reporting
    <3>2. QED BY <1>1, <2>1, <3>1 DEF IInv, Reports
  <2>3. /\ cmd \in CommandLines /\ out \in Seq(Line) /\ table \in Seq(AssertionType)
    BY <1>1 DEF IInv, Typed
  <2>4. /\ DOMAIN out = 1 .. Len(out) /\ Len(out) \in Nat /\ Len(out) >= 1
        /\ DOMAIN table = 1 .. Len(table) /\ Len(table) \in Nat
    BY <2>2, <2>3
  <2>5. reports = 2 .. Len(out)
    <3>1. \A i \in 1 .. Len(out) : i = 1 \/ i \in 2 .. Len(out)
      BY <2>4
    <3>2. \A i \in 2 .. Len(out) : i \in 1 .. Len(out)
      BY <2>4
    <3>3. out[1][1] # "Failed"
      BY <2>2
    <3>4. QED BY <2>2, <2>4, <3>1, <3>2, <3>3
  <2> HIDE DEF reports
  <2>6. Cardinality(reports) = Len(out) - 1
    <3>1. Len(out) \in Int /\ 2 \in Int
      BY <2>4
    <3>2. ASSUME NEW n \in Int
          PROVE  Cardinality(2 .. n) = IF 2 > n THEN 0 ELSE n - 2 + 1
      <4>1. 2 \in Int
        OBVIOUS
      <4>2. QED BY <4>1, FS_Interval
    <3>3. Cardinality(2 .. Len(out)) = IF 2 > Len(out) THEN 0 ELSE Len(out) - 2 + 1
      BY <3>1, <3>2
    <3>4. QED BY <2>4, <2>5, <3>3
  <2>7. number = Len(out) - 1 + Len(table)
    BY <2>6
  <2> HIDE DEF number
  <2>8. /\ AssertionsOf(cmd, Size(cmd) + 1) = AssertionPlaces
        /\ \A p : AssertionAt(p).kind = FileOf(cmd, p).kind
    <3>1. /\ AssertionsOf(cmd, Size(cmd) + 1) = AssertionPlaces
          /\ \A p : FileOf(cmd, p) = FileAt(p)
      BY <2>3, AllPlaces
    <3>2. \A p : AssertionAt(p).kind = FileAt(p).kind
      BY DEF AssertionAt
    <3>3. QED BY <3>1, <3>2
  <2>9. Accounted(cmd, out, table, number)
    BY <2>2, <2>7
  <2>10. PICK l \in Places(number, AssertionPlaces) :
             \A i \in 2 .. Len(out) : Reason(cmd, out[i][3], l[out[i][2] + 1])
    BY <2>8, <2>9 DEF Accounted
  <2>11. \A i \in reports :
             \/ /\ out[i][3] = "SYNTAX"
                /\ AssertionAt(l[out[i][2] + 1]).kind \in {"badlics", "badcond"}
             \/ /\ out[i][3] = "SIGNATURE"
                /\ AssertionAt(l[out[i][2] + 1]).kind = "badsig"
    BY <2>5, <2>8, <2>10 DEF Reason
  <2>12. {out[i][2] : i \in reports} \union Ids = 0 .. number - 1
    BY <2>4, <2>5, <2>9 DEF Accounted, Ids
  <2>13. \A i \in DOMAIN table : ~ HasFailed(table[i], "ANY")
    BY <2>2, <2>4 DEF HasFailed
  <2>14. QED BY <2>10, <2>11, <2>12, <2>13
<1>2. QED BY <1>1, Inductive, PTL
=====
