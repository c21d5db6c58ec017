------------------------ MODULE KeyNoteAssertionProofs ------------------------
(***************************************************************************)
(* Proofs about KeyNoteAssertion: the parser takes the well-formed texts   *)
(* and nothing else, and a signature is about the text that is read.       *)
(*                                                                         *)
(* The loop of the parser has its invariant, Scanned: what has been noted  *)
(* of the lines from the first that is not white to where the loop is.  It *)
(* says the same of these lines as IsAssertion, the definition without a   *)
(* loop, so that a text that is refused is not well-formed.  It also makes *)
(* at[w] the last line with the keyword w, from which it follows that what *)
(* is read depends on the content that was signed and on nothing else.     *)
(***************************************************************************)
EXTENDS KeyNoteAssertion, SequenceTheorems, WellFoundedInduction, TLAPS

-------------------------------------------------------------------------------
(***************************************************************************)
(* The inductive invariant.                                                *)
(***************************************************************************)
Fields(b, s, e) == {n \in s .. e : b[n].word \notin {"white", "#"}}
With(b, s, e, w) == {n \in Fields(b, s, e) : KeywordOf(b[n].word) = w}

\* In the lines from s to e there is nothing that is out of place, ...
InPlace(b, s, e) ==
    /\ \A n \in 1 .. s - 1 : b[n].word \in Spaces
    /\ \A n \in s .. e : b[n].word # "blank"
    /\ \A n \in s .. e : b[n].word = "white" =>
                             \E m \in Fields(b, s, e) : m < n
    /\ \A n \in Fields(b, s, e) : KeywordOf(b[n].word) \in Keywords
    /\ \A n \in With(b, s, e, "version") : n = s /\ b[n].value = Good
    /\ \A n \in With(b, s, e, "local-constants") : b[n].value # Bad

\* ... and of each keyword the parser has the last line, the only one but for
\* Local-Constants.
Noted(b, a, s, e, w) ==
    /\ a.at[w] \in With(b, s, e, w) \union {0}
    /\ \A n \in With(b, s, e, w) :
           /\ n <= a.at[w]
           /\ n < a.at[w] => w = "local-constants" /\ b[n].value = Empty
EnvNoted(b, a) ==
    LET n == a.at["local-constants"]
    IN  a.env = IF n = 0 \/ b[n].value = Empty THEN None ELSE b[n].value
Scanned(b, a, s, e) ==
    /\ InPlace(b, s, e)
    /\ \A w \in Keywords : Noted(b, a, s, e, w)
    /\ EnvNoted(b, a)

\* The loop is at line k, which is a comment at the beginning or begins a field.
Begins(b, a, k) == IF a.start = 0 THEN k ELSE a.start
Scanning(b, a, k) ==
    /\ a.start < k
    /\ a.seen = (a.start # 0)
    /\ b[Begins(b, a, k)].word \notin Spaces
    /\ Scanned(b, a, Begins(b, a, k), k - 1)
    /\ a.at["signature"] = 0
    /\ \/ Fields(b, Begins(b, a, k), k - 1) = {}
       \/ b[k].word \notin {"blank", "white", "#"}

\* The loop has ended, after line e.
Ends(b, e) == e = Len(b) \/ b[e + 1].word = "blank"
ScannedTo(b, a, e) ==
    /\ Ends(b, e)
    /\ Scanned(b, a, a.start, e)
    /\ \A n \in With(b, a.start, e, "signature") :
           \A m \in Fields(b, a.start, e) : m <= n
AllScanned(b, a) ==
    /\ a.start \in DOMAIN b /\ b[a.start].word \notin Spaces
    /\ \E e \in a.start .. Len(b) : ScannedTo(b, a, e)
Taken == i = Len(buf) + 1 /\ AllScanned(buf, as) /\ as.at["authorizer"] # 0

Parsing ==
    /\ pc = "parse" =>
           \/ i = 0 /\ \A n \in DOMAIN buf : buf[n].word \in Spaces
           \/ i \in DOMAIN buf /\ Scanning(buf, as, i)
           \/ i = Len(buf) + 1 /\ AllScanned(buf, as)
    /\ pc \in {"fix", "sign"} => Taken
    /\ pc = "returned" /\ call.op # "none" =>
           \/ Taken
           \/ /\ i <= Len(buf) \/ as.at["authorizer"] = 0
              /\ ~ WellFormed(buf)

\* The types that TypeOK leaves out.
Assertion == [start : Nat, seen : BOOLEAN, env : Values \union {None},
              auth : Principal \union {None}, at : [Keywords -> Nat]]
Signature == [pair : Pair, name : Names \ {"other"}, by : {"publisher", "keynote"},
              content : Seq(Line), read : [Keywords \ {"signature"} -> SUBSET Values]]
Typed ==
    /\ buf \in Seq(LineWith(Len(signed)))
    /\ as \in Assertion
    /\ signed \in Seq(Signature)
    /\ \A n \in DOMAIN signed : signed[n].read = ReadAll(signed[n].content)

\* Where a call is, and what it may return.
Verdict == IF as.at["signature"] = 0 THEN "false" ELSE sigverify(SignatureField)
Calling ==
    /\ pc = "idle" => call = NoCall /\ i = 0 /\ as = NoAssertion
    /\ pc # "returned" => result = "none"
    /\ pc \in {"parse", "fix", "sign"} =>
           call.op # "none" /\ (call.op = "sign" => Len(signed) < MaxSigned)
    /\ call.op \in {"add", "sign"} => buf = text
    /\ as.auth # None => Taken /\ pc \in {"sign", "returned"}
    /\ pc \in {"fix", "sign"} => call.op # "add"
    /\ pc = "sign" => as.auth # None
    /\ as.auth # None /\ call.op = "verify" /\ as.at["signature"] # 0 =>
           SignatureField # Bad
    /\ pc = "returned" /\ as.auth # None /\ call.op = "verify" => result = Verdict
    /\ result = "true" => as.auth # None /\ call.op = "verify"

\* The signature that was made is not in the text yet.
JustSigned ==
    /\ pc = "returned" /\ call.op = "sign" /\ Taken /\ HasSignature
    /\ signed # <<>>
    /\ signed[Len(signed)].by = "keynote"
    /\ signed[Len(signed)].content = Content

\* The first signature stands in the text behind what was signed.
StandsAt(g) ==
    /\ text[g] = [word |-> "signature", value |-> 1]
    /\ signed[1].by = "publisher" =>
           g = Len(text) /\ signed[1].content = SubSeq(text, 1, g - 1)
    /\ signed[1].by = "keynote" =>
           \E s \in 1 .. g - 1 :
               /\ \A n \in 1 .. s - 1 : text[n].word \in Spaces
               /\ text[s].word \notin Spaces
               /\ \A n \in s .. g : text[n].word # "blank"
               /\ signed[1].content = SubSeq(text, s, g - 1)
Signing ==
    /\ result = "signed" => JustSigned
    /\ edits = 0 /\ Len(signed) = 1 /\ result # "signed" =>
           \E g \in DOMAIN text : StandsAt(g)

IInv == TypeOK /\ Typed /\ Parsing /\ Calling /\ Signing

-------------------------------------------------------------------------------
(***************************************************************************)
(* Lines and keywords.                                                     *)
(***************************************************************************)
\* The least of some natural numbers is one of them, and none is less.
LEMMA LeastNatural ==
    ASSUME NEW S \in SUBSET Nat, S # {}
    PROVE  Min(S) \in S /\ \A y \in S : Min(S) <= y
<1> DEFINE R == {ss \in Nat \X Nat : ss[1] < ss[2]}
<1>1. R = OpToRel(<, Nat)
  BY DEF OpToRel
<1>2. IsWellFoundedOn(R, Nat)
  BY <1>1, NatLessThanWellFounded
<1>3. PICK x \in S : \A y \in S : ~ (<<y, x>> \in R)
  <2> HIDE DEF R
  <2> QED BY <1>2, WFMin
<1>4. ASSUME NEW y \in S PROVE x <= y
  <2>1. x \in Nat /\ y \in Nat
    OBVIOUS
  <2>2. ~ (<<y, x>> \in R)
    BY <1>3
  <2>3. ~ (y < x)
    BY <2>1, <2>2
  <2>4. QED BY <2>1, <2>3
<1>5. QED BY <1>4 DEF Min

\* The lines of a text.
LEMMA LineFacts ==
    ASSUME NEW k, NEW b \in Seq(LineWith(k))
    PROVE  /\ Len(b) \in Nat /\ DOMAIN b = 1 .. Len(b)
           /\ \A n \in DOMAIN b : b[n] \in LineWith(k)
<1>1. Len(b) \in Nat /\ DOMAIN b = 1 .. Len(b)
  BY LenProperties
<1>2. \A n \in DOMAIN b : b[n] \in LineWith(k)
  BY <1>1, ElementOfSeq
<1>3. QED BY <1>1, <1>2

\* What the value of a line may be.
LEMMA ValueFacts ==
    ASSUME NEW k, NEW l \in LineWith(k)
    PROVE  /\ l.value \in Values
           /\ l.word = "authorizer" => l.value \in Principal \union {Const, Bad}
           /\ l.word = "local-constants" => l.value \in Principal \union {Empty, Bad}
           /\ l.word = "signature" =>
                  l.value \in {Unknown, Garbled, Bad} \union 1 .. k
<1>1. l.value \in Values /\ l.value \in ValuesOf(l.word, k)
  BY DEF LineWith
<1>2. QED BY <1>1 DEF ValuesOf

\* What is white, a comment or junk is no field; and but for Conditions, which
\* may be shortened, a field begins with its keyword.
LEMMA KeywordFacts ==
    ASSUME NEW word
    PROVE  /\ word \in {"blank", "white", "#", "junk"} => KeywordOf(word) \notin Keywords
           /\ \A w \in Keywords \ {"conditions"} : KeywordOf(word) = w <=> word = w
BY DEF KeywordOf, Keywords

-------------------------------------------------------------------------------
(***************************************************************************)
(* The loop of the parser.                                                 *)
(***************************************************************************)
\* A field is followed by lines that belong to it: what there was before of
\* fields, and this one.
LEMMA FieldAdded ==
    ASSUME NEW b, NEW s \in Nat, NEW k \in Nat, s <= k, NEW f \in Nat, k < f,
           b[k].word \notin {"blank", "white", "#"},
           \A n \in k + 1 .. f - 1 : b[n].word \in {"white", "#"}
    PROVE  /\ Fields(b, s, f - 1) = Fields(b, s, k - 1) \union {k}
           /\ \A w : \A n \in With(b, s, f - 1, w) :
                  n \in With(b, s, k - 1, w) \/ (n = k /\ KeywordOf(b[k].word) = w)
           /\ \A w : With(b, s, k - 1, w) \subseteq With(b, s, f - 1, w)
           /\ k \in With(b, s, f - 1, KeywordOf(b[k].word))
           /\ Fields(b, s, k - 1) \subseteq s .. k - 1
<1>1. \A n \in s .. f - 1 : \/ n \in s .. k - 1
                            \/ n = k
                            \/ n \in k + 1 .. f - 1
  OBVIOUS
<1>2. s .. k - 1 \subseteq s .. f - 1 /\ k \in s .. f - 1
  OBVIOUS
<1>3. Fields(b, s, f - 1) = Fields(b, s, k - 1) \union {k}
  <2>1. \A n \in Fields(b, s, f - 1) : n \in Fields(b, s, k - 1) \union {k}
    BY <1>1 DEF Fields
  <2>2. Fields(b, s, k - 1) \union {k} \subseteq Fields(b, s, f - 1)
    BY <1>2 DEF Fields
  <2>3. QED BY <2>1, <2>2
<1>4. QED BY <1>3 DEF With, Fields

\* The loop after a field.
LEMMA FieldScanned ==
    ASSUME NEW b \in Seq(Line), NEW a \in Assertion, NEW k \in DOMAIN b,
           Scanning(b, a, k), b[k].word \notin {"blank", "white", "#"},
           NEW K \in Keywords, K = KeywordOf(b[k].word),
           K = "version" => ~ a.seen /\ b[k].value = Good,
           K = "local-constants" => a.env = None /\ b[k].value # Bad,
           K \notin {"version", "local-constants"} => a.at[K] = 0,
           NEW f \in Nat, k < f, 
           \A n \in k + 1 .. f - 1 : b[n].word \in {"white", "#"},
           NEW a2, a2.at = [a.at EXCEPT ![K] = k],
           a2.env = IF K = "local-constants" /\ b[k].value # Empty
                    THEN b[k].value ELSE a.env
    PROVE  Scanned(b, a2, Begins(b, a, k), f - 1)
<1> DEFINE s == Begins(b, a, k)
<1>1. s \in Nat /\ k \in Nat /\ s <= k /\ s \in DOMAIN b /\ DOMAIN b = 1 .. Len(b)
      /\ a.at \in [Keywords -> Nat] /\ Len(b) \in Nat
  <2>1. k \in 1 .. Len(b) /\ Len(b) \in Nat /\ DOMAIN b = 1 .. Len(b)
    BY LineFacts DEF Line
  <2>2. a.start \in Nat /\ a.start < k /\ a.at \in [Keywords -> Nat]
    BY DEF Assertion, Scanning
  <2>3. QED BY <2>1, <2>2 DEF Begins
<1>2. Scanned(b, a, s, k - 1)
  BY DEF Scanning
<1>3. a.seen = (a.start # 0) /\ a.at["signature"] = 0
  BY DEF Scanning
<1>3a. a.start = 0 => s = k
  BY DEF Begins
<1> HIDE DEF s
<1>4. /\ Fields(b, s, f - 1) = Fields(b, s, k - 1) \union {k}
      /\ \A w : \A n \in With(b, s, f - 1, w) :
             n \in With(b, s, k - 1, w) \/ (n = k /\ K = w)
      /\ \A w : With(b, s, k - 1, w) \subseteq With(b, s, f - 1, w)
      /\ k \in With(b, s, f - 1, K)
      /\ Fields(b, s, k - 1) \subseteq s .. k - 1
  <2>1. /\ Fields(b, s, f - 1) = Fields(b, s, k - 1) \union {k}
        /\ \A w : \A n \in With(b, s, f - 1, w) :
               n \in With(b, s, k - 1, w) \/ (n = k /\ KeywordOf(b[k].word) = w)
        /\ \A w : With(b, s, k - 1, w) \subseteq With(b, s, f - 1, w)
        /\ k \in With(b, s, f - 1, KeywordOf(b[k].word))
        /\ Fields(b, s, k - 1) \subseteq s .. k - 1
    BY <1>1, FieldAdded
  <2>2. QED BY <2>1
<1>5. \A n \in s .. f - 1 : \/ n \in s .. k - 1
                            \/ n = k
                            \/ n \in k + 1 .. f - 1 /\ k < n
  BY <1>1
<1>6. InPlace(b, s, f - 1)
  <2>1. \A n \in 1 .. s - 1 : b[n].word \in Spaces
    BY <1>2 DEF Scanned, InPlace
  <2>2. \A n \in s .. f - 1 : b[n].word # "blank"
    BY <1>2, <1>5 DEF Scanned, InPlace
  <2>3. ASSUME NEW n \in s .. f - 1, b[n].word = "white"
        PROVE  \E m \in Fields(b, s, f - 1) : m < n
    <3>1. CASE n \in s .. k - 1
      BY <1>2, <1>4, <2>3, <3>1 DEF Scanned, InPlace
    <3>2. CASE n \in k + 1 .. f - 1 /\ k < n
      BY <1>4, <3>2
    <3>3. QED BY <1>5, <2>3, <3>1, <3>2
  <2>4. \A n \in Fields(b, s, f - 1) : KeywordOf(b[n].word) \in Keywords
    BY <1>2, <1>4 DEF Scanned, InPlace
  <2>5. \A n \in With(b, s, f - 1, "version") : n = s /\ b[n].value = Good
    BY <1>2, <1>3, <1>3a, <1>4 DEF Scanned, InPlace
  <2>6. \A n \in With(b, s, f - 1, "local-constants") : b[n].value # Bad
    BY <1>2, <1>4 DEF Scanned, InPlace
  <2>7. QED BY <2>1, <2>2, <2>3, <2>4, <2>5, <2>6 DEF InPlace
<1>7. \A n \in With(b, s, k - 1, "local-constants") : a.env = None => b[n].value = Empty
  <2> SUFFICES ASSUME NEW n \in With(b, s, k - 1, "local-constants"), a.env = None
               PROVE  b[n].value = Empty
    OBVIOUS
  <2> DEFINE m == a.at["local-constants"]
  <2>1. n \in s .. k - 1
    BY DEF With, Fields
  <2>2. m \in With(b, s, k - 1, "local-constants") \union {0} /\ n <= m
        /\ (n < m => b[n].value = Empty)
    BY <1>2 DEF Scanned, Noted, Keywords
  <2>3. m # 0 /\ m \in With(b, s, k - 1, "local-constants") /\ m \in 1 .. Len(b)
    <3>1. m # 0
      BY <1>1, <2>1, <2>2
    <3>2. m \in s .. k - 1
      BY <2>2, <3>1 DEF With, Fields
    <3>3. QED BY <1>1, <2>2, <3>1, <3>2
  <2>4. b[m].word = "local-constants" /\ b[m].value # Bad
    <3>1. b[m].value # Bad
      BY <1>2, <2>3 DEF Scanned, InPlace
    <3>2. KeywordOf(b[m].word) = "local-constants"
      BY <2>3 DEF With
    <3>3. QED BY <3>1, <3>2, KeywordFacts DEF Keywords
  <2>5. b[m].value \in Principal \union {Empty, Bad}
    BY <1>1, <2>3, <2>4, LineFacts, ValueFacts DEF Line
  <2>6. b[m].value = Empty
    BY <1>2, <2>3, <2>4, <2>5, AssertionAssumption DEF Scanned, EnvNoted
  <2>7. CASE n = m
    BY <2>6, <2>7
  <2>8. CASE n < m
    BY <2>2, <2>8
  <2>9. n \in Nat /\ m \in Nat
    BY <1>1, <2>1, <2>3
  <2>10. QED BY <2>2, <2>7, <2>8, <2>9
<1>8. ASSUME NEW w \in Keywords PROVE Noted(b, a2, s, f - 1, w)
  <2>0. /\ a.at[w] \in With(b, s, k - 1, w) \union {0}
        /\ \A n \in With(b, s, k - 1, w) :
               /\ n <= a.at[w]
               /\ n < a.at[w] => w = "local-constants" /\ b[n].value = Empty
    BY <1>2 DEF Scanned, Noted
  <2>1. CASE w = K
    <3>1. a2.at[w] = k
      BY <1>1, <2>1
    <3>2. ASSUME NEW n \in With(b, s, f - 1, w)
          PROVE  /\ n <= k
                 /\ n < k => w = "local-constants" /\ b[n].value = Empty
      <4>1. CASE n = k
        BY <1>1, <4>1
      <4>2. CASE n \in With(b, s, k - 1, w)
        <5>1. n \in s .. k - 1 /\ n # 0 /\ n <= a.at[w]
          <6>1. n \in s .. k - 1
            BY <4>2 DEF With, Fields
          <6>2. QED BY <1>1, <2>0, <4>2, <6>1
        <5>2. n <= k
          BY <1>1, <5>1
        <5>3. a.at[w] # 0
          BY <1>1, <5>1
        <5>4. w \in {"version", "local-constants"}
          BY <2>1, <5>3
        <5>5. w # "version"
          <6>1. SUFFICES ASSUME w = "version" PROVE FALSE
            OBVIOUS
          <6>2. s = k
            BY <1>3, <1>3a, <2>1, <6>1
          <6>3. QED BY <1>1, <5>1, <6>2
        <5>6. b[n].value = Empty
          BY <1>7, <2>1, <4>2, <5>4, <5>5
        <5>7. QED BY <5>2, <5>4, <5>5, <5>6
      <4>3. QED BY <1>4, <4>1, <4>2
    <3>3. QED BY <1>4, <2>1, <3>1, <3>2 DEF Noted
  <2>2. CASE w # K
    <3>1. a2.at[w] = a.at[w]
      BY <1>1, <2>2
    <3>2. /\ With(b, s, k - 1, w) \subseteq With(b, s, f - 1, w)
          /\ \A n \in With(b, s, f - 1, w) : n \in With(b, s, k - 1, w)
      BY <1>4, <2>2
    <3>3. QED BY <2>0, <3>1, <3>2 DEF Noted
  <2>3. QED BY <2>1, <2>2
<1>9. EnvNoted(b, a2)
  <2>1. "local-constants" \in Keywords
    BY DEF Keywords
  <2>2. CASE K = "local-constants"
    <3>1. a2.at["local-constants"] = k /\ k # 0
      BY <1>1, <2>1, <2>2
    <3>2. QED BY <2>2, <3>1 DEF EnvNoted
  <2>3. CASE K # "local-constants"
    <3>1. a2.at["local-constants"] = a.at["local-constants"] /\ a2.env = a.env
      BY <1>1, <2>1, <2>3
    <3>2. QED BY <1>2, <3>1 DEF EnvNoted, Scanned
  <2>4. QED BY <2>2, <2>3
<1>10. QED BY <1>6, <1>8, <1>9 DEF Scanned, s

\* The definition without a loop, and what of it is the same for the loop.
Unrepeated(b, s, e) ==
    /\ Ends(b, e)
    /\ With(b, s, e, "authorizer") # {}
    /\ \A w \in Keywords \ {"local-constants"} :
           \A m, n \in With(b, s, e, w) : m = n
    /\ \A m, n \in With(b, s, e, "local-constants") :
           m < n => b[m].value = Empty
    /\ \A n \in With(b, s, e, "signature"), m \in Fields(b, s, e) : m <= n

\* The two together are the definition.
LEMMA AssertionMeans ==
    ASSUME NEW b, NEW s, NEW e
    PROVE  IsAssertion(b, s, e) <=> InPlace(b, s, e) /\ Unrepeated(b, s, e)
<1>1. CASE IsAssertion(b, s, e)
  <2>1. InPlace(b, s, e)
    BY <1>1 DEF IsAssertion, InPlace, Fields, With
  <2>2. Unrepeated(b, s, e)
    BY <1>1 DEF IsAssertion, Unrepeated, Ends, Fields, With
  <2>3. QED BY <1>1, <2>1, <2>2
<1>2. CASE InPlace(b, s, e) /\ Unrepeated(b, s, e)
  BY <1>2 DEF IsAssertion, InPlace, Unrepeated, Ends, Fields, With
<1>3. QED BY <1>1, <1>2

\* An assertion begins with the first line that is not white.
LEMMA FirstLine ==
    ASSUME NEW b, NEW s \in Nat, NEW e \in Nat, s <= e, InPlace(b, s, e)
    PROVE  b[s].word \notin Spaces
<1>1. s \in s .. e
  OBVIOUS
<1>2. b[s].word # "blank"
  BY <1>1 DEF InPlace
<1>3. b[s].word # "white"
  <2> SUFFICES ASSUME b[s].word = "white" PROVE FALSE
    OBVIOUS
  <2>1. PICK m \in Fields(b, s, e) : m < s
    BY <1>1 DEF InPlace
  <2>2. m \in s .. e
    BY DEF Fields
  <2>3. QED BY <2>1, <2>2
<1>4. QED BY <1>2, <1>3 DEF Spaces

\* So there is one place where it can begin, ...
LEMMA SameStart ==
    ASSUME NEW b, NEW s \in Nat \ {0}, NEW t \in Nat \ {0},
           b[s].word \notin Spaces, \A n \in 1 .. s - 1 : b[n].word \in Spaces,
           b[t].word \notin Spaces, \A n \in 1 .. t - 1 : b[n].word \in Spaces
    PROVE  s = t
<1>1. ~ s < t
  <2> SUFFICES ASSUME s < t PROVE FALSE
    OBVIOUS
  <2>1. s \in 1 .. t - 1
    OBVIOUS
  <2>2. QED BY <2>1
<1>2. ~ t < s
  <2> SUFFICES ASSUME t < s PROVE FALSE
    OBVIOUS
  <2>1. t \in 1 .. s - 1
    OBVIOUS
  <2>2. QED BY <2>1
<1>3. QED BY <1>1, <1>2

\* ... and one where it ends.
LEMMA NoEarlierEnd ==
    ASSUME NEW b, Len(b) \in Nat, NEW s \in Nat, NEW e \in s .. Len(b),
           NEW k \in s .. Len(b), Ends(b, e),
           \A n \in s .. k : b[n].word # "blank"
    PROVE  k <= e
<1> SUFFICES ASSUME ~ k <= e PROVE FALSE
  OBVIOUS
<1>1. e + 1 \in s .. k /\ e # Len(b)
  OBVIOUS
<1>2. QED BY <1>1 DEF Ends

\* A text of which the loop has seen the end, and an Authorizer, is well-formed.
LEMMA TakenIsWellFormed ==
    ASSUME NEW b \in Seq(Line), NEW a \in Assertion, AllScanned(b, a),
           a.at["authorizer"] # 0
    PROVE  WellFormed(b)
<1>1. PICK e \in a.start .. Len(b) : ScannedTo(b, a, e)
  BY DEF AllScanned
<1>2. /\ InPlace(b, a.start, e) /\ Ends(b, e)
      /\ \A n \in With(b, a.start, e, "signature"), m \in Fields(b, a.start, e) : m <= n
      /\ \A w \in Keywords : Noted(b, a, a.start, e, w)
  BY <1>1 DEF ScannedTo, Scanned
<1>3. a.start \in DOMAIN b /\ a.start \in Nat /\ a.at \in [Keywords -> Nat]
  BY DEF AllScanned, Assertion
<1>4. With(b, a.start, e, "authorizer") # {}
  BY <1>2 DEF Noted, Keywords
<1>5. ASSUME NEW w \in Keywords \ {"local-constants"},
             NEW m \in With(b, a.start, e, w), NEW n \in With(b, a.start, e, w)
      PROVE  m = n
  <2>1. m <= a.at[w] /\ ~ m < a.at[w] /\ n <= a.at[w] /\ ~ n < a.at[w]
    BY <1>2 DEF Noted
  <2>2. m \in a.start .. e /\ n \in a.start .. e
    BY DEF With, Fields
  <2>3. a.at[w] \in Nat
    BY <1>3
  <2>4. QED BY <1>3, <2>1, <2>2, <2>3
<1>6. ASSUME NEW m \in With(b, a.start, e, "local-constants"),
             NEW n \in With(b, a.start, e, "local-constants"), m < n
      PROVE  b[m].value = Empty
  <2> DEFINE k == a.at["local-constants"]
  <2>1. n <= k /\ (m < k => b[m].value = Empty)
    BY <1>2 DEF Noted, Keywords
  <2>2. m \in a.start .. e /\ n \in a.start .. e
    BY DEF With, Fields
  <2>3. k \in Nat
    BY <1>3 DEF Keywords
  <2>4. m < k
    BY <1>3, <1>6, <2>1, <2>2, <2>3
  <2>5. QED BY <2>1, <2>4
<1>7. Unrepeated(b, a.start, e)
  BY <1>2, <1>4, <1>5, <1>6 DEF Unrepeated
<1>8. QED BY <1>2, <1>3, <1>7, AssertionMeans DEF WellFormed

\* One that is white, ...
LEMMA NothingIsRefused ==
    ASSUME NEW b \in Seq(Line), \A n \in DOMAIN b : b[n].word \in Spaces
    PROVE  ~ WellFormed(b)
<1> SUFFICES ASSUME NEW s \in DOMAIN b, NEW e \in s .. Len(b), IsAssertion(b, s, e)
             PROVE  FALSE
  BY DEF WellFormed
<1>1. InPlace(b, s, e)
  BY AssertionMeans
<1>2. s \in Nat /\ e \in Nat /\ s <= e
  BY LineFacts DEF Line
<1>3. QED BY <1>1, <1>2, FirstLine

\* ... or in which no Authorizer was seen, is not.
LEMMA IncompleteIsRefused ==
    ASSUME NEW b \in Seq(Line), NEW a \in Assertion, AllScanned(b, a),
           a.at["authorizer"] = 0
    PROVE  ~ WellFormed(b)
<1> SUFFICES ASSUME NEW s \in DOMAIN b, NEW f \in s .. Len(b), IsAssertion(b, s, f)
             PROVE  FALSE
  BY DEF WellFormed
<1>0. Len(b) \in Nat /\ DOMAIN b = 1 .. Len(b)
  BY LineFacts DEF Line
<1>1. PICK e \in a.start .. Len(b) : ScannedTo(b, a, e)
  BY DEF AllScanned
<1>2. a.start \in DOMAIN b /\ b[a.start].word \notin Spaces
  BY DEF AllScanned
<1>3. InPlace(b, a.start, e) /\ Ends(b, e) /\ Noted(b, a, a.start, e, "authorizer")
  BY <1>1 DEF ScannedTo, Scanned, Keywords
<1>4. InPlace(b, s, f) /\ Unrepeated(b, s, f)
  BY AssertionMeans
<1>5. s = a.start
  <2>1. b[s].word \notin Spaces
    BY <1>0, <1>4, FirstLine
  <2>2. /\ \A n \in 1 .. s - 1 : b[n].word \in Spaces
        /\ \A n \in 1 .. a.start - 1 : b[n].word \in Spaces
    BY <1>3, <1>4 DEF InPlace
  <2>3. QED BY <1>0, <1>2, <2>1, <2>2, SameStart
<1>6. f = e
  <2>1. \A n \in s .. f : b[n].word # "blank"
    BY <1>4 DEF InPlace
  <2>2. \A n \in s .. e : b[n].word # "blank"
    BY <1>3, <1>5 DEF InPlace
  <2>3. Ends(b, f)
    BY <1>4 DEF Unrepeated
  <2>4. s \in Nat /\ Len(b) \in Nat /\ e \in s .. Len(b) /\ f \in s .. Len(b)
    BY <1>0, <1>5
  <2>5. Ends(b, e)
    BY <1>3
  <2>6. f <= e
    BY <2>1, <2>4, <2>5, NoEarlierEnd
  <2>7. e <= f
    BY <2>2, <2>3, <2>4, NoEarlierEnd
  <2>8. QED BY <2>4, <2>6, <2>7
<1>7. PICK n \in With(b, s, f, "authorizer") : TRUE
  BY <1>4 DEF Unrepeated
<1>8. n \in s .. f /\ n <= 0
  BY <1>3, <1>5, <1>6, <1>7 DEF Noted, With, Fields
<1>9. QED BY <1>0, <1>8

\* A line that the loop does not take is in no well-formed text.
Misfits(b, a, k) ==
    LET K == KeywordOf(b[k].word)
    IN  \/ K \notin Keywords
        \/ K = "version" /\ (a.seen \/ b[k].value # Good)
        \/ K = "local-constants" /\ (a.env # None \/ b[k].value = Bad)
        \/ K \notin {"version", "local-constants"} /\ a.at[K] # 0
        \/ /\ K = "signature"
           /\ \E f \in k + 1 .. Len(b) :
                  /\ b[f].word \notin {"blank", "white", "#"}
                  /\ \A n \in k + 1 .. f - 1 : b[n].word \in {"white", "#"}

\* So that a text is refused only when it has to be.
LEMMA MisfitIsRefused ==
    ASSUME NEW b \in Seq(Line), NEW a \in Assertion, NEW k \in DOMAIN b,
           Scanning(b, a, k), b[k].word # "#", Misfits(b, a, k)
    PROVE  ~ WellFormed(b)
<1> SUFFICES ASSUME NEW t \in DOMAIN b, NEW e \in t .. Len(b), IsAssertion(b, t, e)
             PROVE  FALSE
  BY DEF WellFormed
<1> DEFINE s == Begins(b, a, k)
           K == KeywordOf(b[k].word)
<1>0. Len(b) \in Nat /\ DOMAIN b = 1 .. Len(b) /\ k \in 1 .. Len(b)
  BY LineFacts DEF Line
<1>1. InPlace(b, t, e) /\ Unrepeated(b, t, e)
  BY AssertionMeans
<1>2. /\ b[s].word \notin Spaces
      /\ Scanned(b, a, s, k - 1)
      /\ a.seen = (a.start # 0)
      /\ Fields(b, s, k - 1) = {} \/ b[k].word \notin {"blank", "white", "#"}
  BY DEF Scanning
<1>2a. s \in 1 .. k /\ (a.start = 0 <=> s = k)
  <2>1. a.start \in Nat /\ a.start < k
    BY DEF Assertion, Scanning
  <2>2. QED BY <1>0, <2>1 DEF Begins
<1> HIDE DEF s
<1>3. t = s
  <2>1. b[t].word \notin Spaces
    BY <1>0, <1>1, FirstLine
  <2>2. /\ \A n \in 1 .. s - 1 : b[n].word \in Spaces
        /\ \A n \in 1 .. t - 1 : b[n].word \in Spaces
    BY <1>1, <1>2 DEF InPlace, Scanned
  <2>3. QED BY <1>0, <1>2, <1>2a, <2>1, <2>2, SameStart
<1>4. k <= e
  <2> SUFFICES ASSUME ~ k <= e PROVE FALSE
    OBVIOUS
  <2>1. e # Len(b) /\ e + 1 \in s .. k /\ e \in s .. k - 1
    BY <1>0, <1>2a, <1>3
  <2>2. b[e + 1].word = "blank"
    BY <1>1, <2>1 DEF Unrepeated, Ends
  <2>3. \A n \in s .. k - 1 : b[n].word # "blank"
    BY <1>2 DEF Scanned, InPlace
  <2>4. e + 1 = k
    <3>1. e + 1 \notin s .. k - 1
      BY <2>2, <2>3
    <3>2. k \in Nat /\ s \in Nat
      BY <1>0, <1>2a
    <3>3. e \in s .. k - 1 /\ e + 1 \in s .. k
      BY <2>1
    <3>4. QED BY <3>1, <3>2, <3>3
  <2>5. Fields(b, s, k - 1) = {}
    BY <1>2, <2>2, <2>4
  <2>6. e = k - 1
    BY <1>0, <2>1, <2>4
  <2>7. With(b, s, e, "authorizer") = {}
    BY <2>5, <2>6 DEF With
  <2>8. QED BY <1>1, <1>3, <2>7 DEF Unrepeated
<1>5. k \in s .. e
  BY <1>0, <1>2a, <1>3, <1>4
<1>6. Fields(b, s, k - 1) \subseteq Fields(b, s, e) /\ Fields(b, s, k - 1) \subseteq s .. k - 1
  BY <1>0, <1>2a, <1>3, <1>4 DEF Fields
<1>7. \A w : With(b, s, k - 1, w) \subseteq With(b, s, e, w)
             /\ With(b, s, k - 1, w) \subseteq s .. k - 1
  BY <1>6 DEF With
<1>8. b[k].word \notin {"blank", "white", "#"}
  <2>1. b[k].word # "blank"
    BY <1>1, <1>3, <1>5 DEF InPlace
  <2>2. b[k].word # "white"
    <3> SUFFICES ASSUME b[k].word = "white" PROVE FALSE
      OBVIOUS
    <3>1. PICK m \in Fields(b, s, e) : m < k
      BY <1>1, <1>3, <1>5 DEF InPlace
    <3>2. m \in Fields(b, s, k - 1)
      BY <1>0, <1>2a, <1>5, <3>1 DEF Fields
    <3>3. QED BY <1>2, <3>2
  <2>3. QED BY <2>1, <2>2
<1>9. k \in Fields(b, s, e) /\ k \in With(b, s, e, K) /\ K \in Keywords
  <2>1. k \in Fields(b, s, e)
    BY <1>5, <1>8 DEF Fields
  <2>2. K \in Keywords
    BY <1>1, <1>3, <2>1 DEF InPlace
  <2>3. QED BY <2>1, <2>2 DEF With
<1>10. K = "version" => ~ a.seen /\ b[k].value = Good
  <2> SUFFICES ASSUME K = "version" PROVE ~ a.seen /\ b[k].value = Good
    OBVIOUS
  <2>1. k = s /\ b[k].value = Good
    BY <1>1, <1>3, <1>9 DEF InPlace
  <2>2. QED BY <1>2, <1>2a, <2>1
<1>11. K = "local-constants" => a.env = None /\ b[k].value # Bad
  <2> SUFFICES ASSUME K = "local-constants"
               PROVE  a.env = None /\ b[k].value # Bad
    OBVIOUS
  <2>1. b[k].value # Bad
    BY <1>1, <1>3, <1>9 DEF InPlace
  <2>2. a.env = None
    <3> SUFFICES ASSUME a.env # None PROVE FALSE
      OBVIOUS
    <3> DEFINE m == a.at["local-constants"]
    <3>1. m # 0 /\ b[m].value # Empty
      BY <1>2 DEF Scanned, EnvNoted
    <3>2. m \in With(b, s, k - 1, "local-constants")
      BY <1>2, <3>1 DEF Scanned, Noted, Keywords
    <3> HIDE DEF m
    <3>3. m \in With(b, s, e, "local-constants") /\ m \in s .. k - 1
      BY <1>7, <3>2
    <3>4. m < k
      BY <1>0, <1>2a, <3>3
    <3>5. b[m].value = Empty
      BY <1>1, <1>3, <1>9, <3>3, <3>4 DEF Unrepeated
    <3>6. QED BY <3>1, <3>5
  <2>3. QED BY <2>1, <2>2
<1>12. K \notin {"version", "local-constants"} => a.at[K] = 0
  <2> SUFFICES ASSUME K # "local-constants", a.at[K] # 0 PROVE FALSE
    OBVIOUS
  <2>1. a.at[K] \in With(b, s, k - 1, K)
    BY <1>2, <1>9 DEF Scanned, Noted
  <2>2. a.at[K] \in With(b, s, e, K) /\ a.at[K] \in s .. k - 1
    BY <1>7, <2>1
  <2>3. a.at[K] = k
    BY <1>1, <1>3, <1>9, <2>2 DEF Unrepeated
  <2>4. QED BY <1>0, <1>2a, <2>2, <2>3
<1>13. PICK f \in k + 1 .. Len(b) :
           /\ K = "signature"
           /\ b[f].word \notin {"blank", "white", "#"}
           /\ \A n \in k + 1 .. f - 1 : b[n].word \in {"white", "#"}
  BY <1>9, <1>10, <1>11, <1>12 DEF Misfits
<1>14. \A n \in k .. f : b[n].word # "blank"
  <2>1. \A n \in k .. f : n = k \/ n \in k + 1 .. f - 1 \/ n = f
    BY <1>0
  <2>2. QED BY <1>8, <1>13, <2>1
<1>15. f <= e
  <2>1. Ends(b, e)
    BY <1>1 DEF Unrepeated
  <2>2. k \in Nat /\ e \in k .. Len(b) /\ f \in k .. Len(b)
    BY <1>0, <1>4
  <2>3. QED BY <1>0, <1>14, <2>1, <2>2, NoEarlierEnd
<1>16. f \in Fields(b, s, e)
  <2>1. f \in s .. e
    BY <1>0, <1>2a, <1>15
  <2>2. QED BY <1>13, <2>1 DEF Fields
<1>17. f <= k
  BY <1>1, <1>3, <1>9, <1>13, <1>16 DEF Unrepeated
<1>18. QED BY <1>0, <1>17

\* The loop after a comment at the beginning.
LEMMA CommentScanned ==
    ASSUME NEW b \in Seq(Line), NEW a \in Assertion, NEW k \in DOMAIN b,
           Scanning(b, a, k), b[k].word = "#",
           NEW a2, a2.at = a.at, a2.env = a.env
    PROVE  Scanned(b, a2, Begins(b, a, k), k) /\ Fields(b, Begins(b, a, k), k) = {}
<1> DEFINE s == Begins(b, a, k)
<1>1. /\ Scanned(b, a, s, k - 1)
      /\ Fields(b, s, k - 1) = {}
  BY DEF Scanning
<1>2. s \in 1 .. k /\ k \in Nat
  <2>1. a.start \in Nat /\ a.start < k /\ k \in 1 .. Len(b) /\ Len(b) \in Nat
    BY LineFacts DEF Assertion, Scanning, Line
  <2>2. QED BY <2>1 DEF Begins
<1> HIDE DEF s
<1>3. \A n \in s .. k : n \in s .. k - 1 \/ n = k
  BY <1>2
<1>4. Fields(b, s, k) = {}
  <2>1. \A n \in s .. k - 1 : b[n].word \in {"white", "#"}
    BY <1>1 DEF Fields
  <2>2. \A n \in s .. k : b[n].word \in {"white", "#"}
    BY <1>3, <2>1
  <2>3. QED BY <2>2 DEF Fields
<1>5. \A w : With(b, s, k, w) = {} /\ With(b, s, k - 1, w) = {}
  BY <1>1, <1>4 DEF With
<1>6. InPlace(b, s, k)
  <2>1. \A n \in 1 .. s - 1 : b[n].word \in Spaces
    BY <1>1 DEF Scanned, InPlace
  <2>2. \A n \in s .. k : b[n].word # "blank"
    BY <1>1, <1>3 DEF Scanned, InPlace
  <2>3. \A n \in s .. k : b[n].word # "white"
    <3>1. \A n \in s .. k - 1 : b[n].word # "white"
      BY <1>1 DEF Scanned, InPlace
    <3>2. QED BY <1>3, <3>1
  <2>4. QED BY <1>4, <1>5, <2>1, <2>2, <2>3 DEF InPlace
<1>7. \A w \in Keywords : Noted(b, a2, s, k, w)
  BY <1>1, <1>5 DEF Scanned, Noted
<1>8. EnvNoted(b, a2)
  BY <1>1 DEF Scanned, EnvNoted
<1>9. QED BY <1>4, <1>6, <1>7, <1>8 DEF Scanned, s

\* Where the next field begins, or the text ends.
LEMMA FollowFacts ==
    ASSUME buf \in Seq(Line), i \in DOMAIN buf
    PROVE  /\ Follow \in i + 1 .. Len(buf) + 1
           /\ \A n \in i + 1 .. Follow - 1 : buf[n].word \in {"white", "#"}
           /\ Follow \in DOMAIN buf => buf[Follow].word \notin {"white", "#"}
<1> DEFINE F == {n \in i + 1 .. Len(buf) : buf[n].word \notin {"white", "#"}}
<1>1. Len(buf) \in Nat /\ DOMAIN buf = 1 .. Len(buf) /\ i \in 1 .. Len(buf)
  BY LineFacts DEF Line
<1>2. Follow = LET n == IF F # {} THEN Min(F) ELSE 0
               IN  IF n = 0 THEN Len(buf) + 1 ELSE n
  BY DEF Follow, SelectInSubSeq
<1>3. F \in SUBSET Nat
  BY <1>1
<1>4. CASE F = {}
  <2>1. Follow = Len(buf) + 1
    BY <1>2, <1>4
  <2>2. QED BY <1>1, <1>4, <2>1
<1>5. CASE F # {}
  <2>1. Min(F) \in F /\ \A y \in F : Min(F) <= y
    BY <1>3, <1>5, LeastNatural
  <2>2. Min(F) \in i + 1 .. Len(buf) /\ buf[Min(F)].word \notin {"white", "#"}
    BY <2>1
  <2>3. Follow = Min(F)
    BY <1>1, <1>2, <1>5, <2>2
  <2>4. \A n \in i + 1 .. Min(F) - 1 : n \in i + 1 .. Len(buf) /\ ~ Min(F) <= n
    BY <1>1, <2>2
  <2>5. \A n \in i + 1 .. Min(F) - 1 : n \notin F
    BY <2>1, <2>4
  <2>6. \A n \in i + 1 .. Min(F) - 1 : buf[n].word \in {"white", "#"}
    BY <2>4, <2>5
  <2>7. QED BY <1>1, <2>2, <2>3, <2>6
<1>6. QED BY <1>4, <1>5

\* The text of a call consists of lines.
LEMMA BufFacts ==
    ASSUME TypeOK
    PROVE  /\ buf \in Seq(Line) /\ Len(buf) \in Nat /\ DOMAIN buf = 1 .. Len(buf)
           /\ \A n \in DOMAIN buf : buf[n] \in Line
<1>1. buf \in Seq(Line)
  BY DEF TypeOK, CallType, buf
<1>2. QED BY <1>1, LineFacts DEF Line

\* What ParseField does to the assertion.
LEMMA FieldNoted ==
    ASSUME as \in Assertion, Keyword \in Keywords,
           as' = [as EXCEPT
               !.start = Started, !.seen = TRUE, !.at[Keyword] = i,
               !.env = IF Keyword = "local-constants" /\ buf[i].value # Empty
                       THEN buf[i].value ELSE @]
    PROVE  /\ as'.start = Started /\ as'.seen = TRUE /\ as'.auth = as.auth
           /\ as'.at = [as.at EXCEPT ![Keyword] = i]
           /\ as'.env = IF Keyword = "local-constants" /\ buf[i].value # Empty
                        THEN buf[i].value ELSE as.env
           /\ as' = [start |-> Started, seen |-> TRUE, env |-> as'.env,
                     auth |-> as.auth, at |-> [as.at EXCEPT ![Keyword] = i]]
BY DEF Assertion

\* The loop is at a line.
LEMMA AtLine ==
    ASSUME TypeOK, Typed, Parsing, pc = "parse", i \in DOMAIN buf
    PROVE  /\ buf \in Seq(Line) /\ as \in Assertion /\ Scanning(buf, as, i)
           /\ i \in Nat /\ i <= Len(buf) /\ Started = Begins(buf, as, i)
           /\ Started \in 1 .. i /\ buf[Started].word \notin Spaces
           /\ Started # 0 /\ Started \in DOMAIN buf
<1>1. /\ buf \in Seq(Line) /\ Len(buf) \in Nat /\ DOMAIN buf = 1 .. Len(buf)
      /\ as \in Assertion
  BY BufFacts DEF Typed
<1>2. i # 0 /\ i # Len(buf) + 1 /\ i \in Nat /\ i <= Len(buf)
  BY <1>1
<1>3. Scanning(buf, as, i)
  BY <1>2 DEF Parsing
<1>4. as.start < i /\ as.start \in Nat /\ buf[Begins(buf, as, i)].word \notin Spaces
  BY <1>1, <1>3 DEF Scanning, Assertion
<1>5. Started = Begins(buf, as, i)
  BY DEF Started, Begins
<1>6. Started \in 1 .. i
  <2>1. CASE as.start = 0
    <3>1. Started = i
      BY <2>1 DEF Started
    <3>2. QED BY <1>2, <3>1
  <2>2. CASE as.start # 0
    <3>1. Started = as.start
      BY <2>2 DEF Started
    <3>2. \A m, n \in Nat : m # 0 /\ m < n => m \in 1 .. n
      OBVIOUS
    <3>3. as.start \in Nat /\ i \in Nat /\ as.start < i
      BY <1>2, <1>4
    <3>4. as.start \in 1 .. i
      BY <2>2, <3>2, <3>3
    <3>5. QED BY <3>1, <3>4
  <2>3. QED BY <2>1, <2>2
<1>7. \A k, m, n \in Nat : m <= n /\ k \in 1 .. m => k # 0 /\ k \in 1 .. n
  OBVIOUS
<1>8. \A m \in Nat : \A k \in 1 .. m : k \in Nat
  OBVIOUS
<1>9. Started # 0 /\ Started \in DOMAIN buf
  BY <1>1, <1>2, <1>6, <1>7, <1>8
<1>10. buf[Started].word \notin Spaces
  BY <1>4, <1>5
<1>11. QED BY <1>1, <1>2, <1>3, <1>5, <1>6, <1>9, <1>10

\* The loop goes on, ...
GoesOn == \/ i' \in DOMAIN buf /\ Scanning(buf, as', i')
          \/ i' = Len(buf) + 1 /\ AllScanned(buf, as')

\* ... after a comment, ...
LEMMA CommentParsed ==
    ASSUME TypeOK, Typed, Parsing, ParseComment
    PROVE  GoesOn
<1> DEFINE s == Started
<1>1. /\ buf \in Seq(Line) /\ as \in Assertion /\ Scanning(buf, as, i)
      /\ i \in Nat /\ i <= Len(buf) /\ s = Begins(buf, as, i)
      /\ s \in 1 .. i /\ buf[s].word \notin Spaces
      /\ s # 0 /\ s \in DOMAIN buf
  BY AtLine DEF ParseComment
<1>2. i \in DOMAIN buf /\ buf[i].word = "#" /\ i' = i + 1
  BY DEF ParseComment, Word
<1>3. /\ as'.start = s /\ as'.seen = TRUE /\ as'.at = as.at /\ as'.env = as.env
  BY <1>1 DEF ParseComment, Assertion
<1>4. Len(buf) \in Nat /\ DOMAIN buf = 1 .. Len(buf)
  BY BufFacts
<1>4a. i \in Nat /\ s \in Nat /\ s <= i /\ i <= Len(buf) /\ s < i + 1
  <2>1. i \in Nat /\ s \in 1 .. i /\ i <= Len(buf)
    BY <1>1
  <2>2. QED BY <2>1
<1> HIDE DEF s
<1>5. Scanned(buf, as', s, i) /\ Fields(buf, s, i) = {}
  <2>1. /\ Scanned(buf, as', Begins(buf, as, i), i)
        /\ Fields(buf, Begins(buf, as, i), i) = {}
    BY <1>1, <1>2, <1>3, CommentScanned
  <2>2. QED BY <1>1, <2>1
<1>6. CASE i + 1 <= Len(buf)
  <2>1. i' \in DOMAIN buf /\ i' - 1 = i
    BY <1>1, <1>2, <1>4, <1>6
  <2>2. Begins(buf, as', i') = s
    BY <1>1, <1>3 DEF Begins
  <2>3. as'.start < i'
    BY <1>2, <1>3, <1>4a
  <2>4. as'.at["signature"] = 0
    BY <1>1, <1>3 DEF Scanning
  <2>5. Scanning(buf, as', i')
    BY <1>1, <1>3, <1>5, <2>1, <2>2, <2>3, <2>4 DEF Scanning
  <2>6. QED BY <2>1, <2>5 DEF GoesOn
<1>7. CASE i = Len(buf)
  <2>1. i' = Len(buf) + 1
    BY <1>2, <1>7
  <2>2. Ends(buf, i)
    BY <1>7 DEF Ends
  <2>3. ScannedTo(buf, as', i)
    BY <1>3, <1>5, <2>2 DEF ScannedTo, With
  <2>4. i \in as'.start .. Len(buf)
    <3>1. i \in s .. Len(buf)
      BY <1>4, <1>4a
    <3>2. QED BY <1>3, <3>1
  <2>5. AllScanned(buf, as')
    BY <1>1, <1>3, <2>3, <2>4 DEF AllScanned
  <2>6. QED BY <2>1, <2>5 DEF GoesOn
<1>8. \A m, n \in Nat : m <= n => m + 1 <= n \/ m = n
  OBVIOUS
<1>9. i + 1 <= Len(buf) \/ i = Len(buf)
  BY <1>4, <1>4a, <1>8
<1>10. QED BY <1>6, <1>7, <1>9

\* ... and after a field.
LEMMA FieldParsed ==
    ASSUME TypeOK, Typed, Parsing, ParseField
    PROVE  GoesOn
<1> DEFINE s == Started
           f == Follow
           K == Keyword
<1>1. /\ buf \in Seq(Line) /\ as \in Assertion /\ Scanning(buf, as, i)
      /\ i \in Nat /\ i <= Len(buf) /\ s = Begins(buf, as, i)
      /\ s \in 1 .. i /\ buf[s].word \notin Spaces
      /\ s # 0 /\ s \in DOMAIN buf
  BY AtLine DEF ParseField
<1>2. i \in DOMAIN buf /\ buf[i].word # "#" /\ K \in Keywords /\ K = KeywordOf(buf[i].word)
  BY DEF ParseField, IsField, Word, Keyword
<1>3. /\ as'.start = s /\ as'.seen = TRUE
      /\ as'.at = [as.at EXCEPT ![K] = i]
      /\ as'.env = IF K = "local-constants" /\ buf[i].value # Empty
                   THEN buf[i].value ELSE as.env
  BY <1>1, <1>2, FieldNoted DEF ParseField
<1>4. Len(buf) \in Nat /\ DOMAIN buf = 1 .. Len(buf)
  BY BufFacts
<1>5. /\ K = "version" => ~ as.seen /\ buf[i].value = Good
      /\ K = "local-constants" => as.env = None /\ buf[i].value # Bad
      /\ K \notin {"version", "local-constants"} => as.at[K] = 0
      /\ K = "signature" => AtEnd(f)
      /\ i' = IF AtEnd(f) THEN Len(buf) + 1 ELSE f
  BY DEF ParseField, IsField, Allowed, envlist_Parses, SignatureIsLast
<1>6. /\ f \in i + 1 .. Len(buf) + 1
      /\ \A n \in i + 1 .. f - 1 : buf[n].word \in {"white", "#"}
      /\ f \in DOMAIN buf => buf[f].word \notin {"white", "#"}
  BY <1>1, <1>2, FollowFacts
<1>7. buf[i].word \notin {"blank", "white", "#"}
  BY <1>2, KeywordFacts
<1>8. as.at["signature"] = 0 /\ as.at \in [Keywords -> Nat]
  BY <1>1 DEF Scanning, Assertion
<1> HIDE DEF s, f, K
<1>8a. /\ i \in Nat \ {0} /\ s \in Nat \ {0} /\ f \in Nat
       /\ s <= i /\ i < f /\ f - 1 <= Len(buf)
  <2>1. i \in Nat /\ s \in 1 .. i /\ f \in i + 1 .. Len(buf) + 1
    BY <1>1, <1>6
  <2>2. QED BY <1>4, <2>1
<1>9. Scanned(buf, as', s, f - 1)
  <2>1. f \in Nat /\ i < f
    BY <1>1, <1>4, <1>6
  <2>2. Scanned(buf, as', Begins(buf, as, i), f - 1)
    BY <1>1, <1>2, <1>3, <1>5, <1>6, <1>7, <2>1, FieldScanned
  <2>3. QED BY <1>1, <2>2
<1>10. CASE AtEnd(f)
  <2>1. i' = Len(buf) + 1
    BY <1>5, <1>10
  <2>2. Ends(buf, f - 1)
    <3>1. CASE f = Len(buf) + 1
      BY <1>4, <3>1 DEF Ends
    <3>2. CASE f # Len(buf) + 1
      <4>1. f \in DOMAIN buf /\ (f - 1) + 1 = f
        BY <1>1, <1>4, <1>6, <3>2
      <4>2. QED BY <1>10, <4>1 DEF AtEnd, Ends
    <3>3. QED BY <3>1, <3>2
  <2>3. ASSUME NEW n \in With(buf, s, f - 1, "signature"),
               NEW m \in Fields(buf, s, f - 1)
        PROVE  m <= n
    <3>1. /\ n <= as'.at["signature"] /\ ~ n < as'.at["signature"]
      BY <1>9 DEF Scanned, Noted, Keywords
    <3>2. n \in s .. f - 1 /\ m \in s .. f - 1
      BY DEF With, Fields
    <3>3. n \in Nat \ {0} /\ m \in Nat
      BY <1>8a, <3>2
    <3>4. K = "signature" /\ as'.at["signature"] = i
      <4>1. CASE K = "signature"
        BY <1>2, <1>3, <1>8, <4>1
      <4>2. CASE K # "signature"
        <5>1. as'.at["signature"] = 0
          BY <1>3, <1>8, <4>2 DEF Keywords
        <5>2. QED BY <3>1, <3>3, <5>1
      <4>3. QED BY <4>1, <4>2
    <3>5. n = i
      BY <1>1, <3>1, <3>3, <3>4
    <3>6. m <= i
      <4>1. CASE m \in i + 1 .. f - 1
        BY <1>6, <4>1 DEF Fields
      <4>2. CASE m \notin i + 1 .. f - 1
        BY <1>1, <1>6, <3>2, <3>3, <4>2
      <4>3. QED BY <4>1, <4>2
    <3>7. QED BY <3>5, <3>6
  <2>4. ScannedTo(buf, as', f - 1)
    BY <1>3, <1>9, <2>2, <2>3 DEF ScannedTo
  <2>5. f - 1 \in as'.start .. Len(buf)
    <3>1. f - 1 \in s .. Len(buf)
      BY <1>4, <1>8a
    <3>2. QED BY <1>3, <3>1
  <2>6. AllScanned(buf, as')
    BY <1>1, <1>3, <2>4, <2>5 DEF AllScanned
  <2>7. QED BY <2>1, <2>6 DEF GoesOn
<1>11. CASE ~ AtEnd(f)
  <2>1. i' = f /\ f \in DOMAIN buf /\ buf[f].word # "blank"
    BY <1>5, <1>11 DEF AtEnd
  <2>2. Begins(buf, as', f) = s
    BY <1>1, <1>3 DEF Begins
  <2>3. as'.start < f
    <3>1. s < f
      BY <1>8a
    <3>2. QED BY <1>3, <3>1
  <2>4. as'.at["signature"] = 0
    <3>1. K # "signature"
      BY <1>5, <1>11
    <3>2. QED BY <1>3, <1>8, <3>1 DEF Keywords
  <2>5. Scanning(buf, as', f)
    BY <1>1, <1>3, <1>6, <1>9, <2>1, <2>2, <2>3, <2>4 DEF Scanning
  <2>6. QED BY <2>1, <2>5 DEF GoesOn
<1>12. QED BY <1>10, <1>11

\* A line that ParseField does not take does not fit.
LEMMA RefusedLine ==
    ASSUME TypeOK, Typed, Parsing, ParseRefused
    PROVE  ~ WellFormed(buf)
<1>1. /\ buf \in Seq(Line) /\ as \in Assertion /\ Scanning(buf, as, i)
      /\ i \in Nat /\ i <= Len(buf)
  BY AtLine DEF ParseRefused
<1>2. i \in DOMAIN buf /\ buf[i].word # "#" /\ Keyword = KeywordOf(buf[i].word)
  BY DEF ParseRefused, Word, Keyword
<1>3. ~ IsField
  BY DEF ParseRefused
<1>4. Misfits(buf, as, i)
  <2>1. CASE Keyword \notin Keywords
    BY <1>2, <2>1 DEF Misfits
  <2>2. CASE ~ Allowed
    <3>1. CASE ~ envlist_Parses
      BY <1>2, <3>1 DEF Misfits, envlist_Parses
    <3>2. CASE envlist_Parses
      <4>1. CASE Keyword = "version"
        <5>1. as.seen
          BY <2>2, <3>2, <4>1 DEF Allowed
        <5>2. QED BY <1>2, <4>1, <5>1 DEF Misfits
      <4>2. CASE Keyword = "local-constants"
        <5>1. as.env # None
          BY <2>2, <3>2, <4>2 DEF Allowed
        <5>2. QED BY <1>2, <4>2, <5>1 DEF Misfits
      <4>3. CASE Keyword \notin {"version", "local-constants"}
        <5>1. as.at[Keyword] # 0
          BY <2>2, <3>2, <4>3 DEF Allowed
        <5>2. QED BY <1>2, <4>3, <5>1 DEF Misfits
      <4>4. QED BY <4>1, <4>2, <4>3
    <3>3. QED BY <3>1, <3>2
  <2>3. CASE ~ SignatureIsLast
    <3>1. Keyword = "signature" /\ Follow \in DOMAIN buf /\ buf[Follow].word # "blank"
      BY <2>3 DEF SignatureIsLast, AtEnd
    <3>2. /\ Follow \in i + 1 .. Len(buf) + 1
          /\ \A n \in i + 1 .. Follow - 1 : buf[n].word \in {"white", "#"}
          /\ Follow \in DOMAIN buf => buf[Follow].word \notin {"white", "#"}
      BY <1>1, <1>2, FollowFacts
    <3>3. Follow \in i + 1 .. Len(buf)
      BY <1>1, <3>1, <3>2, BufFacts
    <3>4. QED BY <1>2, <3>1, <3>2, <3>3 DEF Misfits
  <2>4. QED BY <1>3, <2>1, <2>2, <2>3 DEF IsField
<1>5. QED BY <1>1, <1>2, <1>4, MisfitIsRefused

-------------------------------------------------------------------------------
(***************************************************************************)
(* What is read and what is signed.                                        *)
(***************************************************************************)
\* A piece of a text.
LEMMA PieceFacts ==
    ASSUME NEW S, NEW b \in Seq(S), NEW s \in Nat \ {0}, NEW g \in Nat, s <= g,
           g <= Len(b) + 1
    PROVE  /\ SubSeq(b, s, g - 1) \in Seq(S)
           /\ DOMAIN SubSeq(b, s, g - 1) = 1 .. g - s
           /\ \A n \in 1 .. g - s : SubSeq(b, s, g - 1)[n] = b[s + n - 1]
<1>1. Len(b) \in Nat /\ DOMAIN b = 1 .. Len(b)
  BY LenProperties
<1>2. \A n \in s .. g - 1 : n \in 1 .. Len(b)
  BY <1>1
<1>3. \A n \in s .. g - 1 : b[n] \in S
  BY <1>1, <1>2, ElementOfSeq
<1>4. /\ SubSeq(b, s, g - 1) \in Seq(S)
      /\ Len(SubSeq(b, s, g - 1)) = g - s
  BY <1>1, <1>2, <1>3, SubSeqProperties
<1>5. \A n \in 1 .. g - s : SubSeq(b, s, g - 1)[n] = b[s + n - 1]
  BY <1>1, <1>2, <1>3, SubSeqProperties
<1>6. DOMAIN SubSeq(b, s, g - 1) = 1 .. g - s
  BY <1>4, LenProperties
<1>7. QED BY <1>4, <1>5, <1>6

\* The content of an assertion with a signature: the lines before it.
LEMMA ContentFacts ==
    ASSUME TypeOK, Typed, AllScanned(buf, as), as.at["signature"] # 0
    PROVE  LET g == as.at["signature"]
           IN  /\ as.start \in Nat \ {0} /\ g \in Nat /\ as.start <= g
               /\ g \in DOMAIN buf /\ buf[g].word = "signature"
               /\ Content \in Seq(Line)
               /\ DOMAIN Content = 1 .. g - as.start
               /\ \A n \in 1 .. g - as.start : Content[n] = buf[as.start + n - 1]
<1> DEFINE s == as.start
           g == as.at["signature"]
<1>1. /\ buf \in Seq(Line) /\ Len(buf) \in Nat /\ DOMAIN buf = 1 .. Len(buf)
      /\ as \in Assertion
  BY BufFacts DEF Typed
<1>2. PICK e \in s .. Len(buf) : ScannedTo(buf, as, e)
  BY DEF AllScanned
<1>3. s \in 1 .. Len(buf)
  BY <1>1 DEF AllScanned
<1>4. g \in With(buf, s, e, "signature")
  BY <1>2 DEF ScannedTo, Scanned, Noted, Keywords
<1>5. g \in s .. e /\ buf[g].word = "signature"
  <2>1. g \in s .. e /\ KeywordOf(buf[g].word) = "signature"
    BY <1>4 DEF With, Fields
  <2>2. QED BY <2>1, KeywordFacts DEF Keywords
<1> HIDE DEF s, g
<1>6. s \in Nat \ {0} /\ g \in Nat /\ s <= g /\ g <= Len(buf) + 1 /\ g \in 1 .. Len(buf)
  BY <1>1, <1>3, <1>5
<1>7. /\ SubSeq(buf, s, g - 1) \in Seq(Line)
      /\ DOMAIN SubSeq(buf, s, g - 1) = 1 .. g - s
      /\ \A n \in 1 .. g - s : SubSeq(buf, s, g - 1)[n] = buf[s + n - 1]
  BY <1>1, <1>6, PieceFacts
<1>8. Content = SubSeq(buf, s, g - 1)
  BY DEF Content, s, g
<1>9. QED BY <1>1, <1>5, <1>6, <1>7, <1>8 DEF s, g

\* What the parser reads of a signed assertion, it reads in the content.
LEMMA ReadIsOfContent ==
    ASSUME TypeOK, Typed, AllScanned(buf, as), as.at["signature"] # 0
    PROVE  Read = ReadAll(Content)
<1> DEFINE s == as.start
           g == as.at["signature"]
           c == Content
<1>1. /\ s \in Nat \ {0} /\ g \in Nat /\ s <= g
      /\ c \in Seq(Line)
      /\ DOMAIN c = 1 .. g - s
      /\ \A n \in 1 .. g - s : c[n] = buf[s + n - 1]
  BY ContentFacts
<1>2. PICK e \in s .. Len(buf) : ScannedTo(buf, as, e)
  BY DEF AllScanned
<1>2a. s \in Nat \ {0} /\ g \in Nat /\ s <= g
  BY <1>1
<1>3. /\ as \in Assertion /\ as.at \in [Keywords -> Nat]
      /\ Len(buf) \in Nat /\ e \in Nat
  <2>1. as \in Assertion /\ as.at \in [Keywords -> Nat]
    BY DEF Typed, Assertion
  <2>2. Len(buf) \in Nat
    BY BufFacts
  <2>3. \A m, n \in Nat : \A k \in m .. n : k \in Nat
    OBVIOUS
  <2>4. e \in Nat
    BY <1>2a, <2>2, <2>3
  <2>5. QED BY <2>1, <2>2, <2>4
<1>4. /\ g \in With(buf, s, e, "signature")
      /\ \A n \in With(buf, s, e, "signature"), m \in Fields(buf, s, e) : m <= n
      /\ \A w \in Keywords : Noted(buf, as, s, e, w)
  BY <1>2 DEF ScannedTo, Scanned, Noted, Keywords
<1>5. g \in s .. e /\ KeywordOf(buf[g].word) = "signature"
  BY <1>4 DEF With, Fields
<1> HIDE DEF s, g, c
<1>6. ASSUME NEW w \in Keywords \ {"signature"}
      PROVE  {buf[n].value : n \in {as.at[w]} \ {0}}
                 = {c[n].value : n \in {m \in LinesOf(c, w) :
                                            \A k \in LinesOf(c, w) : k <= m}}
  <2>0. PICK a : a = as.at[w]
    OBVIOUS
  <2> DEFINE last == {m \in LinesOf(c, w) : \A k \in LinesOf(c, w) : k <= m}
  <2>1. a \in Nat /\ Noted(buf, as, s, e, w)
    BY <1>3, <1>4, <2>0
  <2>1a. a \in Nat
    BY <2>1
  <2>2. ASSUME NEW n \in LinesOf(c, w)
        PROVE  /\ s + n - 1 \in With(buf, s, e, w) /\ n \in 1 .. g - s
               /\ s + n - 1 <= a /\ a # 0
    <3>1. n \in 1 .. g - s /\ KeywordOf(buf[s + n - 1].word) = w
      BY <1>1 DEF LinesOf
    <3>2. s + n - 1 \in s .. e
      BY <1>1, <1>3, <1>5, <3>1
    <3>3. buf[s + n - 1].word \notin {"white", "#"}
      BY <3>1, KeywordFacts
    <3>4. s + n - 1 \in With(buf, s, e, w)
      BY <3>1, <3>2, <3>3 DEF With, Fields
    <3>5. s + n - 1 <= a
      BY <2>0, <2>1, <3>4 DEF Noted
    <3>5a. n \in 1 .. g - s
      BY <3>1
    <3>6. a # 0
      BY <1>2a, <2>1a, <3>5, <3>5a
    <3>7. QED BY <3>1, <3>4, <3>5, <3>6
  <2>3. CASE a = 0
    <3>1. LinesOf(c, w) = {}
      BY <2>2, <2>3
    <3>2. last = {}
      BY <3>1
    <3>3. {as.at[w]} \ {0} = {}
      BY <2>0, <2>3
    <3>4. QED BY <3>2, <3>3
  <2>4. CASE a # 0
    <3> DEFINE n == a - s + 1
    <3>1. a \in With(buf, s, e, w)
      BY <2>0, <2>1, <2>4 DEF Noted
    <3>2. a \in s .. e /\ KeywordOf(buf[a].word) = w /\ a \in Fields(buf, s, e)
      BY <3>1 DEF With, Fields
    <3>3. a <= g /\ a # g
      BY <1>4, <1>5, <3>2
    <3>3a. s <= a
      BY <1>3, <3>2
    <3>4. n \in 1 .. g - s /\ s + n - 1 = a
      BY <1>2a, <2>1a, <3>3, <3>3a
    <3>5. c[n] = buf[a]
      BY <1>1, <3>4
    <3>6. n \in LinesOf(c, w)
      BY <1>1, <3>2, <3>4, <3>5 DEF LinesOf
    <3>7. \A k \in LinesOf(c, w) : k <= n
      <4> SUFFICES ASSUME NEW k \in LinesOf(c, w) PROVE k <= n
        OBVIOUS
      <4>1. k \in 1 .. g - s /\ s + k - 1 <= a
        BY <2>2
      <4>2. k \in 1 .. g - s
        BY <4>1
      <4>3. s + k - 1 <= a
        BY <4>1
      <4>4. QED BY <1>2a, <2>1a, <4>2, <4>3
    <3>8. \A m \in last : m = n
      <4> SUFFICES ASSUME NEW m \in last PROVE m = n
        OBVIOUS
      <4>1. m \in LinesOf(c, w) /\ n <= m /\ m <= n
        BY <3>6, <3>7
      <4>2. m \in 1 .. g - s
        BY <2>2, <4>1
      <4>3. m \in Nat /\ n \in Nat
        BY <1>2a, <3>4, <4>2
      <4>4. QED BY <4>1, <4>3
    <3>9. n \in last
      BY <3>6, <3>7
    <3> HIDE DEF n, last
    <3>10. last = {n}
      BY <3>8, <3>9
    <3>11. {c[m].value : m \in last} = {buf[a].value}
      BY <3>5, <3>10
    <3>12. {buf[m].value : m \in {as.at[w]} \ {0}} = {buf[a].value}
      BY <2>0, <2>4
    <3>13. QED BY <3>11, <3>12 DEF last
  <2>5. QED BY <2>3, <2>4
<1>7. QED BY <1>6 DEF Read, ReadAll, c

-------------------------------------------------------------------------------
(***************************************************************************)
(* The types.                                                              *)
(***************************************************************************)
\* With more signatures there are more lines.
LEMMA MoreLines ==
    ASSUME NEW k \in Nat, NEW m \in Nat, k <= m
    PROVE  LineWith(k) \subseteq LineWith(m)
<1> SUFFICES ASSUME NEW l \in LineWith(k) PROVE l.value \in ValuesOf(l.word, m)
  BY DEF LineWith
<1>1. l.value \in ValuesOf(l.word, k)
  BY DEF LineWith
<1>2. 1 .. k \subseteq 1 .. m
  OBVIOUS
<1>3. QED BY <1>1, <1>2 DEF ValuesOf

\* And more texts.
LEMMA MoreTexts ==
    ASSUME NEW k \in Nat, NEW m \in Nat, k <= m, NEW b \in Seq(LineWith(k))
    PROVE  b \in Seq(LineWith(m))
<1>1. Len(b) \in Nat /\ \A n \in 1 .. Len(b) : b[n] \in LineWith(k)
  BY LineFacts
<1>2. \A n \in 1 .. Len(b) : b[n] \in LineWith(m)
  BY <1>1, MoreLines
<1>3. b = [n \in 1 .. Len(b) |-> b[n]]
  BY LenProperties
<1>4. QED BY <1>1, <1>2, <1>3, IsASeq

\* Before a call.
LEMMA IdleFacts ==
    ASSUME IInv, pc = "idle"
    PROVE  /\ call = NoCall /\ call.op = "none" /\ buf = <<>> /\ i = 0
           /\ as = NoAssertion /\ as.auth = None /\ as.env = None /\ as.start = 0
           /\ ~ as.seen /\ as.at = [w \in Keywords |-> 0]
           /\ result = "none"
<1>1. call = NoCall /\ i = 0 /\ as = NoAssertion /\ result = "none"
  BY DEF IInv, Calling
<1>2. QED BY <1>1 DEF NoCall, NoAssertion, buf

\* What the types say of the signatures and of the file.
LEMMA CountFacts ==
    ASSUME IInv
    PROVE  /\ Len(signed) \in Nat /\ Len(signed) <= MaxSigned /\ MaxSigned \in Nat
           /\ DOMAIN signed = 1 .. Len(signed)
           /\ \A n \in DOMAIN signed : signed[n] \in Signature
           /\ MaxEdits \in Nat /\ edits \in 0 .. MaxEdits
           /\ text \in Seq(Line)
<1>1. signed \in Seq(Signature)
  BY DEF IInv, Typed
<1>2. Len(signed) \in Nat /\ DOMAIN signed = 1 .. Len(signed)
  BY <1>1, LenProperties
<1>3. \A n \in DOMAIN signed : signed[n] \in Signature
  BY <1>1, <1>2, ElementOfSeq
<1>4. Len(signed) <= MaxSigned /\ MaxSigned \in Nat /\ MaxEdits \in Nat
  BY AssertionAssumption DEF IInv, TypeOK
<1>5. edits \in 0 .. MaxEdits /\ text \in Seq(LineWith(Len(signed)))
  BY DEF IInv, TypeOK
<1>6. text \in Seq(Line)
  BY <1>2, <1>4, <1>5, MoreTexts DEF Line
<1>7. QED BY <1>2, <1>3, <1>4, <1>5, <1>6

\* The pieces of a file consist of its lines.
LEMMA PiecesAreTexts ==
    ASSUME NEW k, NEW b \in Seq(LineWith(k)), NEW c \in kn_read_asserts(b)
    PROVE  c \in Seq(LineWith(k))
<1>1. PICK d \in (DOMAIN b) \X (DOMAIN b) : c = SubSeq(b, d[1], d[2])
  BY DEF kn_read_asserts
<1>2. Len(b) \in Nat /\ DOMAIN b = 1 .. Len(b) /\ \A n \in DOMAIN b : b[n] \in LineWith(k)
  BY LineFacts
<1>3. d[1] \in 1 .. Len(b) /\ d[2] \in 1 .. Len(b)
  BY <1>1, <1>2
<1>4. \A n \in d[1] .. d[2] : n \in DOMAIN b
  BY <1>2, <1>3
<1>5. \A n \in d[1] .. d[2] : b[n] \in LineWith(k)
  BY <1>2, <1>4
<1>6. SubSeq(b, d[1], d[2]) \in Seq(LineWith(k))
  BY <1>3, <1>2, <1>5, SubSeqProperties
<1>7. QED BY <1>1, <1>6

\* The first line that is not white.
LEMMA SkippedFacts ==
    ASSUME NEW k, NEW b \in Seq(LineWith(k)), NEW n,
           n = SelectInSeq(b, LAMBDA l : l.word \notin Spaces)
    PROVE  \/ n = 0 /\ \A m \in DOMAIN b : b[m].word \in Spaces
           \/ /\ n \in DOMAIN b /\ b[n].word \notin Spaces
              /\ \A m \in 1 .. n - 1 : b[m].word \in Spaces
<1> DEFINE F == {m \in 1 .. Len(b) : b[m].word \notin Spaces}
<1>1. Len(b) \in Nat /\ DOMAIN b = 1 .. Len(b)
  BY LineFacts
<1>2. n = IF F # {} THEN Min(F) ELSE 0
  BY DEF SelectInSeq
<1>3. F \in SUBSET Nat
  BY <1>1
<1>4. CASE F = {}
  BY <1>1, <1>2, <1>4
<1>5. CASE F # {}
  <2>1. Min(F) \in F /\ \A y \in F : Min(F) <= y
    BY <1>3, <1>5, LeastNatural
  <2>2. n = Min(F)
    BY <1>2, <1>5
  <2>3. n \in 1 .. Len(b) /\ b[n].word \notin Spaces
    BY <2>1, <2>2
  <2>4. \A m \in 1 .. n - 1 : m \in 1 .. Len(b) /\ ~ n <= m
    BY <1>1, <2>3
  <2>5. \A m \in 1 .. n - 1 : b[m].word \in Spaces
    BY <2>1, <2>2, <2>4
  <2>6. QED BY <1>1, <2>3, <2>5
<1>6. QED BY <1>4, <1>5

-------------------------------------------------------------------------------
(***************************************************************************)
(* The steps.                                                              *)
(***************************************************************************)
\* In the beginning nothing has been signed and nothing is parsed.
LEMMA InitInv == Init => IInv
<1> SUFFICES ASSUME Init PROVE IInv
  OBVIOUS
<1>1. /\ text \in Texts /\ signed = <<>> /\ edits = 0 /\ pc = "idle"
      /\ call = NoCall /\ i = 0 /\ as = NoAssertion /\ result = "none"
  BY DEF Init
<1>2. /\ Len(signed) = 0 /\ DOMAIN signed = {} /\ signed \in Seq(Signature)
      /\ text \in Seq(LineWith(0)) /\ MaxSigned \in Nat /\ MaxEdits \in Nat
  BY <1>1, AssertionAssumption, EmptySeq
<1>3. buf = <<>> /\ Len(buf) = 0 /\ \A k : buf \in Seq(LineWith(k))
  BY <1>1, EmptySeq DEF NoCall, buf
<1>4. call \in CallType
  <2>1. <<>> \in Seq(Line)
    BY EmptySeq
  <2>2. QED BY <1>1, <2>1 DEF CallType, NoCall
<1>5. /\ as.start = 0 /\ as.env = None /\ as.auth = None
      /\ \A w \in Keywords : as.at[w] = 0
      /\ as \in Assertion
  BY <1>1 DEF NoAssertion, Assertion
<1>6. TypeOK
  BY <1>1, <1>2, <1>3, <1>4, <1>5 DEF TypeOK
<1>7. Typed
  BY <1>2, <1>3, <1>5 DEF Typed
<1>8. Parsing
  BY <1>1 DEF Parsing
<1>9. Calling
  <2>1. call.op = "none"
    BY <1>1 DEF NoCall
  <2>2. QED BY <1>1, <1>5, <2>1 DEF Calling
<1>10. Signing
  BY <1>1, <1>2 DEF Signing
<1>11. QED BY <1>6, <1>7, <1>8, <1>9, <1>10 DEF IInv

\* The calls that may be made.
CallOK(c) ==
    /\ c \in CallType /\ c.op \in {"add", "verify", "sign"}
    /\ c.buf \in Seq(LineWith(Len(signed)))
    /\ c.op \in {"add", "sign"} => c.buf = text
    /\ c.op = "sign" => Len(signed) < MaxSigned

\* A call begins with the first line that is not white.
LEMMA CallsInv ==
    ASSUME IInv, NEW c, CallOK(c), Calls(c)
    PROVE  IInv'
<1>1. /\ pc = "idle" /\ pc' = "parse" /\ call' = c
      /\ i' = SelectInSeq(c.buf, LAMBDA l : l.word \notin Spaces)
      /\ text' = text /\ signed' = signed /\ edits' = edits /\ as' = as
      /\ result' = result
  BY DEF Calls
<1>2. /\ as = NoAssertion /\ as.auth = None /\ as.env = None /\ as.start = 0
      /\ ~ as.seen /\ as.at = [w \in Keywords |-> 0]
      /\ result = "none"
  BY <1>1, IdleFacts
<1>3. c.buf \in Seq(LineWith(Len(signed))) /\ buf' = c.buf
  BY <1>1 DEF CallOK, buf
<1>4. Len(c.buf) \in Nat /\ DOMAIN c.buf = 1 .. Len(c.buf)
  BY <1>3, LineFacts
<1>5. \/ i' = 0 /\ \A m \in DOMAIN c.buf : c.buf[m].word \in Spaces
      \/ /\ i' \in DOMAIN c.buf /\ c.buf[i'].word \notin Spaces
         /\ \A m \in 1 .. i' - 1 : c.buf[m].word \in Spaces
  BY <1>1, <1>3, SkippedFacts
<1>6. TypeOK'
  <2>1. i' \in 0 .. Len(c.buf) + 1
    BY <1>4, <1>5
  <2>2. as'.start \in 0 .. Len(c.buf)
    BY <1>1, <1>2, <1>4
  <2>3. \A w \in Keywords : as'.at[w] \in 0 .. Len(c.buf)
    BY <1>1, <1>2, <1>4
  <2>4. /\ text' \in Seq(LineWith(Len(signed'))) /\ Len(signed') <= MaxSigned
        /\ edits' \in 0 .. MaxEdits
    BY <1>1 DEF IInv, TypeOK
  <2>5. call' \in CallType
    BY <1>1 DEF CallOK
  <2>6. QED BY <1>1, <1>2, <1>3, <2>1, <2>2, <2>3, <2>4, <2>5 DEF TypeOK
<1>7. Typed'
  <2>1. Typed
    BY DEF IInv
  <2>2. buf' \in Seq(LineWith(Len(signed')))
    BY <1>1, <1>3
  <2>3. QED BY <1>1, <2>1, <2>2 DEF Typed
<1>8. Parsing'
  <2>1. CASE i' = 0 /\ \A m \in DOMAIN c.buf : c.buf[m].word \in Spaces
    BY <1>1, <1>3, <2>1 DEF Parsing
  <2>2. CASE /\ i' \in DOMAIN c.buf /\ c.buf[i'].word \notin Spaces
             /\ \A m \in 1 .. i' - 1 : c.buf[m].word \in Spaces
    <3>1. PICK k : k = i'
      OBVIOUS
    <3>2. k \in 1 .. Len(c.buf) /\ k .. k - 1 = {}
      BY <1>4, <2>2, <3>1
    <3>3. Fields(c.buf, k, k - 1) = {} /\ \A w : With(c.buf, k, k - 1, w) = {}
      BY <3>2 DEF Fields, With
    <3>4. InPlace(c.buf, k, k - 1)
      BY <2>2, <3>1, <3>2, <3>3 DEF InPlace
    <3>5. \A w \in Keywords : Noted(c.buf, as', k, k - 1, w)
      BY <1>1, <1>2, <3>3 DEF Noted
    <3>6. EnvNoted(c.buf, as')
      BY <1>1, <1>2 DEF EnvNoted, Keywords
    <3>7. Begins(c.buf, as', k) = k
      BY <1>1, <1>2 DEF Begins
    <3>8. as'.start < k /\ as'.seen = (as'.start # 0) /\ as'.at["signature"] = 0
      <4>1. as'.start < k
        BY <1>1, <1>2, <1>4, <3>2
      <4>2. QED BY <1>1, <1>2, <4>1, <1>7 DEF Keywords, NoAssertion
    <3>9. Scanning(c.buf, as', k)
      BY <2>2, <3>1, <3>3, <3>4, <3>5, <3>6, <3>7, <3>8 DEF Scanning, Scanned
    <3>10. QED BY <1>1, <1>3, <2>2, <3>1, <3>9 DEF Parsing
  <2>3. QED BY <1>5, <2>1, <2>2
<1>9. Calling'
  <2>1. c.op # "none" /\ (c.op = "sign" => Len(signed) < MaxSigned)
    BY DEF CallOK
  <2>2. c.op \in {"add", "sign"} => buf' = text'
    BY <1>1, <1>3 DEF CallOK
  <2>3. QED BY <1>1, <1>2, <2>1, <2>2 DEF Calling, CallOK
<1>10. Signing'
  <2>1. Signing
    BY DEF IInv
  <2>2. \A g : StandsAt(g)' <=> StandsAt(g)
    BY <1>1 DEF StandsAt
  <2>3. QED BY <1>1, <1>2, <2>1, <2>2 DEF Signing
<1>11. QED BY <1>6, <1>7, <1>8, <1>9, <1>10 DEF IInv

\* A step without a call leaves nothing of one.
LEMMA IdleInv ==
    ASSUME IInv, pc = "idle", UNCHANGED <<call, i, as>>,
           \/ pc' = "idle" /\ result' = result
           \/ pc' = "returned" /\ result' = "refused",
           signed' \in Seq(Signature), Len(signed') <= MaxSigned,
           \A n \in DOMAIN signed' : signed'[n].read = ReadAll(signed'[n].content),
           text' \in Seq(LineWith(Len(signed'))), edits' \in 0 .. MaxEdits,
           edits' = 0 /\ Len(signed') = 1 => \E g \in DOMAIN text' : StandsAt(g)'
    PROVE  IInv'
<1>1. /\ call.op = "none" /\ buf = <<>> /\ i = 0 /\ as = NoAssertion
      /\ as.auth = None /\ result = "none"
  BY IdleFacts
<1>2. buf' = <<>> /\ buf' = buf /\ call' = call /\ i' = i /\ as' = as
  BY <1>1 DEF buf
<1>3. TypeOK /\ Typed /\ Calling /\ Signing
  BY DEF IInv
<1>4. TypeOK'
  BY <1>1, <1>2, <1>3 DEF TypeOK
<1>5. Typed'
  <2>1. buf' \in Seq(LineWith(Len(signed')))
    BY <1>2, EmptySeq
  <2>2. QED BY <1>2, <1>3, <2>1 DEF Typed
<1>6. Parsing'
  BY <1>1, <1>2 DEF Parsing
<1>7. Calling'
  BY <1>1, <1>2, <1>3 DEF Calling
<1>8. Signing'
  BY <1>1 DEF Signing
<1>9. QED BY <1>4, <1>5, <1>6, <1>7, <1>8 DEF IInv

\* A key of the wrong form.
LEMMA SignRefusedInv ==
    ASSUME IInv, NEW file, NEW name, SignRefused(file, name)
    PROVE  IInv'
<1>1. /\ pc = "idle" /\ pc' = "returned" /\ result' = "refused"
      /\ text' = text /\ signed' = signed /\ edits' = edits
      /\ UNCHANGED <<call, i, as>>
  BY DEF SignRefused
<1>2. /\ signed \in Seq(Signature) /\ Len(signed) <= MaxSigned
      /\ \A n \in DOMAIN signed : signed[n].read = ReadAll(signed[n].content)
      /\ text \in Seq(LineWith(Len(signed))) /\ edits \in 0 .. MaxEdits
  BY DEF IInv, TypeOK, Typed
<1>3. result = "none"
  BY <1>1, IdleFacts
<1>4. edits = 0 /\ Len(signed) = 1 => \E g \in DOMAIN text : StandsAt(g)
  BY <1>3 DEF IInv, Signing
<1>5. \A g : StandsAt(g)' <=> StandsAt(g)
  BY <1>1 DEF StandsAt
<1>6. QED BY <1>1, <1>2, <1>4, <1>5, IdleInv

\* The file is changed.
LEMMA EditInv ==
    ASSUME IInv, Edit
    PROVE  IInv'
<1>1. /\ pc = "idle" /\ pc' = pc /\ result' = result /\ edits' = edits + 1
      /\ edits < MaxEdits /\ signed' = signed /\ UNCHANGED <<call, i, as>>
  BY DEF Edit
<1>2. /\ signed \in Seq(Signature) /\ Len(signed) <= MaxSigned
      /\ \A n \in DOMAIN signed : signed[n].read = ReadAll(signed[n].content)
      /\ text \in Seq(LineWith(Len(signed))) /\ edits \in 0 .. MaxEdits
  BY DEF IInv, TypeOK, Typed
<1>3. edits' \in 0 .. MaxEdits /\ edits' # 0
  BY <1>1, <1>2, CountFacts
<1> DEFINE L == LineWith(Len(signed))
<1>4. Len(text) \in Nat /\ DOMAIN text = 1 .. Len(text)
      /\ \A n \in DOMAIN text : text[n] \in L
  BY <1>2, LineFacts
<1>5. text' \in Seq(L)
  <2> HIDE DEF L
  <2> DEFINE before(n) == SubSeq(text, 1, n - 1)
             after(n) == SubSeq(text, n, Len(text))
  <2>1. \A n \in 1 .. Len(text) + 1 : before(n) \in Seq(L)
    <3> SUFFICES ASSUME NEW n \in 1 .. Len(text) + 1 PROVE before(n) \in Seq(L)
      OBVIOUS
    <3>1. \A m \in 1 .. n - 1 : m \in 1 .. Len(text)
      BY <1>4
    <3>2. \A m \in 1 .. n - 1 : text[m] \in L
      BY <1>4, <3>1
    <3>3. n - 1 \in Int
      BY <1>4
    <3>4. QED BY <3>2, <3>3, SubSeqProperties
  <2>2. \A n \in 1 .. Len(text) + 1 : after(n) \in Seq(L)
    <3> SUFFICES ASSUME NEW n \in 1 .. Len(text) + 1 PROVE after(n) \in Seq(L)
      OBVIOUS
    <3>1. \A m \in n .. Len(text) : m \in 1 .. Len(text)
      BY <1>4
    <3>2. \A m \in n .. Len(text) : text[m] \in L
      BY <1>4, <3>1
    <3>3. n \in Int /\ Len(text) \in Int
      BY <1>4
    <3>4. QED BY <3>2, <3>3, SubSeqProperties
  <2>3. CASE \E n \in DOMAIN text : text' = RemoveAt(text, n)
    <3>1. PICK n \in DOMAIN text : text' = RemoveAt(text, n)
      BY <2>3
    <3>2. n \in 1 .. Len(text) + 1 /\ n + 1 \in 1 .. Len(text) + 1
      BY <1>4
    <3>3. text' = before(n) \o after(n + 1)
      BY <3>1 DEF RemoveAt
    <3>4. before(n) \in Seq(L) /\ after(n + 1) \in Seq(L)
      BY <2>1, <2>2, <3>2
    <3> HIDE DEF before, after
    <3>5. QED BY <3>3, <3>4, ConcatProperties
  <2>4. CASE \E n \in DOMAIN text, l \in EditLines \intersect LineWith(Len(signed)) :
                 text[n] # l /\ text' = ReplaceAt(text, n, l)
    <3>1. PICK n \in DOMAIN text, l \in L : text' = ReplaceAt(text, n, l)
      BY <2>4 DEF L
    <3>2. text' = [text EXCEPT ![n] = l]
      BY <3>1 DEF ReplaceAt
    <3>3. text \in Seq(L)
      BY <1>2 DEF L
    <3>4. QED BY <1>4, <3>1, <3>2, <3>3, ExceptSeq
  <2>5. CASE \E n \in 1 .. Len(text) + 1,
                l \in EditLines \intersect LineWith(Len(signed)) :
                 text' = InsertAt(text, n, l)
    <3>1. PICK n \in 1 .. Len(text) + 1, l \in L : text' = InsertAt(text, n, l)
      BY <2>5 DEF L
    <3>2. text' = before(n) \o <<l>> \o after(n)
      BY <3>1 DEF InsertAt
    <3>3. before(n) \in Seq(L) /\ after(n) \in Seq(L)
      BY <2>1, <2>2
    <3>4. <<l>> \in Seq(L)
      OBVIOUS
    <3> HIDE DEF before, after
    <3>5. before(n) \o <<l>> \in Seq(L)
      BY <3>3, <3>4, ConcatProperties
    <3>6. QED BY <3>2, <3>3, <3>5, ConcatProperties
  <2>6. QED BY <2>3, <2>4, <2>5 DEF Edit
<1>6. QED BY <1>1, <1>2, <1>3, <1>5, IdleInv

\* The text of keynote_add_assertion is the file.
LEMMA AddInv ==
    ASSUME IInv, Add
    PROVE  IInv'
<1> DEFINE c == [op |-> "add", buf |-> text]
<1>1. text \in Seq(LineWith(Len(signed))) /\ text \in Seq(Line)
  BY CountFacts DEF IInv, TypeOK
<1>2. CallOK(c)
  BY <1>1 DEF CallOK, CallType
<1>3. Calls(c)
  BY DEF Add
<1> HIDE DEF c
<1>4. QED BY <1>2, <1>3, CallsInv

\* A piece of a file is one of its texts.
LEMMA VerifyInv ==
    ASSUME IInv, Verify
    PROVE  IInv'
<1>1. PICK b \in kn_read_asserts(text) \union {text} :
          Calls([op |-> "verify", buf |-> b])
  BY DEF Verify
<1> DEFINE c == [op |-> "verify", buf |-> b]
<1>2. text \in Seq(LineWith(Len(signed)))
  BY DEF IInv, TypeOK
<1>3. b \in Seq(LineWith(Len(signed)))
  BY <1>2, PiecesAreTexts
<1>4. b \in Seq(Line)
  BY <1>3, CountFacts, MoreTexts DEF Line
<1>5. CallOK(c)
  BY <1>3, <1>4 DEF CallOK, CallType
<1>6. Calls(c)
  BY <1>1
<1> HIDE DEF c
<1>7. QED BY <1>5, <1>6, CallsInv

\* There is room for the signature.
LEMMA SignInv ==
    ASSUME IInv, NEW file \in KeyFile, NEW name \in Names, NEW vflag \in BOOLEAN,
           Sign(file, name, vflag)
    PROVE  IInv'
<1> DEFINE c == [op |-> "sign", buf |-> text, file |-> file, name |-> name,
                 vflag |-> vflag]
<1>1. text \in Seq(LineWith(Len(signed))) /\ text \in Seq(Line)
  BY CountFacts DEF IInv, TypeOK
<1>2. c \in CallType
  BY <1>1 DEF CallType
<1>3. CallOK(c)
  BY <1>1, <1>2 DEF CallOK, Sign
<1>4. Calls(c)
  BY DEF Sign
<1> HIDE DEF c
<1>5. QED BY <1>3, <1>4, CallsInv

\* What is read of a text is of its values.
LEMMA ReadFacts ==
    ASSUME NEW b \in Seq(Line)
    PROVE  ReadAll(b) \in [Keywords \ {"signature"} -> SUBSET Values]
<1>1. \A n \in DOMAIN b : b[n].value \in Values
  BY LineFacts, ValueFacts DEF Line
<1>2. \A w : LinesOf(b, w) \subseteq DOMAIN b
  BY DEF LinesOf
<1>3. QED BY <1>1, <1>2 DEF ReadAll

\* The publisher's signature stands behind what it is about.
LEMMA CredentialInv ==
    ASSUME IInv, NEW p \in Pair, kn_GenCredential(p)
    PROVE  IInv'
<1> DEFINE sig == [pair |-> p, name |-> "rsa", by |-> "publisher",
                   content |-> text, read |-> ReadAll(text)]
           line == [word |-> "signature", value |-> Len(signed')]
<1>1. /\ pc = "idle" /\ Len(signed) < MaxSigned
      /\ signed' = Append(signed, sig) /\ text' = Append(text, line)
      /\ pc' = "idle" /\ result' = result /\ edits' = edits
      /\ UNCHANGED <<call, i, as>>
  BY DEF kn_GenCredential
<1>2. /\ Len(signed) \in Nat /\ DOMAIN signed = 1 .. Len(signed) /\ MaxSigned \in Nat
      /\ edits \in 0 .. MaxEdits /\ text \in Seq(Line)
  BY CountFacts
<1>3. signed \in Seq(Signature) /\ text \in Seq(LineWith(Len(signed)))
  BY DEF IInv, TypeOK, Typed
<1>4. sig \in Signature
  BY <1>2, ReadFacts DEF Signature, Names
<1>5. /\ signed' \in Seq(Signature) /\ Len(signed') = Len(signed) + 1
      /\ signed'[Len(signed) + 1] = sig
      /\ \A n \in 1 .. Len(signed) : signed'[n] = signed[n]
      /\ DOMAIN signed' = 1 .. Len(signed) + 1
  <2> HIDE DEF sig
  <2>1. signed' \in Seq(Signature) /\ Len(signed') = Len(signed) + 1
    BY <1>1, <1>3, <1>4, AppendProperties
  <2>2. \A n \in 1 .. Len(signed) : signed'[n] = signed[n]
    BY <1>1, <1>3, <1>4, AppendProperties
  <2>3. signed'[Len(signed) + 1] = sig
    BY <1>1, <1>3, <1>4, AppendProperties
  <2>4. QED BY <2>1, <2>2, <2>3, LenProperties
<1>6. Len(signed') <= MaxSigned
  BY <1>1, <1>2, <1>5
<1>7. \A n \in DOMAIN signed' : signed'[n].read = ReadAll(signed'[n].content)
  <2>1. \A n \in DOMAIN signed : signed[n].read = ReadAll(signed[n].content)
    BY DEF IInv, Typed
  <2>2. sig.read = ReadAll(sig.content)
    OBVIOUS
  <2> HIDE DEF sig
  <2>3. \A n \in 1 .. Len(signed) + 1 : n \in 1 .. Len(signed) \/ n = Len(signed) + 1
    BY <1>2
  <2>4. QED BY <1>2, <1>5, <2>1, <2>2, <2>3
<1>8. line \in LineWith(Len(signed'))
  <2>1. Len(signed') \in 1 .. Len(signed') /\ Len(signed') \in 1 .. MaxSigned
    BY <1>2, <1>5, <1>6
  <2>2. line.value \in Values
    BY <2>1 DEF Values
  <2>3. line.value \in ValuesOf("signature", Len(signed'))
    BY <2>1 DEF ValuesOf
  <2>4. QED BY <2>2, <2>3 DEF LineWith, Keywords
<1>9. text \in Seq(LineWith(Len(signed')))
  BY <1>2, <1>3, <1>5, MoreTexts
<1>10. /\ text' \in Seq(LineWith(Len(signed'))) /\ Len(text') = Len(text) + 1
       /\ Len(text) \in Nat /\ DOMAIN text' = 1 .. Len(text) + 1
       /\ text'[Len(text) + 1] = line
       /\ SubSeq(text', 1, Len(text)) = text
  <2>0. Len(text) \in Nat
    BY <1>9, LenProperties
  <2> HIDE DEF line
  <2>1. /\ text' \in Seq(LineWith(Len(signed'))) /\ Len(text') = Len(text) + 1
        /\ text'[Len(text) + 1] = line
        /\ \A n \in 1 .. Len(text) : text'[n] = text[n]
    BY <1>1, <1>8, <1>9, AppendProperties
  <2>2. DOMAIN text' = 1 .. Len(text) + 1
    BY <2>1, LenProperties
  <2>3. SubSeq(text', 1, Len(text)) = [n \in 1 .. Len(text) |-> text'[n]]
    <3>1. SubSeq(text', 1, Len(text)) = [n \in 1 .. Len(text) - 1 + 1 |-> text'[1 + n - 1]]
      OBVIOUS
    <3>2. Len(text) - 1 + 1 = Len(text) /\ \A n \in 1 .. Len(text) : 1 + n - 1 = n
      BY <2>0
    <3>3. QED BY <3>1, <3>2
  <2>4. text = [n \in 1 .. Len(text) |-> text[n]]
    BY <1>9, LenProperties
  <2>5. QED BY <2>0, <2>1, <2>2, <2>3, <2>4
<1>11. ASSUME Len(signed') = 1 PROVE \E g \in DOMAIN text' : StandsAt(g)'
  <2>1. PICK g : g = Len(text) + 1
    OBVIOUS
  <2>2. g \in DOMAIN text' /\ g = Len(text') /\ g - 1 = Len(text)
    BY <1>10, <2>1
  <2>3. text'[g] = [word |-> "signature", value |-> 1]
    BY <1>10, <1>11, <2>1
  <2>4. signed'[1].by = "publisher" /\ signed'[1].content = text
    <3>1. Len(signed) + 1 = 1
      BY <1>5, <1>11
    <3>2. sig.by = "publisher" /\ sig.content = text
      OBVIOUS
    <3> HIDE DEF sig
    <3>3. signed'[1] = sig
      BY <1>5, <3>1
    <3>4. QED BY <3>2, <3>3
  <2>5. StandsAt(g)'
    BY <1>10, <2>2, <2>3, <2>4 DEF StandsAt
  <2>6. QED BY <2>2, <2>5
<1>12. QED BY <1>1, <1>2, <1>5, <1>6, <1>7, <1>10, <1>11, IdleInv

\* A call is under way.
Busy == pc \in {"parse", "fix", "sign"}

\* A step that leaves the file and the signatures alone, and keeps what is said
\* of the parser and of the call, keeps the invariant.
LEMMA BusyInv ==
    ASSUME IInv, Busy, UNCHANGED <<text, signed, edits, call>>,
           pc' \in {"parse", "fix", "sign", "returned"},
           result' \in {"none", "refused", "error", "crash", "added", "false", "true"},
           i' \in 0 .. Len(buf) + 1, as' \in Assertion,
           as'.start \in 0 .. Len(buf),
           \A w \in Keywords : as'.at[w] \in 0 .. Len(buf),
           pc' \in {"fix", "sign"} => as'.at["authorizer"] # 0,
           Parsing', Calling'
    PROVE  IInv'
<1>1. TypeOK /\ Typed /\ Signing /\ Calling
  BY DEF IInv
<1>2. buf' = buf
  BY DEF buf
<1>3. as'.env \in Values \union {None} /\ as'.auth \in Principal \union {None}
  BY DEF Assertion
<1>4. TypeOK'
  BY <1>1, <1>2, <1>3 DEF TypeOK
<1>5. Typed'
  BY <1>1, <1>2 DEF Typed
<1>6. Signing'
  <2>1. result # "signed" /\ result' # "signed"
    BY <1>1 DEF Busy, Calling
  <2>2. edits = 0 /\ Len(signed) = 1 => \E g \in DOMAIN text : StandsAt(g)
    BY <1>1, <2>1 DEF Signing
  <2>3. \A g : StandsAt(g)' <=> StandsAt(g)
    BY DEF StandsAt
  <2>4. QED BY <2>1, <2>2, <2>3 DEF Signing
<1>7. QED BY <1>4, <1>5, <1>6 DEF IInv

\* What there is to say of the assertion when it does not change.
LEMMA SameAssertion ==
    ASSUME IInv
    PROVE  /\ i \in 0 .. Len(buf) + 1 /\ as \in Assertion /\ as.start \in 0 .. Len(buf)
           /\ \A w \in Keywords : as.at[w] \in 0 .. Len(buf)
           /\ pc \in {"fix", "sign"} => as.at["authorizer"] # 0 /\ Taken
           /\ pc \in {"parse", "fix"} => as.auth = None
BY DEF IInv, TypeOK, Typed, Parsing, Calling

\* The call fails.
Fails == /\ pc' = "returned" /\ result' \in {"refused", "error", "crash"}
         /\ UNCHANGED <<text, signed, edits, call, i, as>>

\* A call that fails leaves the assertion as it is.
LEMMA FailsInv ==
    ASSUME IInv, Fails,
           \/ /\ pc = "parse" /\ ~ WellFormed(buf)
              /\ i <= Len(buf) \/ as.at["authorizer"] = 0
           \/ pc = "fix"
           \/ pc = "sign" /\ call.op = "sign"
    PROVE  IInv'
<1>1. /\ pc' = "returned" /\ result' \in {"refused", "error", "crash"}
      /\ text' = text /\ signed' = signed /\ edits' = edits /\ call' = call
      /\ i' = i /\ as' = as
  BY DEF Fails
<1>2. buf' = buf
  BY <1>1 DEF buf
<1>3. Parsing'
  <2>1. Taken' <=> Taken
    BY <1>1, <1>2 DEF Taken
  <2>2. CASE pc = "parse"
    BY <1>1, <1>2, <2>2 DEF Parsing
  <2>3. CASE pc # "parse"
    BY <1>1, <2>1, <2>3, SameAssertion DEF Parsing
  <2>4. QED BY <2>2, <2>3
<1>4. Calling'
  <2>1. Calling
    BY DEF IInv
  <2>2. as.auth # None => pc = "sign" /\ call.op = "sign" /\ Taken
    BY <2>1, SameAssertion DEF Calling
  <2>3. Taken' <=> Taken
    BY <1>1, <1>2 DEF Taken
  <2>4. call.op \in {"add", "sign"} => buf' = text'
    BY <1>1, <1>2, <2>1 DEF Calling
  <2>5. QED BY <1>1, <2>2, <2>3, <2>4 DEF Calling
<1>5. Busy
  BY DEF Busy
<1>6. QED BY <1>1, <1>3, <1>4, <1>5, SameAssertion, BusyInv

\* A refusal is a failure.
LEMMA RefuseFails == Refuse => Fails
BY DEF Refuse, Fails

\* The parser refuses what is not well-formed.
LEMMA RefusedInv ==
    ASSUME IInv, ParseNothing \/ ParseRefused \/ ParseIncomplete
    PROVE  IInv'
<1>1. pc = "parse" /\ Refuse
  BY DEF ParseNothing, ParseRefused, ParseIncomplete
<1>2. TypeOK /\ Typed /\ Parsing
  BY DEF IInv
<1>3. Len(buf) \in Nat /\ DOMAIN buf = 1 .. Len(buf) /\ buf \in Seq(Line)
  BY <1>2, BufFacts
<1>4. CASE ParseNothing
  <2>1. i = 0
    BY <1>4 DEF ParseNothing
  <2>1a. 0 \notin DOMAIN buf /\ 0 # Len(buf) + 1
    BY <1>3
  <2>2. \A n \in DOMAIN buf : buf[n].word \in Spaces
    BY <1>1, <1>2, <2>1, <2>1a DEF Parsing
  <2>3. ~ WellFormed(buf) /\ i <= Len(buf)
    BY <1>3, <2>1, <2>2, NothingIsRefused
  <2>4. QED BY <1>1, <2>3, RefuseFails, FailsInv
<1>5. CASE ParseRefused
  <2>1. ~ WellFormed(buf)
    BY <1>2, <1>5, RefusedLine
  <2>2. i <= Len(buf)
    BY <1>3, <1>5 DEF ParseRefused
  <2>3. QED BY <1>1, <2>1, <2>2, RefuseFails, FailsInv
<1>6. CASE ParseIncomplete
  <2>1. i > Len(buf) /\ as.at["authorizer"] = 0
    BY <1>6 DEF ParseIncomplete
  <2>1a. i # 0 /\ i \notin DOMAIN buf
    BY <1>3, <2>1
  <2>2. AllScanned(buf, as)
    BY <1>1, <1>2, <2>1a DEF Parsing
  <2>3. ~ WellFormed(buf)
    BY <1>2, <1>3, <2>1, <2>2, IncompleteIsRefused DEF Typed
  <2>4. QED BY <1>1, <2>1, <2>3, RefuseFails, FailsInv
<1>7. QED BY <1>4, <1>5, <1>6

\* keynote_fix_fields fails, or the signing.
LEMMA FixRefusedInv ==
    ASSUME IInv, FixFails \/ FixCrashes \/ SignFails
    PROVE  IInv'
<1>1. pc = "fix" \/ (pc = "sign" /\ call.op = "sign")
  BY DEF FixFails, FixCrashes, SignFails
<1>2. Fails
  BY RefuseFails DEF FixFails, FixCrashes, SignFails, Fails
<1>3. QED BY <1>1, <1>2, FailsInv

\* The parser goes on to the next field, ...
LEMMA LoopInv ==
    ASSUME IInv, ParseComment \/ ParseField
    PROVE  IInv'
<1>1. /\ pc = "parse" /\ i \in DOMAIN buf /\ pc' = pc /\ result' = result
      /\ text' = text /\ signed' = signed /\ edits' = edits /\ call' = call
  BY DEF ParseComment, ParseField
<1>2. buf' = buf
  BY <1>1 DEF buf
<1>3. TypeOK /\ Typed /\ Parsing /\ Calling
  BY DEF IInv
<1>4. Len(buf) \in Nat /\ DOMAIN buf = 1 .. Len(buf) /\ buf \in Seq(Line)
      /\ \A n \in DOMAIN buf : buf[n] \in Line
  BY <1>3, BufFacts
<1>5. GoesOn
  BY <1>3, CommentParsed, FieldParsed
<1>6. as \in Assertion /\ Started \in 1 .. i /\ i \in Nat /\ i <= Len(buf)
  BY <1>1, <1>3, AtLine
<1>7. Started \in 0 .. Len(buf) /\ i \in 0 .. Len(buf)
  BY <1>4, <1>6
<1>8. i' \in 0 .. Len(buf) + 1
  <2>1. i' \in DOMAIN buf \/ i' = Len(buf) + 1
    BY <1>5 DEF GoesOn
  <2>2. QED BY <1>4, <2>1
<1>9. \A w \in Keywords : as.at[w] \in 0 .. Len(buf)
  BY <1>3 DEF TypeOK
<1>10. /\ as' \in Assertion /\ as'.start = Started /\ as'.auth = as.auth
       /\ \A w \in Keywords : as'.at[w] \in 0 .. Len(buf)
  <2>1. CASE ParseComment
    <3>1. as' = [as EXCEPT !.start = Started, !.seen = TRUE]
      BY <2>1 DEF ParseComment
    <3>2. Started \in Nat
      BY <1>4, <1>7
    <3>3. as' \in Assertion /\ as'.start = Started /\ as'.at = as.at /\ as'.auth = as.auth
      BY <1>6, <3>1, <3>2 DEF Assertion
    <3>4. QED BY <1>9, <3>3
  <2>2. CASE ParseField
    <3>1. Keyword \in Keywords
      BY <2>2 DEF ParseField, IsField
    <3>2. /\ as'.start = Started /\ as'.auth = as.auth
          /\ as'.at = [as.at EXCEPT ![Keyword] = i]
          /\ as'.env = IF Keyword = "local-constants" /\ buf[i].value # Empty
                       THEN buf[i].value ELSE as.env
          /\ as' = [start |-> Started, seen |-> TRUE, env |-> as'.env,
                    auth |-> as.auth, at |-> [as.at EXCEPT ![Keyword] = i]]
      BY <1>6, <2>2, <3>1, FieldNoted DEF ParseField
    <3>3. Started \in Nat
      BY <1>4, <1>7
    <3>4. as'.env \in Values \union {None}
      <4>1. buf[i].value \in Values
        BY <1>1, <1>4, ValueFacts DEF Line
      <4>2. as.env \in Values \union {None}
        BY <1>6 DEF Assertion
      <4>3. QED BY <3>2, <4>1, <4>2
    <3>5. as.auth \in Principal \union {None} /\ as.at \in [Keywords -> Nat]
      BY <1>6 DEF Assertion
    <3>6. [as.at EXCEPT ![Keyword] = i] \in [Keywords -> Nat]
      BY <1>6, <3>1, <3>5
    <3> DEFINE env == as'.env
               at == [as.at EXCEPT ![Keyword] = i]
    <3>7. as' = [start |-> Started, seen |-> TRUE, env |-> env,
                 auth |-> as.auth, at |-> at]
          /\ env \in Values \union {None} /\ at \in [Keywords -> Nat]
      BY <3>2, <3>4, <3>6
    <3> HIDE DEF env, at
    <3>8. as' \in Assertion
      BY <3>3, <3>5, <3>7 DEF Assertion
    <3>9. \A w \in Keywords : as'.at[w] \in 0 .. Len(buf)
      BY <1>7, <1>9, <3>2, <3>5
    <3>10. QED BY <3>2, <3>8, <3>9
  <2>3. QED BY <2>1, <2>2
<1>11. Parsing'
  BY <1>1, <1>2, <1>5 DEF GoesOn, Parsing
<1>12. Calling'
  <2>1. as'.auth = None /\ result' = "none"
    BY <1>1, <1>3, <1>10 DEF Calling
  <2>2. call'.op # "none" /\ (call'.op = "sign" => Len(signed') < MaxSigned)
    BY <1>1, <1>3 DEF Calling
  <2>3. call'.op \in {"add", "sign"} => buf' = text'
    BY <1>1, <1>2, <1>3 DEF Calling
  <2>4. QED BY <1>1, <2>1, <2>2, <2>3 DEF Calling
<1>13. Busy
  BY <1>1 DEF Busy
<1>14. result' = "none"
  BY <1>1, <1>3 DEF Calling
<1>15. QED BY <1>1, <1>7, <1>8, <1>10, <1>11, <1>12, <1>13, <1>14, BusyInv

\* ... or has taken the text.
LEMMA EndsInv ==
    ASSUME IInv, ParseEnds
    PROVE  IInv'
<1>1. /\ pc = "parse" /\ i > Len(buf) /\ as.at["authorizer"] # 0
      /\ pc' = IF call.op = "add" THEN "returned" ELSE "fix"
      /\ result' = IF call.op = "add" THEN "added" ELSE result
      /\ text' = text /\ signed' = signed /\ edits' = edits /\ call' = call
      /\ i' = i /\ as' = as
  BY DEF ParseEnds
<1>2. buf' = buf
  BY <1>1 DEF buf
<1>3. TypeOK /\ Parsing /\ Calling
  BY DEF IInv
<1>4. Len(buf) \in Nat /\ DOMAIN buf = 1 .. Len(buf)
  BY <1>3, BufFacts
<1>5. i # 0 /\ i \notin DOMAIN buf
  BY <1>1, <1>4
<1>6. Taken
  BY <1>1, <1>3, <1>5 DEF Parsing, Taken
<1>7. Taken'
  BY <1>1, <1>2, <1>6 DEF Taken
<1>8. Parsing'
  BY <1>1, <1>7 DEF Parsing
<1>9. Calling'
  <2>1. as.auth = None /\ result = "none" /\ call.op # "none"
        /\ (call.op = "sign" => Len(signed) < MaxSigned)
    BY <1>1, <1>3 DEF Calling
  <2>2. call'.op \in {"add", "sign"} => buf' = text'
    BY <1>1, <1>2, <1>3 DEF Calling
  <2>3. QED BY <1>1, <2>1, <2>2 DEF Calling
<1>10. Busy /\ result = "none"
  BY <1>1, <1>3 DEF Busy, Calling
<1>11. QED BY <1>1, <1>8, <1>9, <1>10, SameAssertion, BusyInv

\* Where the parser noted the local constant, one stands.
LEMMA ConstantFacts ==
    ASSUME NEW b \in Seq(Line), NEW a \in Assertion, AllScanned(b, a), a.env # None
    PROVE  a.env \in Principal
<1> DEFINE n == a.at["local-constants"]
<1>1. PICK e \in a.start .. Len(b) : ScannedTo(b, a, e)
  BY DEF AllScanned
<1>2. InPlace(b, a.start, e) /\ Noted(b, a, a.start, e, "local-constants") /\ EnvNoted(b, a)
  BY <1>1 DEF ScannedTo, Scanned, Keywords
<1>3. n # 0 /\ b[n].value # Empty /\ a.env = b[n].value
  BY <1>2 DEF EnvNoted
<1>4. n \in With(b, a.start, e, "local-constants")
  BY <1>2, <1>3 DEF Noted
<1>5. b[n].value # Bad
  BY <1>2, <1>4 DEF InPlace
<1> HIDE DEF n
<1>6. n \in a.start .. e /\ KeywordOf(b[n].word) = "local-constants"
  BY <1>4 DEF With, Fields
<1>7. b[n].word = "local-constants"
  BY <1>6, KeywordFacts DEF Keywords
<1>8. n \in DOMAIN b
  <2>1. Len(b) \in Nat /\ DOMAIN b = 1 .. Len(b)
    BY LineFacts DEF Line
  <2>2. a.start \in 1 .. Len(b)
    BY <2>1 DEF AllScanned
  <2>3. QED BY <1>6, <2>1, <2>2
<1>9. b[n].value \in Principal \union {Empty, Bad}
  BY <1>7, <1>8, LineFacts, ValueFacts DEF Line
<1>10. QED BY <1>3, <1>5, <1>9

\* The Authorizer is looked up.
LEMMA FixInv ==
    ASSUME IInv, FixFields
    PROVE  IInv'
<1>1. /\ pc = "fix" /\ pc' = "sign" /\ result' = result
      /\ text' = text /\ signed' = signed /\ edits' = edits /\ call' = call
      /\ i' = i
      /\ call.op = "verify" /\ as.at["signature"] # 0 => SignatureField # Bad
  BY DEF FixFields
<1>2. buf' = buf
  BY <1>1 DEF buf
<1>3. TypeOK /\ Typed /\ Parsing /\ Calling /\ Taken /\ as \in Assertion
  BY <1>1, SameAssertion DEF IInv
<1>4. buf \in Seq(Line) /\ AllScanned(buf, as)
  BY <1>3, BufFacts DEF Taken
<1>5. PICK a \in Principal : as' = [as EXCEPT !.auth = a]
  <2>1. CASE AuthorizerField \in Principal
    <3>1. AuthorizerField # Const
      BY <2>1, AssertionAssumption
    <3>2. QED BY <2>1, <3>1 DEF FixFields
  <2>2. CASE AuthorizerField = Const /\ as.env # None
    <3>1. as.env \in Principal
      BY <1>3, <1>4, <2>2, ConstantFacts
    <3>2. QED BY <2>2, <3>1 DEF FixFields
  <2>3. QED BY <2>1, <2>2 DEF FixFields
<1>6. /\ as' \in Assertion /\ as'.start = as.start /\ as'.seen = as.seen
      /\ as'.env = as.env /\ as'.at = as.at /\ as'.auth = a
  BY <1>3, <1>5 DEF Assertion
<1>7. Taken'
  <2>1. \A e : Scanned(buf, as', as.start, e) <=> Scanned(buf, as, as.start, e)
    BY <1>6 DEF Scanned, Noted, EnvNoted
  <2>2. AllScanned(buf, as')
    BY <1>4, <1>6, <2>1 DEF AllScanned, ScannedTo
  <2>3. QED BY <1>1, <1>2, <1>3, <1>6, <2>2 DEF Taken
<1>8. Parsing'
  BY <1>1, <1>7 DEF Parsing
<1>9. Calling'
  <2>1. as'.auth # None
    BY <1>6, AssertionAssumption
  <2>2. SignatureField' = SignatureField
    BY <1>2, <1>6 DEF SignatureField
  <2>3. call.op = "verify" /\ as'.at["signature"] # 0 => SignatureField' # Bad
    BY <1>1, <1>6, <2>2
  <2>4. result = "none" /\ call.op \notin {"none", "add"}
        /\ (call.op = "sign" => Len(signed) < MaxSigned)
    BY <1>1, <1>3 DEF Calling
  <2>5. call'.op \in {"add", "sign"} => buf' = text'
    BY <1>1, <1>2, <1>3 DEF Calling
  <2>6. QED BY <1>1, <1>7, <2>1, <2>3, <2>4, <2>5 DEF Calling
<1>10. Busy /\ result = "none"
  BY <1>1, <1>3 DEF Busy, Calling
<1>11. /\ as'.start \in 0 .. Len(buf) /\ i' \in 0 .. Len(buf) + 1
       /\ \A w \in Keywords : as'.at[w] \in 0 .. Len(buf)
       /\ as'.at["authorizer"] # 0
  BY <1>1, <1>6, SameAssertion
<1>12. QED BY <1>1, <1>6, <1>8, <1>9, <1>10, <1>11, BusyInv

\* The verdict is given.
LEMMA VerdictInv ==
    ASSUME IInv, VerifyReturns
    PROVE  IInv'
<1>1. /\ pc = "sign" /\ call.op = "verify" /\ pc' = "returned"
      /\ result' = Verdict
      /\ text' = text /\ signed' = signed /\ edits' = edits /\ call' = call
      /\ i' = i /\ as' = as
  BY DEF VerifyReturns, Verdict
<1>2. buf' = buf
  BY <1>1 DEF buf
<1>3. Verdict' = Verdict
  <2>1. SignatureField' = SignatureField /\ Content' = Content
    BY <1>1, <1>2 DEF SignatureField, Content
  <2>2. HasSignature' = HasSignature
    BY <1>1, <2>1 DEF HasSignature
  <2>3. \A x : SigName(x)' = SigName(x)
    BY <1>1 DEF SigName
  <2>4. \A x : SigMatches(x)' = SigMatches(x)
    BY <1>1, <2>2, <2>3 DEF SigMatches
  <2>5. \A x : sigverify(x)' = sigverify(x)
    BY <1>1, <2>1, <2>4 DEF sigverify
  <2>6. PICK x : x = SignatureField
    OBVIOUS
  <2>7. Verdict = IF as.at["signature"] = 0 THEN "false" ELSE sigverify(x)
    BY <2>6 DEF Verdict
  <2>8. Verdict' = IF as.at["signature"] = 0 THEN "false" ELSE sigverify(x)'
    BY <1>1, <2>1, <2>6 DEF Verdict
  <2>9. QED BY <2>5, <2>7, <2>8
<1>4. result' \in {"false", "error", "true"}
  BY <1>1 DEF Verdict, sigverify
<1>5. Taken /\ Taken'
  <2>1. Taken
    BY <1>1, SameAssertion
  <2>2. QED BY <1>1, <1>2, <2>1 DEF Taken
<1>6. Parsing'
  BY <1>1, <1>5 DEF Parsing
<1>7. Calling'
  <2>1. Calling
    BY DEF IInv
  <2>2. SignatureField' = SignatureField
    BY <1>1, <1>2 DEF SignatureField
  <2>3. as.auth # None /\ (as.at["signature"] # 0 => SignatureField # Bad)
    BY <1>1, <2>1 DEF Calling
  <2>4. result' = Verdict'
    BY <1>1, <1>3
  <2> HIDE DEF Verdict
  <2>5. QED BY <1>1, <1>5, <2>2, <2>3, <2>4 DEF Calling
<1>8. Busy
  BY <1>1 DEF Busy
<1>9. QED BY <1>1, <1>4, <1>6, <1>7, <1>8, SameAssertion, BusyInv

\* The signature is made.
LEMMA SignedInv ==
    ASSUME IInv, SignReturns
    PROVE  IInv'
<1> DEFINE sig == [pair |-> call.file.pair, name |-> call.name, by |-> "keynote",
                   content |-> Content, read |-> Read]
<1>1. /\ pc = "sign" /\ call.op = "sign" /\ HasSignature
      /\ signed' = Append(signed, sig) /\ pc' = "returned" /\ result' = "signed"
      /\ text' = text /\ edits' = edits /\ call' = call /\ i' = i /\ as' = as
  BY DEF SignReturns, MaySign
<1>2. buf' = buf
  BY <1>1 DEF buf
<1>3. TypeOK /\ Typed /\ Parsing /\ Calling /\ Taken /\ as \in Assertion
  BY <1>1, SameAssertion DEF IInv
<1>4. /\ Len(signed) \in Nat /\ DOMAIN signed = 1 .. Len(signed) /\ MaxSigned \in Nat
      /\ edits \in 0 .. MaxEdits
  BY CountFacts
<1>5. Len(signed) < MaxSigned
  BY <1>1, <1>3 DEF Calling
<1>6. Content \in Seq(Line) /\ Read = ReadAll(Content)
  BY <1>1, <1>3, ContentFacts, ReadIsOfContent DEF Taken, HasSignature
<1>7. sig \in Signature
  <2>1. call \in CallType
    BY <1>3 DEF TypeOK
  <2>2. call.file \in KeyFile /\ call.name \in Names
    BY <1>1, <2>1 DEF CallType
  <2>3. call.file.pair \in Pair
    BY <2>2 DEF KeyFile
  <2>3a. call.name # "other"
    <3>1. alg[as.auth] # "NONE" /\ Matches(SigAlg(call.name), alg[as.auth])
      BY DEF SignReturns, MaySign
    <3>2. Matches("NONE", alg[as.auth]) => alg[as.auth] = "NONE"
      BY DEF Matches
    <3>3. SigAlg(call.name) # "NONE"
      BY <3>1, <3>2
    <3>4. QED BY <3>3 DEF SigAlg
  <2>4. Read \in [Keywords \ {"signature"} -> SUBSET Values]
    BY <1>6, ReadFacts
  <2>5. QED BY <1>6, <2>2, <2>3, <2>3a, <2>4 DEF Signature
<1>8. sig.by = "keynote" /\ sig.content = Content /\ sig.read = ReadAll(sig.content)
  BY <1>6
<1> HIDE DEF sig
<1>9. signed \in Seq(Signature)
  BY <1>3 DEF Typed
<1>10. /\ signed' \in Seq(Signature) /\ Len(signed') = Len(signed) + 1
       /\ \A n \in 1 .. Len(signed) : signed'[n] = signed[n]
       /\ signed'[Len(signed) + 1] = sig
  BY <1>1, <1>7, <1>9, AppendProperties
<1>11. DOMAIN signed' = 1 .. Len(signed) + 1
  BY <1>10, LenProperties
<1>12. \A n \in DOMAIN signed' : signed'[n].read = ReadAll(signed'[n].content)
  <2>1. \A n \in 1 .. Len(signed) + 1 : n \in 1 .. Len(signed) \/ n = Len(signed) + 1
    BY <1>4
  <2>2. \A n \in DOMAIN signed : signed[n].read = ReadAll(signed[n].content)
    BY <1>3 DEF Typed
  <2>3. QED BY <1>4, <1>8, <1>10, <1>11, <2>1, <2>2
<1>13. Len(signed') \in Nat /\ Len(signed) <= Len(signed') /\ Len(signed') <= MaxSigned
  BY <1>4, <1>5, <1>10
<1>14. /\ text \in Seq(LineWith(Len(signed'))) /\ buf \in Seq(LineWith(Len(signed')))
  <2>1. text \in Seq(LineWith(Len(signed))) /\ buf \in Seq(LineWith(Len(signed)))
    BY <1>3 DEF TypeOK, Typed
  <2>2. QED BY <1>4, <1>13, <2>1, MoreTexts
<1>15. TypeOK'
  BY <1>1, <1>2, <1>3, <1>13, <1>14 DEF TypeOK
<1>16. Typed'
  BY <1>1, <1>2, <1>3, <1>10, <1>12, <1>14 DEF Typed
<1>17. Taken'
  BY <1>1, <1>2, <1>3 DEF Taken
<1>18. Parsing'
  BY <1>1, <1>17 DEF Parsing
<1>19. Calling'
  <2>1. buf = text
    BY <1>1, <1>3 DEF Calling
  <2>2. QED BY <1>1, <1>2, <1>17, <2>1 DEF Calling
<1>20. Signing'
  <2>1. Content' = Content /\ HasSignature'
    <3>1. Content' = Content
      BY <1>1, <1>2 DEF Content
    <3>2. QED BY <1>1, <3>1 DEF HasSignature
  <2>2. signed' # <<>> /\ signed'[Len(signed')].by = "keynote"
        /\ signed'[Len(signed')].content = Content'
    <3>1. signed' # <<>>
      BY <1>4, <1>10
    <3>2. QED BY <1>8, <1>10, <2>1, <3>1
  <2>3. JustSigned'
    BY <1>1, <1>17, <2>1, <2>2 DEF JustSigned
  <2>4. QED BY <1>1, <2>3 DEF Signing
<1>21. QED BY <1>15, <1>16, <1>18, <1>19, <1>20 DEF IInv

\* And is put into the file, behind what was signed.
LEMMA PutInFile ==
    ASSUME IInv, pc = "returned", result = "signed", Return
    PROVE  /\ text' \in Seq(LineWith(Len(signed)))
           /\ Len(signed) = 1 => \E g \in DOMAIN text' : StandsAt(g)'
<1> DEFINE g == as.at["signature"]
           s == as.start
<1>1. /\ text' = [text EXCEPT ![g].value = Len(signed)] /\ signed' = signed
  BY DEF Return
<1>2. TypeOK /\ Typed /\ Calling /\ JustSigned
  BY DEF IInv, Signing
<1>3. /\ call.op = "sign" /\ AllScanned(buf, as) /\ g # 0 /\ Content # <<>>
      /\ signed # <<>> /\ signed[Len(signed)].by = "keynote"
      /\ signed[Len(signed)].content = Content
  BY <1>2 DEF JustSigned, Taken, HasSignature
<1>4. buf = text
  BY <1>2, <1>3 DEF Calling
<1>5. /\ s \in Nat \ {0} /\ g \in Nat /\ s <= g
      /\ g \in DOMAIN buf /\ buf[g].word = "signature"
      /\ Content \in Seq(Line) /\ DOMAIN Content = 1 .. g - s
      /\ \A n \in 1 .. g - s : Content[n] = buf[s + n - 1]
  BY <1>2, <1>3, ContentFacts
<1>6. s # g
  <2> SUFFICES ASSUME s = g PROVE FALSE
    OBVIOUS
  <2> HIDE DEF s, g
  <2>1. DOMAIN Content = {}
    BY <1>5
  <2>2. Content = <<>>
    BY <1>5, <2>1, EmptySeq
  <2>3. QED BY <1>3, <2>2
<1>7. PICK e \in s .. Len(buf) : ScannedTo(buf, as, e)
  BY <1>3 DEF AllScanned
<1>8. /\ \A n \in 1 .. s - 1 : text[n].word \in Spaces
      /\ \A n \in s .. e : text[n].word # "blank"
      /\ text[s].word \notin Spaces
  BY <1>3, <1>4, <1>7 DEF ScannedTo, Scanned, InPlace, AllScanned
<1>9. g \in s .. e
  <2>1. g \in With(buf, s, e, "signature")
    BY <1>3, <1>7 DEF ScannedTo, Scanned, Noted, Keywords
  <2>2. QED BY <2>1 DEF With, Fields
<1> DEFINE L == LineWith(Len(signed))
<1>10. text \in Seq(L) /\ Len(text) \in Nat /\ DOMAIN text = 1 .. Len(text)
       /\ \A n \in DOMAIN text : text[n] \in L
  <2>1. text \in Seq(L)
    BY <1>2 DEF TypeOK
  <2> HIDE DEF L
  <2>2. QED BY <2>1, LineFacts DEF L
<1>11. Len(signed) \in Nat \ {0} /\ Len(signed) <= MaxSigned /\ MaxSigned \in Nat
  BY <1>3, CountFacts, EmptySeq DEF IInv, Typed
<1> DEFINE line == [word |-> "signature", value |-> Len(signed)]
<1>12. line \in L
  <2>1. Len(signed) \in 1 .. Len(signed) /\ Len(signed) \in 1 .. MaxSigned
    BY <1>11
  <2>2. line.value \in Values
    BY <2>1 DEF Values
  <2>3. line.value \in ValuesOf("signature", Len(signed))
    BY <2>1 DEF ValuesOf
  <2>4. QED BY <2>2, <2>3 DEF LineWith, Keywords
<1>13. text' = [text EXCEPT ![g] = line]
  <2>1. text[g] \in L
    BY <1>4, <1>5, <1>10
  <2>1a. text[g].word = "signature" /\ g \in DOMAIN text
    BY <1>4, <1>5
  <2>2. PICK v : text[g] = [word |-> "signature", value |-> v]
    BY <2>1, <2>1a DEF LineWith
  <2>3. [text[g] EXCEPT !.value = Len(signed)] = line
    BY <2>2 DEF line
  <2>4. QED BY <1>1, <2>3
<1> HIDE DEF L, line, s, g
<1>14. /\ text' \in Seq(L) /\ DOMAIN text' = DOMAIN text /\ text'[g] = line
       /\ \A n \in DOMAIN text : n # g => text'[n] = text[n]
  <2>1. text' \in Seq(L)
    BY <1>4, <1>5, <1>10, <1>12, <1>13, ExceptSeq
  <2>2. QED BY <1>4, <1>5, <1>10, <1>13, <2>1
<1>15. ASSUME Len(signed) = 1 PROVE \E h \in DOMAIN text' : StandsAt(h)'
  <2>1. PICK h : h = g
    OBVIOUS
  <2>2. PICK t : t = s
    OBVIOUS
  <2>3. t \in 1 .. h - 1 /\ h \in 1 .. Len(text) /\ t \in Nat \ {0} /\ h \in Nat
    BY <1>4, <1>5, <1>6, <1>10, <2>1, <2>2
  <2>4. text'[h] = [word |-> "signature", value |-> 1]
    BY <1>14, <1>15, <2>1 DEF line
  <2>5. signed'[1].by = "keynote" /\ signed'[1].content = Content
    BY <1>1, <1>3, <1>15
  <2>6. \A n \in 1 .. h - 1 : text'[n] = text[n]
    <3>1. \A n \in 1 .. h - 1 : n \in 1 .. Len(text) /\ n # h
      BY <2>3
    <3>2. QED BY <1>10, <1>14, <2>1, <3>1
  <2>7. \A n \in 1 .. t - 1 : text'[n].word \in Spaces
    <3>1. \A n \in 1 .. t - 1 : n \in 1 .. h - 1
      BY <2>3
    <3>2. QED BY <1>8, <2>2, <2>6, <3>1
  <2>8. text'[t].word \notin Spaces
    BY <1>8, <2>2, <2>3, <2>6
  <2>9. \A n \in t .. h : text'[n].word # "blank"
    <3>1. \A n \in t .. h : n = h \/ n \in 1 .. h - 1
      BY <2>3
    <3>2. \A n \in t .. h : n \in s .. e
      BY <1>9, <2>1, <2>2, <2>3
    <3>3. QED BY <1>8, <2>4, <2>6, <3>1, <3>2
  <2>10. Content = SubSeq(text', t, h - 1)
    <3>1. text' \in Seq(Line) /\ Len(text') \in Nat /\ Len(text') = Len(text)
      <4>1. text' \in Seq(Line)
        BY <1>11, <1>14, MoreTexts DEF L, Line
      <4>2. Len(text') \in Nat /\ Len(text') = Len(text)
        BY <1>10, <1>14, LenProperties
      <4>3. QED BY <4>1, <4>2
    <3>2. /\ SubSeq(text', t, h - 1) \in Seq(Line)
          /\ Len(SubSeq(text', t, h - 1)) = h - t
          /\ \A n \in 1 .. h - t : SubSeq(text', t, h - 1)[n] = text'[t + n - 1]
      <4>1. \A n \in t .. h - 1 : n \in 1 .. Len(text')
        BY <2>3, <3>1
      <4>2. \A n \in t .. h - 1 : text'[n] \in Line
        BY <3>1, <4>1, ElementOfSeq
      <4>3. /\ h - 1 \in Int /\ t \in Int /\ t <= h - 1
            /\ h - 1 - t + 1 = h - t
        BY <2>3
      <4>4. /\ SubSeq(text', t, h - 1) \in Seq(Line)
            /\ Len(SubSeq(text', t, h - 1)) = h - 1 - t + 1
            /\ \A n \in 1 .. h - 1 - t + 1 :
                   SubSeq(text', t, h - 1)[n] = text'[t + n - 1]
        BY <4>2, <4>3, SubSeqProperties
      <4>5. QED BY <4>3, <4>4
    <3>3. Len(Content) = h - t /\ \A n \in 1 .. h - t : Content[n] = text[t + n - 1]
      <4>1. h - t \in Nat /\ DOMAIN Content = 1 .. h - t
            /\ \A n \in 1 .. h - t : Content[n] = text[t + n - 1]
        BY <1>4, <1>5, <2>1, <2>2, <2>3
      <4>2. Len(Content) \in Nat /\ DOMAIN Content = 1 .. Len(Content)
        BY <1>5, LenProperties
      <4>3. \A m, n \in Nat : 1 .. m = 1 .. n => m = n
        OBVIOUS
      <4>4. QED BY <4>1, <4>2, <4>3
    <3>4. \A n \in 1 .. h - t : t + n - 1 \in 1 .. h - 1
      BY <2>3
    <3>5. \A n \in 1 .. h - t : Content[n] = SubSeq(text', t, h - 1)[n]
      BY <2>6, <3>2, <3>3, <3>4
    <3>6. QED BY <1>5, <3>2, <3>3, <3>5, SeqEqual
  <2>11. StandsAt(h)'
    BY <2>3, <2>4, <2>5, <2>7, <2>8, <2>9, <2>10 DEF StandsAt
  <2>12. h \in DOMAIN text'
    BY <1>10, <1>14, <2>3
  <2>13. QED BY <2>11, <2>12
<1>16. QED BY <1>14, <1>15 DEF L

\* The call returns, and nothing is left of it.
LEMMA ReturnInv ==
    ASSUME IInv, Return
    PROVE  IInv'
<1>1. /\ pc = "returned" /\ pc' = "idle" /\ call' = NoCall /\ i' = 0
      /\ as' = NoAssertion /\ result' = "none" /\ signed' = signed /\ edits' = edits
      /\ text' = IF result = "signed"
                 THEN [text EXCEPT ![as.at["signature"]].value = Len(signed)]
                 ELSE text
  BY DEF Return
<1>2. /\ buf' = <<>> /\ Len(buf') = 0 /\ call'.op = "none"
      /\ \A k : buf' \in Seq(LineWith(k))
  BY <1>1, EmptySeq DEF NoCall, buf
<1>3. call' \in CallType
  <2>1. <<>> \in Seq(Line)
    BY EmptySeq
  <2>2. QED BY <1>1, <2>1 DEF CallType, NoCall
<1>4. /\ as'.start = 0 /\ as'.env = None /\ as'.auth = None
      /\ \A w \in Keywords : as'.at[w] = 0
      /\ as' \in Assertion
  BY <1>1 DEF NoAssertion, Assertion
<1>5. text' \in Seq(LineWith(Len(signed)))
  <2>1. CASE result = "signed"
    BY <1>1, <2>1, PutInFile
  <2>2. CASE result # "signed"
    BY <1>1, <2>2 DEF IInv, TypeOK
  <2>3. QED BY <2>1, <2>2
<1>6. edits = 0 /\ Len(signed) = 1 => \E g \in DOMAIN text' : StandsAt(g)'
  <2>1. CASE result = "signed"
    BY <1>1, <2>1, PutInFile
  <2>2. CASE result # "signed"
    <3>1. \A g : StandsAt(g)' <=> StandsAt(g)
      BY <1>1, <2>2 DEF StandsAt
    <3>2. edits = 0 /\ Len(signed) = 1 => \E g \in DOMAIN text : StandsAt(g)
      BY <2>2 DEF IInv, Signing
    <3>3. QED BY <1>1, <2>2, <3>1, <3>2
  <2>3. QED BY <2>1, <2>2
<1>7. TypeOK'
  <2>1. Len(signed') <= MaxSigned /\ edits' \in 0 .. MaxEdits
    BY <1>1 DEF IInv, TypeOK
  <2>2. text' \in Seq(LineWith(Len(signed')))
    BY <1>1, <1>5
  <2>3. i' \in 0 .. Len(buf') + 1 /\ as'.start \in 0 .. Len(buf')
        /\ \A w \in Keywords : as'.at[w] \in 0 .. Len(buf')
    BY <1>1, <1>2, <1>4
  <2>4. QED BY <1>1, <1>3, <1>4, <2>1, <2>2, <2>3 DEF TypeOK
<1>8. Typed'
  <2>1. Typed
    BY DEF IInv
  <2>2. QED BY <1>1, <1>2, <1>4, <2>1 DEF Typed
<1>9. Parsing'
  BY <1>1 DEF Parsing
<1>10. Calling'
  BY <1>1, <1>2, <1>4 DEF Calling
<1>11. Signing'
  BY <1>1, <1>6 DEF Signing
<1>12. QED BY <1>7, <1>8, <1>9, <1>10, <1>11 DEF IInv

\* Nothing happens.
LEMMA StutterInv ==
    ASSUME IInv, UNCHANGED vars
    PROVE  IInv'
<1>1. /\ text' = text /\ signed' = signed /\ edits' = edits /\ pc' = pc
      /\ call' = call /\ i' = i /\ as' = as /\ result' = result
  BY DEF vars
<1>2. buf' = buf
  BY <1>1 DEF buf
<1>3. TypeOK'
  BY <1>1, <1>2 DEF IInv, TypeOK
<1>4. Typed'
  BY <1>1, <1>2 DEF IInv, Typed
<1>5. Taken' <=> Taken
  BY <1>1, <1>2 DEF Taken
<1>6. Parsing'
  BY <1>1, <1>2, <1>5 DEF IInv, Parsing
<1>7. Content' = Content /\ SignatureField' = SignatureField
  BY <1>1, <1>2 DEF Content, SignatureField
<1>8. HasSignature' <=> HasSignature
  BY <1>1, <1>7 DEF HasSignature
<1>9. Verdict' = Verdict
  <2>1. PICK x : x = SignatureField
    OBVIOUS
  <2>2. SigName(x)' = SigName(x)
    BY <1>1 DEF SigName
  <2>3. SigMatches(x)' = SigMatches(x)
    BY <1>1, <1>8, <2>2 DEF SigMatches
  <2>4. sigverify(x)' = sigverify(x)
    BY <1>1, <1>7, <2>3 DEF sigverify
  <2>5. Verdict = IF as.at["signature"] = 0 THEN "false" ELSE sigverify(x)
    BY <2>1 DEF Verdict
  <2>6. Verdict' = IF as.at["signature"] = 0 THEN "false" ELSE sigverify(x)'
    BY <1>1, <1>7, <2>1 DEF Verdict
  <2>7. QED BY <2>4, <2>5, <2>6
<1>10. Calling'
  <2> HIDE DEF Verdict
  <2>1. QED BY <1>1, <1>2, <1>5, <1>7, <1>9 DEF IInv, Calling
<1>11. JustSigned' <=> JustSigned
  BY <1>1, <1>5, <1>7, <1>8 DEF JustSigned
<1>12. \A g : StandsAt(g)' <=> StandsAt(g)
  BY <1>1 DEF StandsAt
<1>13. Signing'
  BY <1>1, <1>11, <1>12 DEF IInv, Signing
<1>14. QED BY <1>3, <1>4, <1>6, <1>10, <1>13 DEF IInv

\* Every step keeps the invariant.
LEMMA NextInv == IInv /\ [Next]_vars => IInv'
<1> SUFFICES ASSUME IInv, [Next]_vars PROVE IInv'
  OBVIOUS
<1>1. CASE Add
  BY <1>1, AddInv
<1>2. CASE Verify
  BY <1>2, VerifyInv
<1>3. CASE Return
  BY <1>3, ReturnInv
<1>4. CASE Edit
  BY <1>4, EditInv
<1>5. ASSUME NEW file \in KeyFile, NEW name \in Names, SignRefused(file, name)
      PROVE  IInv'
  BY <1>5, SignRefusedInv
<1>6. ASSUME NEW file \in KeyFile, NEW name \in Names, NEW vflag \in BOOLEAN,
             Sign(file, name, vflag)
      PROVE  IInv'
  BY <1>6, SignInv
<1>7. ASSUME NEW p \in Pair, kn_GenCredential(p) PROVE IInv'
  BY <1>7, CredentialInv
<1>8. CASE Parse
  BY <1>8, RefusedInv, LoopInv, EndsInv DEF Parse
<1>9. CASE Fix
  BY <1>9, FixInv, FixRefusedInv DEF Fix
<1>10. CASE VerifyReturns
  BY <1>10, VerdictInv
<1>11. CASE SignReturns
  BY <1>11, SignedInv
<1>12. CASE SignFails
  BY <1>12, FixRefusedInv
<1>13. CASE UNCHANGED vars
  BY <1>13, StutterInv
<1>14. QED
  BY <1>1, <1>2, <1>3, <1>4, <1>5, <1>6, <1>7, <1>8, <1>9, <1>10, <1>11, <1>12,
     <1>13 DEF Next

-------------------------------------------------------------------------------
\* The invariant holds in every state.
THEOREM Inductive == Spec => []IInv
<1>1. QED BY InitInv, NextInv, PTL DEF Spec

\* The variables keep their types, and the signatures in a file are such that
\* were made.
THEOREM TypeCorrect == Spec => []TypeOK
<1>1. IInv => TypeOK
  BY DEF IInv
<1>2. QED BY <1>1, Inductive, PTL

\* keynote_parse_assertion takes the texts that are well-formed and no others,
\* whatever comes between their fields.
THEOREM ParserIsRight == Spec => []TakesWellFormed
<1>1. ASSUME IInv PROVE TakesWellFormed
  <2> SUFFICES ASSUME pc = "returned", call.op # "none"
               PROVE  i > Len(buf) /\ as.at["authorizer"] # 0 <=> WellFormed(buf)
    BY DEF TakesWellFormed
  <2>1. TypeOK /\ Typed /\ Parsing
    BY <1>1 DEF IInv
  <2>2. Len(buf) \in Nat /\ buf \in Seq(Line) /\ as \in Assertion
    BY <2>1, BufFacts DEF Typed
  <2>2a. i \in Nat /\ Len(buf) \in Nat
    <3>1. i \in 0 .. Len(buf) + 1
      BY <2>1 DEF TypeOK
    <3>2. \A m \in Nat : \A n \in 0 .. m + 1 : n \in Nat
      OBVIOUS
    <3>3. QED BY <2>2, <3>1, <3>2
  <2>3. CASE Taken
    <3>0. i > Len(buf)
      <4>1. i = Len(buf) + 1
        BY <2>3 DEF Taken
      <4>2. \A m \in Nat : m + 1 > m
        OBVIOUS
      <4>3. QED BY <2>2a, <4>1, <4>2
    <3>1. i > Len(buf) /\ as.at["authorizer"] # 0 /\ AllScanned(buf, as)
      BY <2>3, <3>0 DEF Taken
    <3>2. WellFormed(buf)
      BY <2>2, <3>1, TakenIsWellFormed
    <3>3. QED BY <3>1, <3>2
  <2>4. CASE ~ Taken
    <3>1. (i <= Len(buf) \/ as.at["authorizer"] = 0) /\ ~ WellFormed(buf)
      BY <2>1, <2>4 DEF Parsing
    <3>2. ~ (i > Len(buf) /\ as.at["authorizer"] # 0)
      <4>1. \A m, n \in Nat : m <= n => ~ m > n
        OBVIOUS
      <4>2. QED BY <2>2a, <3>1, <4>1
    <3>3. QED BY <3>1, <3>2
  <2>5. QED BY <2>3, <2>4
<1>2. QED BY <1>1, Inductive, PTL

\* What verifies was signed with the key of the Authorizer, and reads as it did.
LEMMA WhatVerifies ==
    ASSUME IInv
    PROVE  VerifiedIsSigned
<1> SUFFICES ASSUME pc = "returned", result = "true"
             PROVE  \E n \in DOMAIN signed : /\ signed[n].pair = pair[as.auth]
                                             /\ signed[n].read = Read
  BY DEF VerifiedIsSigned
<1>1. TypeOK /\ Typed /\ Calling
  BY DEF IInv
<1>2. as.auth # None /\ call.op = "verify" /\ Taken
  BY <1>1 DEF Calling
<1>3. Verdict = "true"
  BY <1>1, <1>2 DEF Calling
<1>4. as.at["signature"] # 0 /\ sigverify(SignatureField) = "true"
  BY <1>3 DEF Verdict
<1>5. SignatureField # Bad
  BY <1>1, <1>2, <1>4 DEF Calling
<1>6. PICK n : n = SignatureField
  OBVIOUS
<1>7. /\ SigMatches(n) /\ n # Garbled
      /\ signed[n].content = Content /\ signed[n].pair = pair[as.auth]
  BY <1>4, <1>6 DEF sigverify
<1>8. n # Unknown
  <2>1. SigName(Unknown) = "other"
    BY AssertionAssumption DEF SigName
  <2>2. SigAlg("other") = "NONE"
    BY DEF SigAlg
  <2>3. ~ SigMatches(Unknown)
    BY <2>1, <2>2 DEF SigMatches
  <2>4. QED BY <1>7, <2>3
<1>9. AllScanned(buf, as)
  BY <1>2 DEF Taken
<1>10. as.at["signature"] \in DOMAIN buf /\ buf[as.at["signature"]].word = "signature"
  BY <1>1, <1>4, <1>9, ContentFacts
<1>11. n \in {Unknown, Garbled, Bad} \union 1 .. Len(signed)
  <2>1. buf \in Seq(LineWith(Len(signed)))
    BY <1>1 DEF Typed
  <2>2. buf[as.at["signature"]] \in LineWith(Len(signed))
    BY <1>10, <2>1, LineFacts
  <2>3. QED BY <1>6, <1>10, <2>2, ValueFacts DEF SignatureField
<1>12. n \in DOMAIN signed
  BY <1>5, <1>6, <1>7, <1>8, <1>11, CountFacts
<1>13. signed[n].read = ReadAll(Content)
  BY <1>1, <1>7, <1>12 DEF Typed
<1>14. Read = ReadAll(Content)
  BY <1>1, <1>4, <1>9, ReadIsOfContent
<1>15. QED BY <1>7, <1>12, <1>13, <1>14

\* The first signature is the one that the parser finds in the text, and what it
\* is about is the content.
LEMMA FindsFirst ==
    ASSUME IInv, pc = "returned", buf = text, Taken, NEW g \in DOMAIN text,
           StandsAt(g), signed[1].by \in {"publisher", "keynote"},
           signed[1].by = "publisher" => FromStartToEnd(text)
    PROVE  HasSignature /\ SignatureField = 1 /\ signed[1].content = Content
<1> DEFINE s == as.start
<1>1. /\ TypeOK /\ Typed /\ AllScanned(buf, as) /\ as.at["authorizer"] # 0
  BY DEF IInv, Taken
<1>2. /\ buf \in Seq(Line) /\ Len(buf) \in Nat /\ DOMAIN buf = 1 .. Len(buf)
      /\ as \in Assertion
  BY <1>1, BufFacts DEF Typed
<1>3. PICK e \in s .. Len(buf) : ScannedTo(buf, as, e)
  BY <1>1 DEF AllScanned
<1>4. /\ InPlace(buf, s, e) /\ Ends(buf, e) /\ buf[s].word \notin Spaces
      /\ \A w \in Keywords : Noted(buf, as, s, e, w)
  BY <1>1, <1>3 DEF ScannedTo, Scanned, AllScanned
<1>5. s \in 1 .. Len(buf) /\ e \in s .. Len(buf) /\ g \in 1 .. Len(buf)
  BY <1>1, <1>2, <1>3 DEF AllScanned
<1>5a. s \in Nat \ {0} /\ g \in Nat \ {0} /\ e \in Nat /\ s <= e /\ e <= Len(buf)
       /\ g <= Len(buf)
  <2>1. Len(buf) \in Nat
    BY <1>2
  <2> HIDE DEF s
  <2>2. QED BY <1>5, <2>1
<1>6. text[g].word = "signature" /\ text[g].value = 1
  BY DEF StandsAt
<1>7. \A n \in 1 .. s - 1 : buf[n].word \in Spaces
  BY <1>4 DEF InPlace
<1>8. as.at["authorizer"] \in s .. e /\ buf[as.at["authorizer"]].word = "authorizer"
  <2>1. as.at["authorizer"] \in With(buf, s, e, "authorizer")
    BY <1>1, <1>4 DEF Noted, Keywords
  <2>2. as.at["authorizer"] \in s .. e
        /\ KeywordOf(buf[as.at["authorizer"]].word) = "authorizer"
    BY <2>1 DEF With, Fields
  <2>3. QED BY <2>2, KeywordFacts DEF Keywords
<1> HIDE DEF s
<1>9. /\ g \in s .. e /\ s # g
      /\ signed[1].content = SubSeq(text, s, g - 1)
  <2>1. CASE signed[1].by = "publisher"
    <3>1. g = Len(text) /\ signed[1].content = SubSeq(text, 1, g - 1)
      BY <2>1 DEF StandsAt
    <3>2. text[1].word \notin Spaces /\ \A n \in DOMAIN text : text[n].word # "blank"
      BY <2>1 DEF FromStartToEnd
    <3>3. s = 1
      <4>1. \A n \in 1 .. 1 - 1 : text[n].word \in Spaces
        OBVIOUS
      <4>2. QED BY <1>4, <1>5a, <1>7, <3>2, <4>1, SameStart
    <3>4. e = Len(text)
      <4>1. SUFFICES ASSUME e # Len(text) PROVE FALSE
        OBVIOUS
      <4>2. e + 1 \in DOMAIN text
        <5>1. \A m, n \in Nat : m <= n /\ m # n => m + 1 \in 1 .. n
          OBVIOUS
        <5>2. e \in Nat /\ Len(buf) \in Nat /\ e <= Len(buf) /\ e # Len(buf)
          BY <1>2, <1>5a, <4>1
        <5>3. e + 1 \in 1 .. Len(buf)
          BY <5>1, <5>2
        <5>4. QED BY <1>2, <5>3
      <4>3. QED BY <1>4, <3>2, <4>1, <4>2 DEF Ends
    <3>5. g # 1
      <4>1. SUFFICES ASSUME g = 1 PROVE FALSE
        OBVIOUS
      <4>2. as.at["authorizer"] = g
        <5>1. s = 1 /\ e = 1
          BY <3>1, <3>3, <3>4, <4>1
        <5>2. as.at["authorizer"] \in 1 .. 1
          BY <1>8, <5>1
        <5>3. \A n \in 1 .. 1 : n = 1
          OBVIOUS
        <5>4. QED BY <4>1, <5>2, <5>3
      <4>3. QED BY <1>6, <1>8, <4>2
    <3>6. g \in s .. e
      BY <1>5a, <3>1, <3>3, <3>4
    <3>7. QED BY <3>1, <3>3, <3>5, <3>6
  <2>2. CASE signed[1].by = "keynote"
    <3>1. PICK t \in 1 .. g - 1 :
              /\ \A n \in 1 .. t - 1 : text[n].word \in Spaces
              /\ text[t].word \notin Spaces
              /\ \A n \in t .. g : text[n].word # "blank"
              /\ signed[1].content = SubSeq(text, t, g - 1)
      BY <2>2 DEF StandsAt
    <3>2. t \in Nat \ {0} /\ t < g
      BY <1>5a
    <3>3. s = t
      BY <1>4, <1>5a, <1>7, <3>1, <3>2, SameStart
    <3>4. g \in s .. Len(buf)
      BY <1>2, <1>5a, <3>2, <3>3
    <3>5. g <= e
      BY <1>2, <1>4, <1>5, <1>5a, <3>1, <3>3, <3>4, NoEarlierEnd
    <3>6. g \in s .. e
      BY <1>5a, <3>4, <3>5
    <3>7. QED BY <3>1, <3>2, <3>3, <3>6
  <2>3. QED BY <2>1, <2>2
<1>10. g \in With(buf, s, e, "signature")
  <2>1. KeywordOf(buf[g].word) = "signature"
    BY <1>6 DEF KeywordOf
  <2>2. QED BY <1>6, <1>9, <2>1 DEF With, Fields
<1>11. as.at["signature"] = g
  <2>1. as.at["signature"] \in Nat
    BY <1>2 DEF Assertion, Keywords
  <2>2. g <= as.at["signature"] /\ ~ g < as.at["signature"]
    BY <1>4, <1>10 DEF Noted, Keywords
  <2>3. \A m, n \in Nat : m <= n /\ ~ m < n => n = m
    OBVIOUS
  <2>4. g \in Nat
    BY <1>5a
  <2>5. QED BY <2>1, <2>2, <2>3, <2>4
<1>12. Content = SubSeq(text, s, g - 1)
  BY <1>11 DEF Content, s
<1>13. Content # <<>>
  <2>1. DOMAIN Content = 1 .. g - s /\ s <= g
    BY <1>1, <1>5a, <1>11, ContentFacts DEF s
  <2>2. 1 \in 1 .. g - s
    BY <1>5a, <1>9, <2>1
  <2>3. 1 \in DOMAIN Content
    BY <2>1, <2>2
  <2>4. DOMAIN <<>> = {}
    BY EmptySeq
  <2>5. QED BY <2>3, <2>4
<1>14. QED BY <1>5a, <1>6, <1>9, <1>11, <1>12, <1>13 DEF HasSignature, SignatureField

\* A file that was signed, and left alone, verifies.
LEMMA WhatWasSignedVerifies ==
    ASSUME IInv
    PROVE  SignedVerifies
<1> SUFFICES ASSUME pc = "returned", call.op = "verify", buf = text,
                    edits = 0, Len(signed) = 1, as.auth # None,
                    Matches(SigAlg(signed[1].name), alg[as.auth]),
                    signed[1].pair = pair[as.auth],
                    signed[1].by = "publisher" => FromStartToEnd(text)
             PROVE  result = "true"
  BY DEF SignedVerifies
<1>1. Calling /\ Signing
  BY DEF IInv
<1>2. Taken /\ result = Verdict
  BY <1>1 DEF Calling
<1>3. PICK g \in DOMAIN text : StandsAt(g)
  <2>1. result # "signed"
    BY <1>1 DEF Signing, JustSigned
  <2>2. QED BY <1>1, <2>1 DEF Signing
<1>4. signed[1] \in Signature
  BY CountFacts
<1>5. HasSignature /\ SignatureField = 1 /\ signed[1].content = Content
  <2>1. signed[1].by \in {"publisher", "keynote"}
    BY <1>4 DEF Signature
  <2>2. QED BY <1>2, <1>3, <2>1, FindsFirst
<1>6. 1 # Unknown /\ 1 # Garbled
  BY AssertionAssumption
<1>7. SigName(1) = signed[1].name
  BY <1>6 DEF SigName
<1>8. SigAlg(signed[1].name) # "NONE"
  <2>1. signed[1].name \in {"rsa", "x509", "dsa"}
    BY <1>4 DEF Signature, Names
  <2>2. QED BY <2>1 DEF SigAlg
<1>9. SigMatches(1)
  BY <1>5, <1>7, <1>8 DEF SigMatches
<1>10. sigverify(1) = "true"
  BY <1>5, <1>6, <1>9 DEF sigverify
<1>11. QED BY <1>2, <1>5, <1>10 DEF Verdict, HasSignature

\* Verifying and signing are about the same text: what verifies reads as what the
\* owner of the Authorizer's key signed, and a file signed so and left alone
\* verifies.
THEOREM SignaturesAreMeant == Spec => []SignaturesAreAboutTheText
<1>1. IInv => SignaturesAreAboutTheText
  BY WhatVerifies, WhatWasSignedVerifies DEF SignaturesAreAboutTheText
<1>2. QED BY <1>1, Inductive, PTL
===============================================================================
