--------------------------- MODULE KeyNoteAssertion ---------------------------
(***************************************************************************)
(* The text of an assertion: how keynote_parse_assertion splits it into    *)
(* fields, how it is signed, by the keynote command and by the publisher   *)
(* (KeynoteESP.c), and how the signature is verified (signature.c).  What  *)
(* is signed is a piece of the text; what counts is what the parser reads; *)
(* and those that sign and verify each find the piece in their own way.    *)
(*                                                                         *)
(* A text is a sequence of lines, each a record [word, value].  The word   *)
(* is "blank" for an empty line, "white" for one of spaces, "#" for one    *)
(* that starts so, and otherwise what stands before the colon: a keyword,  *)
(* "co" for the short form of two, "junk" for anything else.  The values   *)
(* are model values; that of a Signature may be a number, which stands for *)
(* the signature signed[n].                                                *)
(*                                                                         *)
(* Left out: running out of memory, digests and the encoding of keys and   *)
(* signatures, Signature fields with names.  A text ends with a newline.   *)
(***************************************************************************)
EXTENDS Integers, FiniteSetsExt, SequencesExt

CONSTANTS
    Pair,        \* pairs of keys
    pairalg,     \* their algorithms, "RSA" or "DSA"
    Principal,   \* what an Authorizer may name
    pair, alg,   \* its pair, and "RSA", "X509", "DSA", or "NONE" for no key
    Good, Bad,   \* a value that is right, one that the grammar refuses
    Empty,       \* Local-Constants without a constant
    Const,       \* an Authorizer: the name of the local constant
    Unknown, Garbled,  \* signatures: of no known name, not decodable
    None,
    Texts,       \* the texts to be signed
    EditLines,   \* the lines that an edit puts in
    MaxSigned, MaxEdits   \* bounds

Keywords == {"version", "local-constants", "authorizer", "licensees",
             "conditions", "signature", "comment", "delegate"}
Values == Principal \union {Good, Bad, Empty, Const, Unknown, Garbled}
              \union 1 .. MaxSigned

\* What the value of a field may be, when n signatures have been made.
ValuesOf(word, n) ==
    CASE word = "authorizer" -> Principal \union {Const, Bad}
      [] word = "local-constants" -> Principal \union {Empty, Bad}
      [] word = "signature" -> {Unknown, Garbled, Bad} \union 1 .. n
      [] OTHER -> {Good, Bad, Empty}
LineWith(n) == {l \in [word : Keywords \union {"co", "junk", "blank", "white", "#"},
                       value : Values] : l.value \in ValuesOf(l.word, n)}
Line == LineWith(MaxSigned)

ASSUME AssertionAssumption ==
    /\ pairalg \in [Pair -> {"RSA", "DSA"}]
    /\ pair \in [Principal -> Pair \union {None}]
    /\ alg \in [Principal -> {"RSA", "X509", "DSA", "NONE"}]
    /\ \A p \in Principal : alg[p] = "NONE" \/ pair[p] \in Pair
    /\ {Good, Bad, Empty, Const, Unknown, Garbled, None} \intersect Principal
           = {}
    /\ Unknown # Garbled /\ {Unknown, Garbled, Bad} \intersect Nat = {}
    /\ Texts \subseteq Seq(LineWith(0)) /\ EditLines \subseteq Line
    /\ MaxSigned \in Nat /\ MaxEdits \in Nat

VARIABLES
    text,      \* the file
    signed,    \* the signatures made
    edits,     \* changes made to the file since the first of them
    pc,        \* where the call is
    call,      \* its arguments
    i,         \* the line that the loop of keynote_parse_assertion is at
    as,        \* struct assertion
    result     \* what the call returns

vars == <<text, signed, edits, pc, call, i, as, result>>

buf == call.buf

-------------------------------------------------------------------------------
(***************************************************************************)
(* Signatures.                                                             *)
(***************************************************************************)
Names == {"rsa", "x509", "dsa", "other"}

\* keynote_get_sig_algorithm
SigAlg(name) == CASE name = "rsa" -> "RSA" [] name = "x509" -> "X509"
                  [] name = "dsa" -> "DSA" [] OTHER -> "NONE"
Matches(a, b) == a = b \/ {a, b} = {"RSA", "X509"}

\* A file with a key: the private part or the public one as keynote keygen
\* writes them, or PEM.  What kn_sign_assertion takes it for, and whether
\* the library of the algorithm can sign with it.
KeyFile == [pair : Pair, form : {"private", "public", "pem"}]
KeyIsRead(file, name) == name = "x509" \/ file.form # "pem"
KeyAlg(file, name) == CASE name = "x509" -> "X509"
                        [] file.form = "private" -> pairalg[file.pair]
                        [] OTHER -> "NONE"
KeyWorks(file, name) ==
    name = "x509" => file.form = "pem" /\ pairalg[file.pair] = "RSA"

\* What is digested beside the name, which is in the signature: the lines
\* from as_startofsignature to as_allbutsignature.
Content == SubSeq(buf, as.start, as.at["signature"] - 1)

\* keynote_sigverify_assertion
HasSignature == as.at["signature"] # 0 /\ Content # <<>>
SigName(sig) == CASE sig = Unknown -> "other" [] sig = Garbled -> "rsa"
                  [] OTHER -> signed[sig].name
SigMatches(sig) == /\ HasSignature
                   /\ SigAlg(SigName(sig)) # "NONE"
                   /\ Matches(SigAlg(SigName(sig)), alg[as.auth])
sigverify_AnyKey(sig) ==
    CASE ~ SigMatches(sig) -> "false"
      [] sig = Garbled -> "error"
      [] OTHER -> IF signed[sig].content = Content THEN "true" ELSE "false"
sigverify(sig) ==
    CASE ~ SigMatches(sig) -> "false"
      [] sig = Garbled -> "error"
      [] OTHER -> IF /\ signed[sig].content = Content
                     /\ signed[sig].pair = pair[as.auth]
                  THEN "true" ELSE "false"

-------------------------------------------------------------------------------
(***************************************************************************)
(* The calls.                                                              *)
(***************************************************************************)
NoAssertion == [start |-> 0, seen |-> FALSE, env |-> None, auth |-> None,
                at |-> [w \in Keywords |-> 0]]
NoCall == [op |-> "none", buf |-> <<>>]

Init ==
    /\ text \in Texts
    /\ signed = <<>>
    /\ edits = 0
    /\ pc = "idle" /\ call = NoCall /\ i = 0
    /\ as = NoAssertion
    /\ result = "none"

\* The beginning of keynote_parse_assertion: white space is skipped.
Spaces == {"blank", "white"}
Calls(c) ==
    /\ pc = "idle"
    /\ call' = c
    /\ pc' = "parse"
    /\ i' = SelectInSeq(c.buf, LAMBDA l : l.word \notin Spaces)
    /\ UNCHANGED <<text, signed, edits, as, result>>

\* kn_read_asserts: the pieces of a file between empty lines.  An empty line
\* that follows another, or the beginning, is not seen as one.
kn_read_asserts(t) ==
    LET Cuts == CHOOSE C \in SUBSET DOMAIN t : \A n \in DOMAIN t :
                    n \in C <=> t[n].word = "blank" /\ n > 1 /\ n - 1 \notin C
        IsPiece(m, n) == /\ m - 1 \in Cuts \union {0}
                         /\ n + 1 \in Cuts \union {Len(t) + 1}
                         /\ m .. n \intersect Cuts = {}
                         /\ \E k \in m .. n : t[k].word \notin Spaces
    IN  {SubSeq(t, e[1], e[2]) :
             e \in {d \in (DOMAIN t) \X (DOMAIN t) : IsPiece(d[1], d[2])}}

\* kn_add_assertion, here only as far as the parser goes.
Add == Calls([op |-> "add", buf |-> text])

\* kn_verify_assertion with the file, and keynote sigver with its pieces.
Verify == \E b \in kn_read_asserts(text) \union {text} :
              Calls([op |-> "verify", buf |-> b])

\* kn_sign_assertion; a key of the wrong form is noticed before the parsing.
Sign(file, name, vflag) ==
    /\ Len(signed) < MaxSigned
    /\ KeyIsRead(file, name)
    /\ Calls([op |-> "sign", buf |-> text, file |-> file, name |-> name,
              vflag |-> vflag])
SignRefused(file, name) ==
    /\ pc = "idle" /\ Len(signed) < MaxSigned
    /\ ~ KeyIsRead(file, name)
    /\ pc' = "returned"
    /\ result' = "refused"
    /\ UNCHANGED <<text, signed, edits, call, i, as>>

\* The caller is given the result, and puts a new signature in its place.
Return ==
    /\ pc = "returned"
    /\ text' = IF result = "signed"
               THEN [text EXCEPT ![as.at["signature"]].value = Len(signed)]
               ELSE text
    /\ pc' = "idle" /\ call' = NoCall /\ i' = 0
    /\ as' = NoAssertion
    /\ result' = "none"
    /\ UNCHANGED <<signed, edits>>

\* whichkeyword takes the first keyword that starts with the word.
KeywordOf(word) == IF word = "co" THEN "conditions" ELSE word

\* What the parser read: for every keyword the value it has, if any.
Read == [w \in Keywords \ {"signature"} |->
            {buf[n].value : n \in {as.at[w]} \ {0}}]

\* kn_GenCredential: the publisher signs a text as it is, and puts a
\* Signature field behind it.  What is read in it: of each keyword the last.
LinesOf(t, w) == {n \in DOMAIN t : KeywordOf(t[n].word) = w}
ReadAll(t) == [w \in Keywords \ {"signature"} |->
                  {t[n].value : n \in {m \in LinesOf(t, w) :
                                           \A k \in LinesOf(t, w) : k <= m}}]
kn_GenCredential_WithNul(p) ==
    /\ pc = "idle" /\ Len(signed) < MaxSigned
    /\ pairalg[p] = "RSA"
    /\ signed' = Append(signed, [pair |-> p, name |-> "rsa", by |-> "publisher",
                                 content |-> Append(text, None),
                                 read |-> ReadAll(text)])
    /\ text' = Append(text, [word |-> "signature", value |-> Len(signed')])
    /\ UNCHANGED <<edits, pc, call, i, as, result>>
kn_GenCredential(p) ==
    /\ pc = "idle" /\ Len(signed) < MaxSigned
    /\ pairalg[p] = "RSA"
    /\ signed' = Append(signed, [pair |-> p, name |-> "rsa", by |-> "publisher",
                                 content |-> text, read |-> ReadAll(text)])
    /\ text' = Append(text, [word |-> "signature", value |-> Len(signed')])
    /\ UNCHANGED <<edits, pc, call, i, as, result>>

\* Anyone changes the file; no signature is put in but one that was made.
Edit ==
    /\ pc = "idle" /\ signed # <<>> /\ edits < MaxEdits
    /\ edits' = edits + 1
    /\ \/ \E n \in DOMAIN text : text' = RemoveAt(text, n)
       \/ \E n \in DOMAIN text, l \in EditLines \intersect LineWith(Len(signed)) :
              text[n] # l /\ text' = ReplaceAt(text, n, l)
       \/ \E n \in 1 .. Len(text) + 1,
             l \in EditLines \intersect LineWith(Len(signed)) :
              text' = InsertAt(text, n, l)
    /\ UNCHANGED <<signed, pc, call, i, as, result>>

-------------------------------------------------------------------------------
(***************************************************************************)
(* keynote_parse_assertion, a field at a time.                             *)
(***************************************************************************)
Word == buf[i].word
Keyword == KeywordOf(Word)

\* The field ends before a line that is not white and no comment.
Follow ==
    LET n == SelectInSubSeq(buf, i + 1, Len(buf),
                            LAMBDA l : l.word \notin {"white", "#"})
    IN  IF n = 0 THEN Len(buf) + 1 ELSE n
AtEnd(n) == n \in DOMAIN buf => buf[n].word = "blank"

\* as_startofsignature is set once.
Started == IF as.start = 0 THEN i ELSE as.start

Refuse ==
    /\ pc' = "returned"
    /\ result' = IF call.op = "verify" THEN "error" ELSE "refused"
    /\ UNCHANGED <<text, signed, edits, call, i, as>>

\* Nothing but white space.
ParseNothing == pc = "parse" /\ i = 0 /\ Refuse

\* A comment at the beginning; afterwards they belong to the fields.
ParseComment ==
    /\ pc = "parse" /\ i \in DOMAIN buf /\ Word = "#"
    /\ as' = [as EXCEPT !.start = Started, !.seen = TRUE]
    /\ i' = i + 1
    /\ UNCHANGED <<text, signed, edits, pc, call, result>>

\* keynote_get_envlist parses these two fields at once.
envlist_Parses ==
    /\ Keyword = "version" => buf[i].value = Good
    /\ Keyword = "local-constants" => buf[i].value # Bad

\* What the switch asks of a field.
Allowed ==
    /\ CASE Keyword = "version" -> ~ as.seen
         [] Keyword = "local-constants" -> as.env = None
         [] OTHER -> as.at[Keyword] = 0
    /\ envlist_Parses
SignatureIsLast == Keyword = "signature" => AtEnd(Follow)
IsField_Anywhere == Keyword \in Keywords /\ Allowed
IsField == Keyword \in Keywords /\ Allowed /\ SignatureIsLast

ParseField ==
    /\ pc = "parse" /\ i \in DOMAIN buf /\ Word # "#"
    /\ IsField
    /\ as' = [as EXCEPT
           !.start = Started, !.seen = TRUE, !.at[Keyword] = i,
           !.env = IF Keyword = "local-constants" /\ buf[i].value # Empty
                   THEN buf[i].value ELSE @]
    /\ i' = IF AtEnd(Follow) THEN Len(buf) + 1 ELSE Follow
    /\ UNCHANGED <<text, signed, edits, pc, call, result>>

ParseRefused ==
    /\ pc = "parse" /\ i \in DOMAIN buf /\ Word # "#"
    /\ ~ IsField
    /\ Refuse

\* The end: there must be an authorizer.
ParseEnds_Incomplete ==
    /\ pc = "parse" /\ i > Len(buf)
    /\ pc' = IF call.op = "add" THEN "returned" ELSE "fix"
    /\ result' = IF call.op = "add" THEN "added" ELSE result
    /\ UNCHANGED <<text, signed, edits, call, i, as>>
ParseEnds ==
    /\ pc = "parse" /\ i > Len(buf)
    /\ as.at["authorizer"] # 0
    /\ pc' = IF call.op = "add" THEN "returned" ELSE "fix"
    /\ result' = IF call.op = "add" THEN "added" ELSE result
    /\ UNCHANGED <<text, signed, edits, call, i, as>>
ParseIncomplete ==
    /\ pc = "parse" /\ i > Len(buf)
    /\ as.at["authorizer"] = 0
    /\ Refuse

\* keynote_fix_fields for one assertion.  Outside of a session there is no
\* table to look the name of an authorizer up in but that of the constants.
AuthorizerField == buf[as.at["authorizer"]].value
SignatureField == buf[as.at["signature"]].value

FixFields ==
    /\ pc = "fix"
    /\ \/ AuthorizerField \in Principal
       \/ AuthorizerField = Const /\ as.env # None
    /\ call.op = "verify" /\ as.at["signature"] # 0 => SignatureField # Bad
    /\ as' = [as EXCEPT !.auth = IF AuthorizerField = Const THEN as.env
                                 ELSE AuthorizerField]
    /\ pc' = "sign"
    /\ UNCHANGED <<text, signed, edits, call, i, result>>
FixFails ==
    /\ pc = "fix"
    /\ \/ AuthorizerField = Bad
       \/ /\ AuthorizerField # Const \/ as.env # None
          /\ call.op = "verify" /\ as.at["signature"] # 0
          /\ SignatureField = Bad
    /\ Refuse
FixCrashes ==
    /\ pc = "fix"
    /\ AuthorizerField = Const /\ as.env = None
    /\ pc' = "returned"
    /\ result' = "crash"
    /\ UNCHANGED <<text, signed, edits, call, i, as>>

\* kn_verify_assertion: the verdict.
VerifyReturns ==
    /\ pc = "sign" /\ call.op = "verify"
    /\ pc' = "returned"
    /\ result' = IF as.at["signature"] = 0 THEN "false"
                 ELSE sigverify(SignatureField)
    /\ UNCHANGED <<text, signed, edits, call, i, as>>

\* keynote_sign_assertion
MaySign ==
    /\ HasSignature
    /\ alg[as.auth] # "NONE"
    /\ Matches(SigAlg(call.name), alg[as.auth])
    /\ Matches(SigAlg(call.name), KeyAlg(call.file, call.name))
    /\ KeyWorks(call.file, call.name)
    /\ call.vflag => call.file.pair = pair[as.auth]

SignReturns ==
    /\ pc = "sign" /\ call.op = "sign"
    /\ MaySign
    /\ signed' = Append(signed, [pair |-> call.file.pair, name |-> call.name,
                                 by |-> "keynote", content |-> Content,
                                 read |-> Read])
    /\ pc' = "returned"
    /\ result' = "signed"
    /\ UNCHANGED <<text, edits, call, i, as>>
SignFails ==
    /\ pc = "sign" /\ call.op = "sign"
    /\ ~ MaySign
    /\ Refuse

Parse == ParseNothing \/ ParseComment \/ ParseField \/ ParseRefused
             \/ ParseEnds \/ ParseIncomplete
Fix == FixFields \/ FixFails \/ FixCrashes

Next ==
    \/ Add \/ Verify \/ Return \/ Edit
    \/ \E file \in KeyFile, name \in Names :
           SignRefused(file, name) \/ \E vflag \in BOOLEAN : Sign(file, name, vflag)
    \/ \E p \in Pair : kn_GenCredential(p)
    \/ Parse \/ Fix \/ VerifyReturns \/ SignReturns \/ SignFails

Spec == Init /\ [][Next]_vars

-------------------------------------------------------------------------------
CallType ==
    [op : {"none", "add", "verify"}, buf : Seq(Line)]
        \union [op : {"sign"}, buf : Seq(Line), file : KeyFile, name : Names,
                vflag : BOOLEAN]

\* The type invariant; a field of the assertion is a line of the text.
TypeOK ==
    /\ text \in Seq(LineWith(Len(signed)))
    /\ Len(signed) <= MaxSigned
    /\ edits \in 0 .. MaxEdits
    /\ pc \in {"idle", "parse", "fix", "sign", "returned"}
    /\ call \in CallType
    /\ i \in 0 .. Len(buf) + 1
    /\ as.start \in 0 .. Len(buf)
    /\ as.env \in Values \union {None} /\ as.auth \in Principal \union {None}
    /\ \A w \in Keywords : as.at[w] \in 0 .. Len(buf)
    /\ pc \in {"fix", "sign"} => as.at["authorizer"] # 0
    /\ result \in {"none", "refused", "error", "crash", "added", "false",
                   "true", "signed"}

(***************************************************************************)
(* What an assertion is, without the loop: the lines from the first that   *)
(* is not white to the last before an empty one; comments may come first,  *)
(* and inside of the fields; a KeyNote-Version comes before all else, a    *)
(* Signature after; and no field comes twice, but that for Local-Constants *)
(* without a constant the parser does not notice.                          *)
(***************************************************************************)
IsAssertion(b, s, e) ==
    LET Fields == {n \in s .. e : b[n].word \notin {"white", "#"}}
        With(w) == {n \in Fields : KeywordOf(b[n].word) = w}
    IN  /\ \A n \in 1 .. s - 1 : b[n].word \in Spaces
        /\ \A n \in s .. e : b[n].word # "blank"
        /\ e = Len(b) \/ b[e + 1].word = "blank"
        /\ With("authorizer") # {}
        /\ \A n \in s .. e : b[n].word = "white" => \E m \in Fields : m < n
        /\ \A n \in Fields : KeywordOf(b[n].word) \in Keywords
        /\ With("version") \subseteq {s}
        /\ \A n \in With("version") : b[n].value = Good
        /\ \A w \in Keywords \ {"local-constants"} : \A m, n \in With(w) : m = n
        /\ \A m, n \in With("local-constants") :
               b[m].value # Bad /\ (m < n => b[m].value = Empty)
        /\ \A n \in With("signature"), m \in Fields : m <= n
WellFormed(b) == \E s \in DOMAIN b : \E e \in s .. Len(b) : IsAssertion(b, s, e)

\* keynote_parse_assertion takes what is well-formed and nothing else.
TakesWellFormed ==
    pc = "returned" /\ call.op # "none" =>
        (i > Len(buf) /\ as.at["authorizer"] # 0 <=> WellFormed(buf))

\* Whatever was done to the file: if the signature verifies, then the owner of
\* the Authorizer's key signed a text in which each field was as it is read now.
VerifiedIsSigned ==
    pc = "returned" /\ result = "true" =>
        \E n \in DOMAIN signed : /\ signed[n].pair = pair[as.auth]
                                 /\ signed[n].read = Read

\* A file that was signed with the Authorizer's own key, and not touched since,
\* verifies.  The publisher's signer neither skips white space at the beginning
\* nor stops at an empty line, nor reads the text: with such a text, or one that
\* is not well-formed, it is no use.
FromStartToEnd(t) == /\ WellFormed(t)
                     /\ t[1].word \notin Spaces
                     /\ \A n \in DOMAIN t : t[n].word # "blank"
SignedVerifies ==
    /\ pc = "returned" /\ call.op = "verify" /\ buf = text
    /\ edits = 0 /\ Len(signed) = 1
    /\ as.auth # None
    /\ Matches(SigAlg(signed[1].name), alg[as.auth])
    /\ signed[1].pair = pair[as.auth]
    /\ signed[1].by = "publisher" => FromStartToEnd(text)
    => result = "true"

\* Verifying a file and signing it are about the same text.
SignaturesAreAboutTheText == VerifiedIsSigned /\ SignedVerifies

===============================================================================
