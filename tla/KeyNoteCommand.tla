---------------------------- MODULE KeyNoteCommand ----------------------------
(***************************************************************************)
(* The command "keynote verify" (KeyNote/keynote-verify.c), which a policy *)
(* module starts for each request and whose output it reads.  It goes over *)
(* its options and operands, each of which names a file, fills a session   *)
(* of the library, asks one query, prints the value, and reports the       *)
(* assertions that failed.                                                 *)
(*                                                                         *)
(* The files of attributes and of keys are read by a lexer with start      *)
(* conditions (keynote-ver.l) and a parser with tables (keynote-ver.y),    *)
(* generated into lex.kv.c and z.tab.c: both are here with their tables.   *)
(* A file is any sequence of bytes.  A file of keys is read over what the  *)
(* earlier ones left in a buffer, and the lexer goes on to a zero byte, so *)
(* a string may begin in one file and end in another.                      *)
(*                                                                         *)
(* Of an assertion there is its kind: what kn_add_assertion, the parsing   *)
(* of its fields, its conditions or its signature will say of it.  The     *)
(* search itself is module KeyNoteQuery, and the library's sessions are    *)
(* KeyNoteSession.  Running out of memory is left out.                     *)
(***************************************************************************)
EXTENDS Integers, SequencesExt

CONSTANTS
    CommandLines,    \* [options, operands], see CommandLine
    Letters,         \* letters and digits
    Strays,          \* other bytes, those that mean nothing to the lexer
    Keys,            \* strings that kn_decode_key takes
    BufferSize,      \* cl, bytes of buf to begin with
    YYMAXDEPTH,      \* states the parser's stack may hold
    None

\* What the lexer tells apart: a tab is a blank, "return" is other white space.
Named == {"underscore", "blank", "newline", "return", "quote", "hash", "equals",
          "backslash"}
Char == Letters \union Strays \union Named
Byte == Char \union {"zero"}
File == Seq(Byte)
Kinds == {"unparsable", "badauth", "badlics", "badcond", "badsig", "good"}
AssertionFile == [kind : Kinds, size : Nat]

\* An option with what its file holds, None if there is no such file.
Option ==
    [opt : {"e", "k"}, arg : File \union {None}]
        \union [opt : {"l"}, arg : AssertionFile \union {None}]
        \union [opt : {"r"}, arg : Seq(STRING) \ {<<>>}]
        \union [opt : {"h"}, arg : {None}]
CommandLine == [options : Seq(Option), operands : Seq(AssertionFile \union {None})]

ASSUME CommandAssumption ==
    /\ CommandLines \subseteq CommandLine
    /\ Letters \subseteq STRING /\ Letters \intersect Strays = {}
    /\ Strays \subseteq STRING
    /\ (Letters \union Strays) \intersect (Named \union {"zero"}) = {}
    /\ Keys \subseteq Seq(Char)
    /\ BufferSize \in Nat \ {0} /\ YYMAXDEPTH \in Nat \ {0, 1}
    /\ None \notin STRING

VARIABLES
    cmd,       \* the command line
    at,        \* the option or operand it is at
    pc,
    buf,       \* what files of keys and assertions are read into
    text,      \* what the lexer reads
    pos,       \* how far it got
    start,     \* its start condition
    stack,     \* the parser's states, each with its semantic value
    token,     \* the lookahead and its value
    keynote_errno,
    env,       \* the session: attributes, keys that ask, assertions
    authorizers,
    table,
    out        \* what was printed on stdout

parserVars == <<text, pos, start, stack, token>>
sessionVars == <<env, authorizers, table>>
vars == <<cmd, at, pc, buf, parserVars, keynote_errno, sessionVars, out>>

option == cmd.options[at]
NoToken == [t |-> "none", v |-> None]
Given(opt) == \E i \in 1 .. at - 1 : cmd.options[i].opt = opt
ReturnValues ==
    cmd.options[SelectInSeq(cmd.options, LAMBDA o : o.opt = "r")].arg

Init ==
    /\ cmd \in CommandLines
    /\ at = 1
    /\ pc = "options"
    /\ buf = [i \in 1 .. BufferSize |-> "zero"]
    /\ text = <<>> /\ pos = 0 /\ start = "INITIAL" /\ stack = <<>> /\ token = NoToken
    /\ keynote_errno = "none"
    /\ env = <<>> /\ authorizers = <<>> /\ table = <<>>
    /\ out = <<>>

Exit ==
    /\ pc' = "exited"
    /\ UNCHANGED <<cmd, at, buf, parserVars, keynote_errno, sessionVars, out>>

-------------------------------------------------------------------------------
(***************************************************************************)
(* The options.                                                            *)
(***************************************************************************)
AtOption(opt) ==
    /\ pc = "options" /\ at <= Len(cmd.options)
    /\ option.opt = opt

\* -h, a file that cannot be opened, and a second -r end the command.
OptionEnds ==
    /\ pc = "options" /\ at <= Len(cmd.options)
    /\ \/ option.opt = "h"
       \/ option.opt # "r" /\ option.arg = None
       \/ option.opt = "r" /\ Given("r")
    /\ Exit

OptionValues ==
    /\ AtOption("r") /\ ~ Given("r")
    /\ at' = at + 1
    /\ UNCHANGED <<cmd, pc, buf, parserVars, keynote_errno, sessionVars, out>>

\* Where kvparse starts.
Parse(bytes, condition) ==
    /\ text' = bytes /\ pos' = 0
    /\ start' = condition
    /\ stack' = <<[state |-> 0, v |-> None]>>
    /\ token' = NoToken
    /\ pc' = "parse"

read_environment ==
    /\ AtOption("e") /\ option.arg # None
    /\ Parse(option.arg, "FIRSTPART")
    /\ UNCHANGED <<cmd, at, buf, keynote_errno, sessionVars, out>>

\* read(fd, buf, sb.st_size), into a new buffer if this one is too small.
Fresh_ExactFit(size) ==
    IF size > Len(buf) THEN [i \in 1 .. size + 1 |-> "zero"] ELSE buf
Fresh(size) ==
    IF size > Len(buf) - 1 THEN [i \in 1 .. size + 1 |-> "zero"] ELSE buf
Over(file, bytes) ==
    [i \in DOMAIN bytes |-> IF i <= Len(file) THEN file[i] ELSE bytes[i]]

\* The string in buf, up to its first zero byte.
String(bytes) ==
    SubSeq(bytes, 1, SelectInSeq(bytes, LAMBDA c : c = "zero") - 1)

parse_key ==
    /\ AtOption("k") /\ option.arg # None
    /\ buf' = Over(option.arg, Fresh(Len(option.arg)))
    /\ Parse(String(buf'), "KEYSTATE")
    /\ UNCHANGED <<cmd, at, keynote_errno, sessionVars, out>>

\* kn_add_assertion; an assertion that does not parse is only reported.
AddAssertion(file, local) ==
    /\ table' = IF file.kind = "unparsable" THEN table
                ELSE Append(table, [id |-> Len(table), kind |-> file.kind,
                                    local |-> local, error |-> FALSE,
                                    sigresult |-> "untouched"])
    /\ LET bytes == Fresh(file.size)
       IN  buf' = [i \in DOMAIN bytes |->
                       IF i <= file.size THEN "zero" ELSE bytes[i]]
    /\ keynote_errno' = "none"

OptionLocal ==
    /\ AtOption("l") /\ option.arg # None
    /\ AddAssertion(option.arg, TRUE)
    /\ at' = at + 1
    /\ UNCHANGED <<cmd, pc, parserVars, env, authorizers, out>>

\* Each of -r, -e, -k and -l has to be there.
EndOfOptions ==
    /\ pc = "options" /\ at > Len(cmd.options)
    /\ IF \A opt \in {"r", "e", "k", "l"} : Given(opt)
       THEN pc' = "operands" /\ at' = Len(cmd.operands)
       ELSE pc' = "exited" /\ at' = at
    /\ UNCHANGED <<cmd, buf, parserVars, keynote_errno, sessionVars, out>>

OperandEnds ==
    /\ pc = "operands" /\ at > 0 /\ cmd.operands[at] = None
    /\ Exit

\* The operands from the last to the first.
Operand ==
    /\ pc = "operands" /\ at > 0 /\ cmd.operands[at] # None
    /\ AddAssertion(cmd.operands[at], FALSE)
    /\ at' = at - 1
    /\ UNCHANGED <<cmd, pc, parserVars, env, authorizers, out>>

EndOfOperands ==
    /\ pc = "operands" /\ at = 0
    /\ pc' = "query"
    /\ UNCHANGED <<cmd, at, buf, parserVars, keynote_errno, sessionVars, out>>

-------------------------------------------------------------------------------
(***************************************************************************)
(* What the patterns of keynote-ver.l match in a text t, and what of it    *)
(* goes to the parser.                                                     *)
(***************************************************************************)
Blank(c) == c \in {"blank", "newline"}
InComment(t, from, n) ==
    \E j \in from + 1 .. n :
        t[j] = "hash" /\ \A i \in j .. n : t[i] # "newline"

\* Where the next token begins, behind blanks and maybe comments; past the end
\* if there is none.
Begin(t, from, comments) ==
    Min({n \in from + 1 .. Len(t) + 1 :
            n <= Len(t) => ~ Blank(t[n]) /\ ~ (comments /\ InComment(t, from, n))})

\* vstring and litstring, which may hold a line break only behind a backslash.
WordEnd(t, n) ==
    Max({m \in n .. Len(t) :
            \A i \in n .. m : t[i] \in Letters \union {"underscore"}})
Escaped(t, q, i) ==
    \E j \in q .. i - 1 : /\ t[j] # "backslash" /\ (i - j) % 2 = 0
                          /\ \A k \in j + 1 .. i - 1 : t[k] = "backslash"
StringEnds(t, q) ==
    {m \in q + 1 .. Len(t) :
        /\ t[m] = "quote" /\ ~ Escaped(t, q, m)
        /\ \A i \in q + 1 .. m - 1 :
               t[i] \in {"quote", "newline"} => Escaped(t, q, i)}

Class(t, n) ==
    CASE n > Len(t) -> "end"
      [] n <= Len(t) /\ t[n] \in Letters -> "word"
      [] n <= Len(t) /\ t[n] = "equals" -> "eq"
      [] n <= Len(t) /\ t[n] = "quote" /\ StringEnds(t, n) # {} -> "string"
      [] OTHER -> "stray"
End(t, n) ==
    CASE Class(t, n) = "word" -> WordEnd(t, n)
      [] Class(t, n) = "string" -> Max(StringEnds(t, n))
      [] OTHER -> n

\* mystrncpy (octal numbers aside, see KeyNoteKeys) copies a byte for each but
\* the backslashes that are not behind one, and the line breaks that are, with
\* the white space after them.
White(c) == c \in {"blank", "newline", "return"}
Dropped(t, q, i) ==
    \/ t[i] = "backslash" /\ ~ Escaped(t, q, i)
    \/ \E j \in q .. i : /\ t[j] = "newline" /\ Escaped(t, q, j)
                         /\ \A k \in j .. i : White(t[k])
Meant(c) ==
    CASE c = "n" -> "newline" [] c = "t" -> "blank" [] c \in {"r", "f"} -> "return"
      [] OTHER -> c
mystrncpy(t, q, last) ==
    LET copy == [i \in 1 .. last - q |->
                    IF Dropped(t, q, q + i) THEN "nothing"
                    ELSE IF Escaped(t, q, q + i) THEN Meant(t[q + i]) ELSE t[q + i]]
    IN  SelectSeq(copy, LAMBDA c : c # "nothing")

\* Of a string strlen(kvtext) - 2 bytes are copied, from the second: all but
\* the quotes, unless there is a zero byte in it.
LastCopied(t, q) ==
    LET zeros == {i \in q .. End(t, q) : t[i] = "zero"}
    IN  IF zeros = {} THEN End(t, q) - 1 ELSE Min(zeros) - 2

\* What a token says.
Value(t, n) ==
    CASE Class(t, n) = "word" -> SubSeq(t, n, End(t, n))
      [] Class(t, n) = "string" -> mystrncpy(t, n, LastCopied(t, n))
      [] OTHER -> None

-------------------------------------------------------------------------------
(***************************************************************************)
(* kvlex: the rules of keynote-ver.l, by start condition, and the one for  *)
(* anything else, which the parser takes for the end of the file.          *)
(***************************************************************************)
Rules_StayInSecond ==
    {[in |-> "FIRSTPART",  t |-> "word",   token |-> "VSTRING", next |-> "MIDDLEPART"],
     [in |-> "MIDDLEPART", t |-> "eq",     token |-> "EQ",      next |-> "SECONDPART"],
     [in |-> "SECONDPART", t |-> "string", token |-> "STRING",  next |-> "SECONDPART"],
     [in |-> "KEYSTATE",   t |-> "string", token |-> "STRING",  next |-> "FIRSTPART"]}
Rules ==
    {[in |-> "FIRSTPART",  t |-> "word",   token |-> "VSTRING", next |-> "MIDDLEPART"],
     [in |-> "MIDDLEPART", t |-> "eq",     token |-> "EQ",      next |-> "SECONDPART"],
     [in |-> "SECONDPART", t |-> "string", token |-> "STRING",  next |-> "FIRSTPART"],
     [in |-> "KEYSTATE",   t |-> "string", token |-> "STRING",  next |-> "FIRSTPART"]}

NeedsToken == Last(stack).state \in {0, 2, 3, 5, 7, 8}

kvlex ==
    /\ pc = "parse" /\ NeedsToken /\ token = NoToken
    /\ \E n \in {Begin(text, pos, start \in {"FIRSTPART", "KEYSTATE"})} :
       LET rules == {r \in Rules : r.in = start /\ r.t = Class(text, n)}
       IN  \/ /\ n > Len(text)
              /\ token' = [t |-> "$end", v |-> None]
              /\ pos' = Len(text)
              /\ UNCHANGED <<start, keynote_errno>>
           \/ /\ n <= Len(text) /\ rules = {}
              /\ token' = [t |-> "$end", v |-> None]
              /\ pos' = n
              /\ keynote_errno' = "SYNTAX"
              /\ UNCHANGED start
           \/ /\ \E r \in rules :
                     token' = [t |-> r.token, v |-> Value(text, n)] /\ start' = r.next
              /\ pos' = End(text, n)
              /\ UNCHANGED keynote_errno
    /\ UNCHANGED <<cmd, at, pc, buf, text, stack, sessionVars, out>>

-------------------------------------------------------------------------------
(***************************************************************************)
(* kvparse, for the grammar                                                *)
(*     2, 3  program: expr | STRING                                        *)
(*     4     expr: VSTRING EQ STRING                                       *)
(*     5, 6  expr: VSTRING EQ STRING @1 expr                               *)
(***************************************************************************)
Shifts == {<<0, "STRING", 1>>, <<0, "VSTRING", 2>>, <<2, "EQ", 5>>,
           <<3, "$end", 6>>, <<5, "STRING", 7>>, <<8, "VSTRING", 2>>}

\* The rule by which the parser reduces, if it does.
Reduction(state) ==
    CASE state = 1 -> {3} [] state = 4 -> {2} [] state = 9 -> {6}
      [] state = 7 -> {IF token.t = "VSTRING" THEN 5 ELSE 4}
      [] OTHER -> {}

PopLength(rule) ==
    CASE rule = 4 -> 3 [] rule = 5 -> 0 [] rule = 6 -> 5 [] OTHER -> 1
Goto(rule, state) ==
    CASE rule \in {2, 3} -> 3
      [] rule = 5 -> 8
      [] OTHER -> IF state = 8 THEN 9 ELSE 4

state == Last(stack).state
Ready == pc = "parse" /\ (NeedsToken => token # NoToken)

\* What the two callers of the parser make of its result.
Fails(ok, errno) ==
    IF option.opt = "e" THEN ~ ok ELSE ~ ok \/ errno # "none"

\* The parser returns; nothing of it is kept.
Returned(ok, errno) ==
    /\ keynote_errno' = IF option.opt = "k" /\ ~ ok /\ errno = "none"
                        THEN "SYNTAX" ELSE errno
    /\ pc' = IF Fails(ok, errno) THEN "exited" ELSE "options"
    /\ at' = IF Fails(ok, errno) THEN at ELSE at + 1
    /\ stack' = <<>>
    /\ token' = NoToken

\* A state goes on the stack, if there is room.
Push(st, value, errno, lookahead) ==
    IF Len(st) + 1 >= YYMAXDEPTH THEN Returned(FALSE, errno)
    ELSE /\ stack' = Append(st, value)
         /\ keynote_errno' = errno
         /\ token' = lookahead
         /\ UNCHANGED <<pc, at>>

Shift ==
    /\ Ready
    /\ \E s \in Shifts :
           /\ s[1] = state /\ s[2] = token.t
           /\ Push(stack, [state |-> s[3], v |-> token.v], keynote_errno,
                   NoToken)
    /\ UNCHANGED <<cmd, buf, text, pos, start, sessionVars, out>>

\* The actions of the rules: kn_add_action and kn_add_authorizer.
Adds(rule) ==
    LET last == Last(stack).v
        name == stack[Len(stack) - 2].v
    IN  /\ env' = IF rule \in {4, 5} THEN <<<<name, last>>>> \o env ELSE env
        /\ authorizers' = IF rule = 3 THEN <<last>> \o authorizers
                          ELSE authorizers

Reduce ==
    /\ Ready
    /\ \E rule \in Reduction(state) :
           LET left == SubSeq(stack, 1, Len(stack) - PopLength(rule))
               errno == IF rule \in {3, 4, 5} THEN "none" ELSE keynote_errno
           IN  /\ rule = 3 => Last(stack).v \in Keys
               /\ Adds(rule)
               /\ Push(left, [state |-> Goto(rule, Last(left).state),
                              v |-> None], errno, token)
    /\ UNCHANGED <<cmd, buf, text, pos, start, table, out>>

\* kn_add_authorizer refuses what is not a key.
ReduceFails ==
    /\ Ready
    /\ 3 \in Reduction(state) /\ Last(stack).v \notin Keys
    /\ Returned(FALSE, "SYNTAX")
    /\ UNCHANGED <<cmd, buf, text, pos, start, sessionVars, out>>

Accept ==
    /\ Ready /\ state = 6
    /\ Returned(TRUE, keynote_errno)
    /\ UNCHANGED <<cmd, buf, text, pos, start, sessionVars, out>>

\* No rule of this grammar has an error token: the first error ends the parse.
SyntaxError ==
    /\ Ready /\ state # 6
    /\ Reduction(state) = {}
    /\ ~ \E s \in Shifts : s[1] = state /\ s[2] = token.t
    /\ Returned(FALSE, keynote_errno)
    /\ UNCHANGED <<cmd, buf, text, pos, start, sessionVars, out>>
-------------------------------------------------------------------------------
(***************************************************************************)
(* The query and the report.                                               *)
(***************************************************************************)
Ids == {table[i].id : i \in DOMAIN table}

\* What the search leaves behind in the assertions it reaches: an error in the
\* conditions, or a verdict on the signature unless the value is 0 by then.
\* Licensees that do not parse are an error whether reached or not.
Searched(a, reached) ==
    [a EXCEPT !.error = \/ a.kind = "badlics"
                        \/ a.kind = "badcond" /\ a.id \in reached,
              !.sigresult = IF a.id \notin reached \/ a.kind = "badcond" THEN @
                            ELSE IF a.kind = "badsig" /\ ~ a.local THEN "false"
                            ELSE "true"]

\* There is no value above the lowest but from a POLICY (KeyNoteQuery).
Values(reached) ==
    IF \E i \in DOMAIN table : /\ table[i].id \in reached /\ table[i].local
                               /\ table[i].kind \in {"good", "badsig"}
    THEN DOMAIN ReturnValues
    ELSE {1}

\* The value is printed; on an error the process exits instead.
PrintResult_NoExit(p) ==
    /\ out' = Append(out, <<"Result", ReturnValues[p]>>)
    /\ pc' = "SYNTAX"
PrintResult(p) ==
    IF keynote_errno' = "none"
    THEN /\ out' = Append(out, <<"Result", ReturnValues[p]>>)
         /\ pc' = "SYNTAX"
    ELSE /\ out' = Append(out, <<"Result", "error">>)
         /\ pc' = "exited"

\* An Authorizer that does not parse makes the whole query fail.
kn_do_query ==
    /\ pc = "query"
    /\ \E reached \in SUBSET Ids, p \in DOMAIN ReturnValues :
           IF \E i \in DOMAIN table : table[i].kind = "badauth"
           THEN /\ keynote_errno' = "SYNTAX"
                /\ UNCHANGED table
                /\ PrintResult(p)
           ELSE /\ keynote_errno' = "none"
                /\ p \in Values(reached)
                /\ table' = [i \in DOMAIN table |-> Searched(table[i], reached)]
                /\ PrintResult(p)
    /\ UNCHANGED <<cmd, at, buf, parserVars, env, authorizers>>

\* kn_get_failed, for the kinds of failure that it is asked for in turn.
Classes == <<"SYNTAX", "SIGNATURE", "ANY">>
HasFailed_IfUnchecked(a, class) ==
    \/ class \in {"SYNTAX", "ANY"} /\ a.error
    \/ class \in {"SIGNATURE", "ANY"} /\ a.sigresult # "true" /\ ~ a.local
HasFailed(a, class) ==
    \/ class \in {"SYNTAX", "ANY"} /\ a.error
    \/ class \in {"SIGNATURE", "ANY"} /\ a.sigresult = "false" /\ ~ a.local

Without(id) == RemoveAt(table, SelectInSeq(table, LAMBDA a : a.id = id))

\* The first one of the hash table, whose order is any.
ReportFailed ==
    \E i \in DOMAIN table :
        /\ pc \in ToSet(Classes) /\ HasFailed(table[i], pc)
        /\ out' = Append(out, <<"Failed", table[i].id, pc>>)
        /\ table' = Without(table[i].id)
        /\ UNCHANGED <<cmd, at, pc, buf, parserVars, keynote_errno, env,
                       authorizers>>

NextClass_StartsOver ==
    /\ pc \in ToSet(Classes)
    /\ \A i \in DOMAIN table : ~ HasFailed(table[i], pc)
    /\ keynote_errno' = "NOTFOUND"
    /\ pc' = CASE pc = "SYNTAX" -> "SIGNATURE" [] pc = "SIGNATURE" -> "ANY"
               [] OTHER -> "SYNTAX"
    /\ UNCHANGED <<cmd, at, buf, parserVars, sessionVars, out>>
NextClass ==
    /\ pc \in ToSet(Classes)
    /\ \A i \in DOMAIN table : ~ HasFailed(table[i], pc)
    /\ keynote_errno' = "NOTFOUND"
    /\ pc' = CASE pc = "SYNTAX" -> "SIGNATURE" [] pc = "SIGNATURE" -> "ANY"
               [] OTHER -> "exited"
    /\ UNCHANGED <<cmd, at, buf, parserVars, sessionVars, out>>

\* The policy module: what follows the first "=" of the output.
IsAuthorized == out # <<>> /\ out[1] = <<"Result", "authorized">>

-------------------------------------------------------------------------------
Options ==
    \/ OptionEnds \/ OptionValues \/ read_environment \/ parse_key
    \/ OptionLocal \/ EndOfOptions
Operands == OperandEnds \/ Operand \/ EndOfOperands
kvparse == kvlex \/ Shift \/ Reduce \/ ReduceFails \/ Accept \/ SyntaxError
Report == ReportFailed \/ NextClass

Next == Options \/ kvparse \/ Operands \/ kn_do_query \/ Report

\* The process runs until it exits.
Spec == Init /\ [][Next]_vars /\ WF_vars(Next)

-------------------------------------------------------------------------------
AssertionType ==
    [id : Nat, kind : Kinds \ {"unparsable"}, local : BOOLEAN,
     error : BOOLEAN, sigresult : {"untouched", "true", "false"}]

\* The variables have their types; the parser's stack stays within its depth
\* and on its first state, and the string in the buffer has an end.
TypeOK ==
    /\ at \in 0 .. Len(cmd.options) + Len(cmd.operands) + 1
    /\ pc \in {"options", "parse", "operands", "query", "exited"}
                  \union ToSet(Classes)
    /\ buf \in Seq(Byte) /\ Last(buf) = "zero"
    /\ text \in Seq(Byte) /\ pos \in 0 .. Len(text)
    /\ start \in {"INITIAL", "FIRSTPART", "MIDDLEPART", "SECONDPART", "KEYSTATE"}
    /\ Len(stack) < YYMAXDEPTH
    /\ pc = "parse" => stack # <<>> /\ stack[1].state = 0
    /\ \A i \in 2 .. Len(stack) : stack[i].state \in 1 .. 9
    /\ token.t \in {"none", "$end", "STRING", "VSTRING", "EQ"}
    /\ keynote_errno \in {"none", "SYNTAX", "NOTFOUND"}
    /\ \A i \in DOMAIN env : Len(env[i]) = 2
    /\ authorizers \in Seq(Keys)
    /\ table \in Seq(AssertionType)

\* What a file of attributes says, read without start conditions and tables: a
\* pair is a word, "=" and a string, and the next one begins where it ends; what
\* comes after anything else is not said.  A pair is known by where it begins.
PairName(file, from) == Begin(file, from, TRUE)
PairEquals(file, from) ==
    Begin(file, End(file, PairName(file, from)), FALSE)
PairString(file, from) ==
    Begin(file, End(file, PairEquals(file, from)), FALSE)
IsPair(file, from) ==
    /\ Class(file, PairName(file, from)) = "word"
    /\ Class(file, PairEquals(file, from)) = "eq"
    /\ Class(file, PairString(file, from)) = "string"
PairEnd(file, from) == End(file, PairString(file, from))
Pair(file, from) ==
    <<Value(file, PairName(file, from)), Value(file, PairString(file, from))>>

\* From one pair to the next, and those that are met from the start of the file.
Steps(file) ==
    {<<n, PairEnd(file, n)>> : n \in {m \in 0 .. Len(file) : IsPair(file, m)}}
Closed(steps) ==
    {S \in SUBSET ({0} \union {s[2] : s \in steps}) :
        0 \in S /\ \A s \in steps : s[1] \in S => s[2] \in S}
PairsIn(file) ==
    LET steps == Steps(file)
    IN  {n \in {s[1] : s \in steps} : \A S \in Closed(steps) : n \in S}

\* What is in the buffer for option i: of its own file and of earlier ones, at
\* each place what was written there last.  Assertions leave zeros.
OptionsWith(opt) == {i \in DOMAIN cmd.options : cmd.options[i].opt = opt}
FileSize(i) ==
    IF i \in OptionsWith("k") THEN Len(cmd.options[i].arg) ELSE cmd.options[i].arg.size
Writers(i, n) ==
    {j \in OptionsWith("k") \union OptionsWith("l") : j <= i /\ n <= FileSize(j)}
Written(i, n) ==
    IF Writers(i, n) = {} \/ Max(Writers(i, n)) \in OptionsWith("l") THEN "zero"
    ELSE cmd.options[Max(Writers(i, n))].arg[n]
KeyText(i) ==
    LET written == UNION {1 .. FileSize(j) : j \in Writers(i, 1)}
    IN  [n \in {m \in written : \A k \in 1 .. m : Written(i, k) # "zero"} |->
            Written(i, n)]

\* The key that a text is: one string, and nothing but blanks and comments.
KeysIn(t) ==
    {Value(t, q) : q \in {n \in {Begin(t, 0, TRUE)} :
                             /\ Class(t, n) = "string"
                             /\ Begin(t, End(t, n), TRUE) > Len(t)}}

\* Where the pairs are: in which option, and there from where on.
PairPlaces ==
    UNION {{<<i, n>> : n \in PairsIn(cmd.options[i].arg)} : i \in OptionsWith("e")}
Before(p, q) == p[1] < q[1] \/ (p[1] = q[1] /\ p[2] < q[2])

\* Where the assertions are: the options, and behind them the operands, which
\* are gone over from the last to the first.
FileAt(p) ==
    IF p <= Len(cmd.options) THEN cmd.options[p].arg
    ELSE cmd.operands[Len(cmd.options) + Len(cmd.operands) + 1 - p]
AssertionAt(p) == [kind |-> FileAt(p).kind, local |-> p <= Len(cmd.options)]
AssertionPlaces ==
    {p \in 1 .. Len(cmd.options) + Len(cmd.operands) :
        /\ p <= Len(cmd.options) => p \in OptionsWith("l")
        /\ FileAt(p) # None /\ FileAt(p).kind # "unparsable"}

\* The n places at which there is something, in their order.
Places(n, P) ==
    {l \in [1 .. n -> P] : /\ Range(l) = P
                           /\ \A i, j \in 1 .. n : i < j => l[i] < l[j]}
LastFirst(n, P) ==
    {l \in [1 .. n -> P] : /\ Range(l) = P
                           /\ \A i, j \in 1 .. n : i < j => Before(l[j], l[i])}

\* The query is asked about what the files say: the attributes are the pairs of
\* the -e files, the one that comes last found first, up to what is not a pair;
\* the keys that ask are, for each -k file, the one string of that file followed
\* by what of earlier files it is too short to cover; only the -l files are
\* trusted (keynote_verify, kvlex, kvparse).
QueryIsAboutTheFiles ==
    pc = "query" =>
        /\ \E l \in LastFirst(Len(env), PairPlaces) : \A i \in DOMAIN env :
               env[i] = Pair(cmd.options[l[i][1]].arg, l[i][2])
        /\ \A i \in OptionsWith("k") : KeysIn(KeyText(i)) # {}
        /\ ToSet(authorizers) = UNION {KeysIn(KeyText(i)) : i \in OptionsWith("k")}
        /\ \E l \in Places(Len(table), AssertionPlaces) : \A i \in DOMAIN table :
               [kind |-> table[i].kind, local |-> table[i].local]
                   = AssertionAt(l[i])

\* A policy module that reads a grant reads the value of a query, over a
\* session with all that a query needs, in which every Authorizer is one and a
\* policy holds: not an error, nor a value printed for want of one.
GrantsHaveGrounds ==
    pc = "exited" /\ IsAuthorized /\ ReturnValues[1] # "authorized" =>
        /\ authorizers # <<>> /\ env # <<>>
        /\ \A p \in AssertionPlaces : AssertionAt(p).kind # "badauth"
        /\ \E p \in AssertionPlaces :
               AssertionAt(p).local /\ AssertionAt(p).kind \in {"good", "badsig"}

\* When the command ends after a value, every assertion that failed has been
\* reported, once and for what is wrong with it, and nothing else was removed
\* to get there (kn_get_failed and kn_remove_assertion in three loops).
FailuresAreReported ==
    LET reports == {i \in DOMAIN out : out[i][1] = "Failed"}
        number == Cardinality(reports) + Len(table)
    IN  pc = "exited" /\ keynote_errno = "NOTFOUND" =>
            /\ \E l \in Places(number, AssertionPlaces) : \A i \in reports :
                   \/ /\ out[i][3] = "SYNTAX"
                      /\ AssertionAt(l[out[i][2] + 1]).kind \in {"badlics", "badcond"}
                   \/ /\ out[i][3] = "SIGNATURE"
                      /\ AssertionAt(l[out[i][2] + 1]).kind = "badsig"
            /\ {out[i][2] : i \in reports} \union Ids = 0 .. number - 1
            /\ \A i \in DOMAIN table : ~ HasFailed(table[i], "ANY")

\* Whatever the files hold, the command ends.
CommandEnds == <>(pc = "exited")
===============================================================================
