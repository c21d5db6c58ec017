---------------------------- MODULE KeyNoteGrammar ----------------------------
(***************************************************************************)
(* How the KeyNote library gives the Conditions and the Licensees field of *)
(* an assertion their values (keynote.y, of which k.tab.c is the parser):  *)
(* no program is kept, its value is worked out by the actions of the       *)
(* grammar while it is parsed.  Everything is parsed, so that what must    *)
(* not be evaluated is passed over with a flag up: keynote_donteval in the *)
(* right operand of a decided && or ||, keynote_exceptionflag after a      *)
(* runtime error.  The Licensees are parsed twice: when the assertion is   *)
(* added, to record the keys in them (keynote_justrecord), and when their  *)
(* value is asked for.                                                     *)
(*                                                                         *)
(* A test is a tuple whose first element is its operator; a clause is      *)
(* [test, hint], whose hint is <<>>, or a string expression, or <<"block", *)
(* clauses>>.  A licensees expression is a tuple too, of "key", "both",    *)
(* "either" and "kof".  Code and KeyCode list the actions in the order of  *)
(* a bottom-up parse, and a step of the specification is one of them.  The *)
(* value stack of the parser is kept as two, ints and strs, since the      *)
(* grammar has the type of each symbol; a float is on ints as a number of  *)
(* quarters, so that only * / ^ and & of floats differ from those of ints. *)
(*                                                                         *)
(* Numbers are small, so that no int overflows and every float is a number *)
(* of quarters.  Running out of memory is left out.  Keys are compared in  *)
(* KeyNoteKeys, and are strings here.                                      *)
(***************************************************************************)
EXTENDS Integers, SequencesExt

CONSTANTS
    ks_values,      \* the names of the compliance values, the lowest first
    Action,         \* the action environment, a function of names
    Strings,        \* every string that may come up
    Rank,           \* the place of each of them in the order of strcmp
    Number(_),      \* the value of a string as a number: isfloatstring,
    Float(_),       \* atof, and floor or quarters
    BadRegexps,     \* what regcomp refuses
    Regexec(_, _),  \* {}, or {f} with f the variables _0, _1, ... of a match
    Authorizers,    \* ks_action_authorizers: the keys that ask
    Assertions,     \* [auth, done, result] of the session's assertions
    BadKeys,        \* what kn_decode_key refuses
    Texts           \* [locals, field, body]: Local-Constants and one more
                    \* field of an assertion, "conditions" or "licensees"

NULL == "NULL"
Value == 0 .. Len(ks_values) - 1
Top == Len(ks_values) - 1

ASSUME GrammarAssumption ==
    /\ ks_values \in Seq(Strings) \ {<<>>}
    /\ "" \in Strings /\ NULL \notin Strings
    /\ \A n \in DOMAIN Action : Action[n] \in Strings
    /\ Rank \in [Strings -> Nat]
    /\ \A a \in Assertions : a.result \in Value /\ a.done \in BOOLEAN

VARIABLES
    text,               \* the assertion
    pc,
    keynote_init_list,  \* its Local-Constants, a sequence of <<name, value>>
    code,               \* the actions that are left
    ints, strs,         \* the value stack of the parser
    exceptionflag,      \* keynote_exceptionflag
    donteval,           \* keynote_donteval
    temp_list,          \* keynote_temp_list: what the last regexp matched
    returnvalue,        \* keynote_returnvalue
    used_variable,      \* keynote_used_variable
    keylist,            \* keynote_keypred_keylist, then as_keylist
    keylistcount,       \* how many keys the threshold has listed
    kth_array           \* keynote_kth_array: how many keys have each value

flags == <<exceptionflag, donteval>>
stacks == <<ints, strs>>
threshold == <<keylistcount, kth_array>>
keyVars == <<used_variable, keylist, threshold>>
vars == <<text, pc, keynote_init_list, code, stacks, flags, temp_list,
          returnvalue, keyVars>>

NoGroups == <<>>    \* the function with no variables
Truth(b) == IF b THEN 1 ELSE 0
Maximum(x, y) == IF x > y THEN x ELSE y
Minimum(x, y) == IF x > y THEN y ELSE x

-------------------------------------------------------------------------------
(* The order of the grammar's actions. *)

Unary == {"not", "neg", "@", "&", "$"}
Relational == {"<", ">", "<=", ">=", "==", "!="}
OnStrings == {"eq", "ne", "lt", "gt", "le", "ge"}
Binary == {"+", "-", "*", "/", "%", "^", "f*", "f/", "f^", "~=", "."}
              \union Relational \union OnStrings

RECURSIVE Code(_)
Code(e) ==
    CASE e[1] \in Unary -> Code(e[2]) \o <<<<e[1]>>>>
      [] e[1] \in Binary -> Code(e[2]) \o Code(e[3]) \o <<<<e[1]>>>>
      [] e[1] \in {"&&", "||"} ->
             Code(e[2]) \o <<<<"left", e[1]>>>> \o Code(e[3]) \o <<<<e[1]>>>>
      [] OTHER -> <<e>>

RECURSIVE ProgCode(_)
ProgCode(p) ==
    IF p = <<>> THEN <<<<"nada">>>>
    ELSE LET test == Code(p[1].test)
             hint == p[1].hint
         IN  (CASE hint = <<>> -> test \o <<<<"test">>>>
                [] hint # <<>> /\ hint[1] = "block" ->
                       test \o ProgCode(hint[2]) \o <<<<"clause">>>>
                [] OTHER -> test \o Code(hint) \o <<<<"hint">>, <<"clause">>>>)
             \o <<<<"cleanup">>>> \o ProgCode(Tail(p)) \o <<<<"prog">>>>

\* keylist is right recursive: its actions come after all of its keys.
RECURSIVE KeyCode(_)
KeyCode(e) ==
    IF e = <<>> THEN <<<<"nokeys">>>>
    ELSE CASE e[1] = "key" -> Code(e[2]) \o <<<<"key">>>>
           [] e[1] \in {"both", "either"} ->
                  KeyCode(e[2]) \o <<<<"leftkey", e[1]>>>>
                      \o KeyCode(e[3]) \o <<<<e[1]>>>>
           [] e[1] = "kof" ->
                  <<<<"of", e[2]>>>>
                      \o FlattenSeq([i \in DOMAIN e[3] |-> KeyCode(e[3][i])])
                      \o [i \in DOMAIN e[3] |-> <<"item">>] \o <<<<"kth">>>>

CodeOf(t) ==
    CASE t.field = "conditions" -> ProgCode(t.body)
      [] t.field = "licensees" -> KeyCode(t.body)

-------------------------------------------------------------------------------
(* What an action does with values. *)

Constants(list, name) == {i \in DOMAIN list : list[i][1] = name}

\* my_lookup in the action environment env, with "" for what is not there.
IsLocal(name, groups, locals) ==
    name \in DOMAIN groups \/ Constants(locals, name) # {}
LocalValue(name, groups, locals) ==
    IF name \in DOMAIN groups THEN groups[name]
    ELSE locals[CHOOSE i \in Constants(locals, name) : TRUE][2]

my_lookup_Null(name, groups, locals, env) ==
    CASE IsLocal(name, groups, locals) -> LocalValue(name, groups, locals)
      [] ~ IsLocal(name, groups, locals) ->
             IF name \in DOMAIN env THEN env[name] ELSE NULL
my_lookup(name, groups, locals, env) ==
    CASE name = "_MIN_TRUST" -> ks_values[1]
      [] name = "_MAX_TRUST" -> Last(ks_values)
      [] name \notin {"_MIN_TRUST", "_MAX_TRUST"} ->
             IF IsLocal(name, groups, locals)
             THEN LocalValue(name, groups, locals)
             ELSE IF name \in DOMAIN env THEN env[name] ELSE ""

\* keynote_used_variable goes up: the look-up went past the constants.
UsesVariable_IfThere(name, groups, locals) ==
    ~ IsLocal(name, groups, locals) /\ name \notin DOMAIN Action
UsesVariable(name, groups, locals) ==
    \/ name \in {"_MIN_TRUST", "_MAX_TRUST"}
    \/ ~ IsLocal(name, groups, locals)

\* keynote_retindex, and 0 for what is no value.
retindex_FromOne(s) == SelectInSeq(ks_values, LAMBDA v : v = s)
retindex(s) == Maximum(SelectInSeq(ks_values, LAMBDA v : v = s) - 1, 0)

\* C's / and %, which round towards zero.
Quotient(x, y) ==
    LET q == (IF x < 0 THEN -x ELSE x) \div (IF y < 0 THEN -y ELSE y)
    IN  IF (x < 0) = (y < 0) THEN q ELSE -q
Remainder(x, y) == x - y * Quotient(x, y)

\* intpow: s * x^y by squaring, for y no more than 2^4.
intpow(x, y) ==
    LET loop[n \in 0 .. 5] ==
            IF n = 0 THEN [s |-> 1, x |-> x, y |-> y]
            ELSE LET l == loop[n - 1] IN
                 IF l.y = 0 THEN l
                 ELSE [s |-> IF l.y % 2 = 1 THEN l.s * l.x ELSE l.s,
                       x |-> l.x * l.x, y |-> l.y \div 2]
    IN  IF y < 0 THEN 0 ELSE loop[5].s

Arithmetic(op, x, y) ==
    CASE op = "+" -> x + y
      [] op = "-" -> x - y
      [] op = "*" -> x * y
      [] op = "f*" -> (x * y) \div 4

\* pow, of whole numbers.
pow(x, y) == 4 * intpow(x \div 4, y \div 4)

Comparison(op, x, y) ==
    CASE op \in {"<", "lt"} -> x < y
      [] op \in {">", "gt"} -> x > y
      [] op \in {"<=", "le"} -> x <= y
      [] op \in {">=", "ge"} -> x >= y
      [] op \in {"==", "eq"} -> x = y
      [] op \in {"!=", "ne"} -> x # y

-------------------------------------------------------------------------------
(* The values of keys. *)

\* resolve_assertion: the highest value of the assertions by s.
resolve_assertion(s) ==
    Max({0} \union {a.result : a \in {b \in Assertions : b.auth = s /\ b.done}})

KeyValue(s) == IF s \in Authorizers THEN Top ELSE resolve_assertion(s)

\* get_kth: the k-th highest of the values that are counted.
get_kth_Next(k) ==
    Max({0} \union {v \in Value :
                FoldFunctionOnSet(+, 0, kth_array, v .. Top) > k})
get_kth(k) ==
    Max({0} \union {v \in Value :
                FoldFunctionOnSet(+, 0, kth_array, v .. Top) >= k})

-------------------------------------------------------------------------------
Init ==
    /\ text \in Texts
    /\ pc = "locals"
    /\ keynote_init_list = <<>>
    /\ code = CodeOf(text)
    /\ ints = <<>>
    /\ strs = <<>>
    /\ exceptionflag = FALSE
    /\ donteval = FALSE
    /\ temp_list = NoGroups
    /\ returnvalue = 0
    /\ used_variable = FALSE
    /\ keylist = <<>>
    /\ keylistcount = 0
    /\ kth_array = <<>>

-------------------------------------------------------------------------------
(* The Local-Constants are parsed first, when the assertion is added. *)

Underscored == {"_0", "_1", "_MIN_TRUST", "_MAX_TRUST"}
NextLocal == text.locals[Len(keynote_init_list) + 1]
IsLegal(c) ==
    /\ c[1] \notin Underscored
    /\ Constants(keynote_init_list, c[1]) = {}

LocalConstant ==
    /\ pc = "locals"
    /\ Len(keynote_init_list) < Len(text.locals)
    /\ IF IsLegal(NextLocal)
       THEN /\ keynote_init_list' = <<NextLocal>> \o keynote_init_list
            /\ pc' = pc
       ELSE /\ pc' = "rejected"
            /\ keynote_init_list' = <<>>
    /\ UNCHANGED <<text, code, stacks, flags, temp_list, returnvalue, keyVars>>

\* The parser is started on a field: grammarswitch.
Start ==
    /\ exceptionflag' = FALSE
    /\ donteval' = FALSE
    /\ returnvalue' = 0
    /\ used_variable' = FALSE
    /\ UNCHANGED <<text, keynote_init_list, stacks, temp_list>>

\* keynote_evaluate_assertion starts it on the Conditions.
StartConditions ==
    /\ pc = "locals"
    /\ text.field = "conditions"
    /\ Len(keynote_init_list) = Len(text.locals)
    /\ pc' = "conditions"
    /\ Start
    /\ UNCHANGED <<code, keylist, threshold>>

\* keynote_parse_keypred does on the Licensees, to record the keys ...
RecordLicensees ==
    /\ pc = "locals"
    /\ text.field = "licensees"
    /\ Len(keynote_init_list) = Len(text.locals)
    /\ pc' = "record"
    /\ Start
    /\ UNCHANGED <<code, keylist, threshold>>

\* ... and once more, after a parse without an error, for their value.
StartLicensees ==
    /\ pc = "record"
    /\ code = <<>>
    /\ pc' = "licensees"
    /\ code' = CodeOf(text)
    /\ exceptionflag' = FALSE
    /\ donteval' = FALSE
    /\ returnvalue' = 0
    /\ used_variable' = FALSE
    /\ ints' = <<>>
    /\ UNCHANGED <<text, keynote_init_list, strs, temp_list, keylist, threshold>>

-------------------------------------------------------------------------------
(***************************************************************************)
(* The actions of the grammar for tests and strings.                       *)
(***************************************************************************)
Comes(ops) ==
    /\ pc \in {"conditions", "record", "licensees"}
    /\ code # <<>>
    /\ code[1][1] \in ops
    /\ code' = Tail(code)
    /\ UNCHANGED <<text, keynote_init_list, returnvalue>>
Reduce(ops) == Comes(ops) /\ UNCHANGED <<pc, keyVars>>

op == code[1][1]
operand == code[1][2]
int(k) == ints[Len(ints) + 1 - k]    \* the k-th from the top
str(k) == strs[Len(strs) + 1 - k]

\* The top n values of a stack give way to v.
Replace(stack, n, v) == Append(SubSeq(stack, 1, Len(stack) - n), v)
Drop(stack, n) == SubSeq(stack, 1, Len(stack) - n)

Skipping == exceptionflag \/ donteval

Literal ==
    /\ Reduce({"num", "float", "true", "false"})
    /\ ints' = Append(ints, CASE op \in {"num", "float"} -> operand
                             [] op = "true" -> 1
                             [] op = "false" -> 0)
    /\ UNCHANGED <<strs, flags, temp_list>>

\* The lexer copies a string or a name only if it is to be evaluated.
Lexed(s) == IF Skipping THEN NULL ELSE s

StringLiteral ==
    /\ Reduce({"str"})
    /\ strs' = Append(strs, Lexed(operand))
    /\ UNCHANGED <<ints, flags, temp_list>>

LookUp(name) ==
    /\ strs' = Append(IF op = "$" THEN Drop(strs, 1) ELSE strs,
           IF Skipping THEN NULL
           ELSE my_lookup(name, temp_list, keynote_init_list, Action))
    /\ used_variable' =
           \/ used_variable
           \/ ~ Skipping /\ UsesVariable(name, temp_list, keynote_init_list)
    /\ UNCHANGED <<pc, ints, flags, temp_list, keylist, threshold>>

Variable == Comes({"var"}) /\ LookUp(operand)

Dereference == Comes({"$"}) /\ LookUp(str(1))

Concatenation ==
    /\ Reduce({"."})
    /\ strs' = Replace(strs, 2, IF Skipping THEN NULL ELSE str(2) \o str(1))
    /\ UNCHANGED <<ints, flags, temp_list>>

ToNumber ==
    /\ Reduce({"@"})
    /\ ints' = Append(ints, IF Skipping THEN 0 ELSE Number(str(1)))
    /\ strs' = Drop(strs, 1)
    /\ UNCHANGED <<flags, temp_list>>

ToFloat ==
    /\ Reduce({"&"})
    /\ ints' = Append(ints, IF Skipping THEN 0 ELSE Float(str(1)))
    /\ strs' = Drop(strs, 1)
    /\ UNCHANGED <<flags, temp_list>>

NumericOperation ==
    /\ Reduce({"+", "-", "*", "^", "f*"})
    /\ ints' = Replace(ints, 2, IF op = "^" THEN intpow(int(2), int(1))
                                ELSE Arithmetic(op, int(2), int(1)))
    /\ UNCHANGED <<strs, flags, temp_list>>

\* Where it is passed over, the value is the one that $$ has by default.
FloatPower ==
    /\ Reduce({"f^"})
    /\ ints' = Replace(ints, 2, IF Skipping THEN int(2) ELSE pow(int(2), int(1)))
    /\ UNCHANGED <<strs, flags, temp_list>>

UnaryMinus ==
    /\ Reduce({"neg"})
    /\ ints' = Replace(ints, 1, -int(1))
    /\ UNCHANGED <<strs, flags, temp_list>>

\* After a division by zero the value is the one that $$ has by default, the
\* dividend.
Divided ==
    ints' = Replace(ints, 2,
        CASE int(1) = 0 -> int(2)
          [] int(1) # 0 /\ op = "/" -> Quotient(int(2), int(1))
          [] int(1) # 0 /\ op = "%" -> Remainder(int(2), int(1))
          [] int(1) # 0 /\ op = "f/" -> Quotient(4 * int(2), int(1)))
Divide_Always ==
    /\ Reduce({"/", "%", "f/"})
    /\ exceptionflag' = (exceptionflag \/ int(1) = 0)
    /\ Divided
    /\ UNCHANGED <<strs, donteval, temp_list>>
Divide ==
    /\ Reduce({"/", "%", "f/"})
    /\ exceptionflag' = (exceptionflag \/ (int(1) = 0 /\ ~ donteval))
    /\ Divided
    /\ UNCHANGED <<strs, donteval, temp_list>>

CompareNumbers ==
    /\ Reduce(Relational)
    /\ ints' = Replace(ints, 2, Truth(Comparison(op, int(2), int(1))))
    /\ UNCHANGED <<strs, flags, temp_list>>

CompareStrings ==
    /\ Reduce(OnStrings)
    /\ ints' = Append(ints, IF Skipping THEN 0 ELSE
                                Truth(Comparison(op, Rank[str(2)], Rank[str(1)])))
    /\ strs' = Drop(strs, 2)
    /\ UNCHANGED <<flags, temp_list>>

SkipRegexp ==
    /\ Reduce({"~="})
    /\ Skipping
    /\ ints' = Append(ints, 0)
    /\ strs' = Drop(strs, 2)
    /\ UNCHANGED <<flags, temp_list>>

\* regcomp fails: $$ stays what the pointer to the freed string makes of it.
RegexpFails ==
    /\ Reduce({"~="})
    /\ ~ Skipping
    /\ str(1) \in BadRegexps
    /\ exceptionflag' = TRUE
    /\ \E garbage \in {0, 1} : ints' = Append(ints, garbage)
    /\ strs' = Drop(strs, 2)
    /\ UNCHANGED <<donteval, temp_list>>

\* A match replaces the variables of the one before it.
MatchRegexp ==
    /\ Reduce({"~="})
    /\ ~ Skipping
    /\ str(1) \notin BadRegexps
    /\ LET matched == Regexec(str(2), str(1)) IN
           /\ ints' = Append(ints, Truth(matched # {}))
           /\ temp_list' = IF matched = {} THEN NoGroups
                           ELSE CHOOSE groups \in matched : TRUE
    /\ strs' = Drop(strs, 2)
    /\ UNCHANGED flags

\* Between the operands of && and ||.
LeftOperand ==
    /\ Reduce({"left"})
    /\ donteval' = (donteval \/ IF operand = "&&" THEN int(1) = 0
                                                 ELSE int(1) # 0)
    /\ UNCHANGED <<stacks, exceptionflag, temp_list>>

AndOr_LeavesFlag ==
    /\ Reduce({"&&", "||"})
    /\ ints' = Replace(ints, 2,
           Truth(IF op = "&&" THEN int(2) # 0 /\ int(1) # 0
                 ELSE int(2) # 0 \/ int(1) # 0))
    /\ UNCHANGED <<strs, flags, temp_list>>
AndOr ==
    /\ Reduce({"&&", "||"})
    /\ ints' = Replace(ints, 2,
           Truth(IF op = "&&" THEN int(2) # 0 /\ int(1) # 0
                 ELSE int(2) # 0 \/ int(1) # 0))
    /\ donteval' = FALSE
    /\ UNCHANGED <<strs, exceptionflag, temp_list>>

Not ==
    /\ Reduce({"not"})
    /\ ints' = Replace(ints, 1, Truth(int(1) = 0))
    /\ UNCHANGED <<strs, flags, temp_list>>

\* afterhint: the value a clause gives if its test holds.
Hint ==
    /\ Reduce({"hint"})
    /\ ints' = Append(ints, IF Skipping THEN 0 ELSE retindex(str(1)))
    /\ strs' = Drop(strs, 1)
    /\ UNCHANGED <<flags, temp_list>>

checkexception(i) == IF exceptionflag THEN 0 ELSE i

\* A clause without a value, and one with a value, which is on the stack
\* above that of the test.
Test ==
    /\ Reduce({"test"})
    /\ ints' = Replace(ints, 1,
           IF checkexception(int(1)) # 0 THEN Top ELSE 0)
    /\ exceptionflag' = FALSE
    /\ UNCHANGED <<strs, donteval, temp_list>>

Clause ==
    /\ Reduce({"clause"})
    /\ ints' = Replace(ints, 2,
           IF checkexception(int(2)) # 0 THEN int(1) ELSE 0)
    /\ exceptionflag' = FALSE
    /\ UNCHANGED <<strs, donteval, temp_list>>

\* The end of a clause: what its regexps matched is forgotten.
EndOfClause ==
    /\ Reduce({"cleanup"})
    /\ temp_list' = NoGroups
    /\ UNCHANGED <<stacks, flags>>

\* The end of a sequence of clauses, and the highest value of two.
NoClause ==
    /\ Reduce({"nada"})
    /\ ints' = Append(ints, 0)
    /\ UNCHANGED <<strs, flags, temp_list>>

Highest ==
    /\ Reduce({"prog"})
    /\ ints' = Replace(ints, 2, Maximum(int(2), int(1)))
    /\ UNCHANGED <<strs, flags, temp_list>>

-------------------------------------------------------------------------------
(***************************************************************************)
(* The actions of the grammar for the Licensees.                           *)
(***************************************************************************)
Evaluating == pc = "licensees" /\ ~ donteval

\* The rule for a key: passed over, recorded, or evaluated.
SkipKey ==
    /\ Reduce({"key"})
    /\ donteval
    /\ ints' = Append(ints, 0)
    /\ strs' = Drop(strs, 1)
    /\ UNCHANGED <<flags, temp_list>>

KeyFails ==
    /\ Comes({"key"})
    /\ ~ donteval
    /\ str(1) \in BadKeys
    /\ pc' = "rejected"
    /\ strs' = Drop(strs, 1)
    /\ keylist' = <<>>
    /\ UNCHANGED <<ints, flags, temp_list, used_variable, threshold>>

RecordKey ==
    /\ Comes({"key"})
    /\ ~ donteval
    /\ pc = "record"
    /\ str(1) \notin BadKeys
    /\ keylist' = <<str(1)>> \o keylist
    /\ ints' = Append(ints, 0)
    /\ strs' = Drop(strs, 1)
    /\ UNCHANGED <<pc, flags, temp_list, used_variable, threshold>>

EvaluateKey ==
    /\ Reduce({"key"})
    /\ Evaluating
    /\ str(1) \notin BadKeys
    /\ ints' = Append(ints, KeyValue(str(1)))
    /\ strs' = Drop(strs, 1)
    /\ UNCHANGED <<flags, temp_list>>

\* Between the operands of && and ||.
IsDecided == int(1) = (IF operand = "both" THEN 0 ELSE Top)
LeftLicensees_WhileRecording ==
    /\ Reduce({"leftkey"})
    /\ donteval' = (donteval \/ IsDecided)
    /\ UNCHANGED <<stacks, exceptionflag, temp_list>>
LeftLicensees ==
    /\ Reduce({"leftkey"})
    /\ donteval' = (donteval \/ (pc = "licensees" /\ IsDecided))
    /\ UNCHANGED <<stacks, exceptionflag, temp_list>>

AndOrLicensees ==
    /\ Reduce({"both", "either"})
    /\ ints' = Replace(ints, 2, IF op = "both" THEN Minimum(int(2), int(1))
                                               ELSE Maximum(int(2), int(1)))
    /\ donteval' = FALSE
    /\ UNCHANGED <<strs, exceptionflag, temp_list>>

\* A threshold: its number and the parenthesis, each key that it lists, and
\* its end.
Threshold ==
    /\ Comes({"of"})
    /\ ints' = Append(ints, operand)
    /\ keylistcount' = 0
    /\ kth_array' = IF Evaluating THEN [v \in Value |-> 0] ELSE kth_array
    /\ UNCHANGED <<pc, strs, flags, temp_list, used_variable, keylist>>

CountKey ==
    /\ Comes({"item"})
    /\ ints' = Drop(ints, 1)
    /\ keylistcount' = keylistcount + 1
    /\ kth_array' = IF Evaluating THEN [kth_array EXCEPT ![int(1)] = @ + 1]
                                   ELSE kth_array
    /\ UNCHANGED <<pc, strs, flags, temp_list, used_variable, keylist>>

TooFewKeys ==
    /\ Comes({"kth"})
    /\ keylistcount < int(1)
    /\ pc' = "rejected"
    /\ keylist' = <<>>
    /\ UNCHANGED <<stacks, flags, temp_list, used_variable, threshold>>

ThresholdEnds ==
    /\ Reduce({"kth"})
    /\ keylistcount >= int(1)
    /\ ints' = Replace(ints, 1, IF Evaluating THEN get_kth(int(1)) ELSE 0)
    /\ UNCHANGED <<strs, flags, temp_list>>

\* The field is empty.
NoKeys ==
    /\ Reduce({"nokeys"})
    /\ ints' = Append(ints, 0)
    /\ UNCHANGED <<strs, flags, temp_list>>

\* The field is done; keynote_evaluate_assertion or keynote_parse_keypred
\* cleans up.
Return ==
    /\ pc \in {"conditions", "licensees"}
    /\ code = <<>>
    /\ returnvalue' = int(1)
    /\ pc' = "returned"
    /\ ints' = <<>>
    /\ temp_list' = NoGroups
    /\ kth_array' = <<>>
    /\ UNCHANGED <<text, keynote_init_list, code, strs, flags, used_variable,
                   keylist, keylistcount>>

Next ==
    \/ LocalConstant \/ StartConditions \/ RecordLicensees \/ StartLicensees
    \/ Literal \/ StringLiteral \/ Variable \/ Dereference \/ Concatenation
    \/ ToNumber \/ ToFloat \/ NumericOperation \/ FloatPower \/ UnaryMinus
    \/ Divide
    \/ CompareNumbers \/ CompareStrings
    \/ SkipRegexp \/ RegexpFails \/ MatchRegexp
    \/ LeftOperand \/ AndOr \/ Not
    \/ Hint \/ Test \/ Clause \/ EndOfClause \/ NoClause \/ Highest
    \/ SkipKey \/ KeyFails \/ RecordKey \/ EvaluateKey
    \/ LeftLicensees \/ AndOrLicensees
    \/ Threshold \/ CountKey \/ TooFewKeys \/ ThresholdEnds \/ NoKeys
    \/ Return

Spec == Init /\ [][Next]_vars

-------------------------------------------------------------------------------
\* The type invariant; no string with which the parser works is NULL but those
\* that the lexer did not copy.
TypeOK ==
    /\ text \in Texts
    /\ pc \in {"locals", "rejected", "conditions", "record", "licensees",
              "returned"}
    /\ \A i \in DOMAIN keynote_init_list :
           keynote_init_list[i][2] \in Strings
    /\ ints \in Seq(Int)
    /\ strs \in Seq(Strings \union {NULL})
    /\ flags \in BOOLEAN \X BOOLEAN
    /\ \A n \in DOMAIN temp_list : temp_list[n] \in Strings
    /\ returnvalue \in Value
    /\ used_variable \in BOOLEAN
    /\ keylist \in Seq(Strings)
    /\ keylistcount \in Nat
    /\ kth_array \in {<<>>} \union [Value -> Nat]

\* A string that was not copied is there only while a flag says not to use
\* it: the flags cannot go down between a string and the comparison, the
\* look-up or the hint that takes it.
NullIsSheltered == Contains(strs, NULL) => Skipping

\* An error, or what a decided && or || passes over, ends with the clause:
\* the clauses after it are evaluated.
ClausesAreSeparate ==
    pc = "conditions" /\ code # <<>> /\ code[1] = <<"cleanup">> =>
        ~ Skipping /\ strs = <<>>

\* The two flags are up as long as something may not be used and no longer.
SkippingIsContained == TypeOK /\ NullIsSheltered /\ ClausesAreSeparate

(***************************************************************************)
(* What the Conditions mean (RFC 2704, 5.3.4), worked out without flags or *)
(* stacks: a test has a value, whether it failed, and what its regexps     *)
(* matched.                                                                *)
(***************************************************************************)
Power(x, y) == IF y < 0 THEN 0 ELSE IF y = 0 THEN 1 ELSE x ^ y

RECURSIVE Meaning(_, _)
Meaning(e, groups) ==
    LET x == Meaning(e[2], groups)
        y == Meaning(e[3], x.groups)
        Is(v) == [v |-> v, err |-> FALSE, groups |-> groups]
        One(v) == [x EXCEPT !.v = v]
        Two(v, err) == [y EXCEPT !.v = v, !.err = x.err \/ y.err \/ err]
        matched == Regexec(x.v, y.v)
        locals == text.locals
    IN  CASE e[1] = "true" -> Is(1)
          [] e[1] = "false" -> Is(0)
          [] e[1] \in {"num", "float", "str"} -> Is(e[2])
          [] e[1] = "var" -> Is(my_lookup(e[2], groups, locals, Action))
          [] e[1] = "$" -> One(my_lookup(x.v, x.groups, locals, Action))
          [] e[1] = "@" -> One(Number(x.v))
          [] e[1] = "&" -> One(Float(x.v))
          [] e[1] = "neg" -> One(-x.v)
          [] e[1] = "not" -> One(1 - x.v)
          [] e[1] = "." -> Two(x.v \o y.v, FALSE)
          [] e[1] \in {"+", "-", "*", "f*"} ->
                 Two(Arithmetic(e[1], x.v, y.v), FALSE)
          [] e[1] = "^" -> Two(Power(x.v, y.v), FALSE)
          [] e[1] = "f^" -> Two(4 * Power(x.v \div 4, y.v \div 4), FALSE)
          [] e[1] = "/" -> Two(IF y.v = 0 THEN 0 ELSE Quotient(x.v, y.v),
                               y.v = 0)
          [] e[1] = "%" -> Two(IF y.v = 0 THEN 0 ELSE Remainder(x.v, y.v),
                               y.v = 0)
          [] e[1] = "f/" -> Two(IF y.v = 0 THEN 0 ELSE Quotient(4 * x.v, y.v),
                                y.v = 0)
          [] e[1] \in Relational ->
                 Two(Truth(Comparison(e[1], x.v, y.v)), FALSE)
          [] e[1] \in OnStrings ->
                 Two(Truth(Comparison(e[1], Rank[x.v], Rank[y.v])), FALSE)
          [] e[1] = "~=" ->
                 IF y.v \in BadRegexps THEN Two(0, TRUE)
                 ELSE [Two(Truth(matched # {}), FALSE) EXCEPT !.groups =
                          IF matched = {} THEN NoGroups
                          ELSE CHOOSE g \in matched : TRUE]
          [] e[1] = "&&" -> IF x.v = 0 THEN x ELSE Two(y.v, FALSE)
          [] e[1] = "||" -> IF x.v = 1 THEN x ELSE Two(y.v, FALSE)

\* A test that fails is false.
Holds(t) == t.v = 1 /\ ~ t.err

RECURSIVE ValueOf(_, _)
ValueOf(p, groups) ==
    LET t == Meaning(p[1].test, groups)
        hint == p[1].hint
        value ==
            CASE hint = <<>> -> Top
              [] hint # <<>> /\ hint[1] = "block" -> ValueOf(hint[2], t.groups)
              [] OTHER -> retindex(Meaning(hint, t.groups).v)
    IN  IF p = <<>> THEN 0
        ELSE Maximum(IF Holds(t) THEN value ELSE 0,
                     ValueOf(Tail(p), groups))

(***************************************************************************)
(* The programs on which the parser is right.  It is not where a test that *)
(* may fail has a block (the first clause of the block takes the error     *)
(* away), where an operand that is passed over has an && or || of its own  *)
(* (which ends the passing over), and where a block of several clauses     *)
(* uses what the test before it matched (the first clause forgets it).     *)
(***************************************************************************)
RECURSIVE Has(_, _)
Has(e, ops) ==
    \/ e[1] \in ops
    \/ e[1] \in Unary /\ Has(e[2], ops)
    \/ e[1] \in Binary \union {"&&", "||"} /\ (Has(e[2], ops) \/ Has(e[3], ops))

MayFail(e) == Has(e, {"/", "%", "f/", "~="})

RECURSIVE Flat(_)
Flat(e) ==
    CASE e[1] \in {"&&", "||"} -> Flat(e[2]) /\ ~ Has(e[3], {"&&", "||"})
      [] e[1] = "not" -> Flat(e[2])
      [] OTHER -> TRUE

RECURSIVE Plain(_)
Plain(p) ==
    \A i \in DOMAIN p :
        /\ Flat(p[i].test) \/ ~ MayFail(p[i].test)
        /\ p[i].hint # <<>> /\ p[i].hint[1] = "block" =>
               ~ MayFail(p[i].test) /\ Plain(p[i].hint[2])

ConditionsAreMeaning ==
    pc = "returned" /\ Plain(text.body) =>
        returnvalue = ValueOf(text.body, NoGroups)

(***************************************************************************)
(* What the Licensees mean (RFC 2704, 5.3.3): the keys in them in an       *)
(* action environment, and their value.                                    *)
(***************************************************************************)
RECURSIVE StringOf(_, _)
StringOf(e, env) ==
    CASE e[1] = "str" -> e[2]
      [] e[1] = "var" -> my_lookup(e[2], NoGroups, text.locals, env)
      [] e[1] = "$" ->
             my_lookup(StringOf(e[2], env), NoGroups, text.locals, env)
      [] e[1] = "." -> StringOf(e[2], env) \o StringOf(e[3], env)

RECURSIVE KeysOf(_, _)
KeysOf(e, env) ==
    IF e = <<>> THEN <<>>
    ELSE CASE e[1] = "key" -> <<StringOf(e[2], env)>>
           [] e[1] \in {"both", "either"} -> KeysOf(e[2], env) \o KeysOf(e[3], env)
           [] e[1] = "kof" ->
                  FlattenSeq([i \in DOMAIN e[3] |-> KeysOf(e[3][i], env)])

\* Every threshold can be reached.
RECURSIVE Reachable(_)
Reachable(e) ==
    e # <<>> =>
        CASE e[1] = "key" -> TRUE
          [] e[1] \in {"both", "either"} -> Reachable(e[2]) /\ Reachable(e[3])
          [] e[1] = "kof" -> e[2] <= Len(e[3])

WellFormed(e) ==
    Reachable(e) /\ \A i \in DOMAIN KeysOf(e, Action) :
                        KeysOf(e, Action)[i] \notin BadKeys

RECURSIVE Licensed(_)
Licensed(e) ==
    IF e = <<>> THEN 0
    ELSE CASE e[1] = "key" -> KeyValue(StringOf(e[2], Action))
           [] e[1] = "both" -> Minimum(Licensed(e[2]), Licensed(e[3]))
           [] e[1] = "either" -> Maximum(Licensed(e[2]), Licensed(e[3]))
           [] e[1] = "kof" ->
                  CHOOSE v \in Value :
                      /\ e[2] <= Cardinality({i \in DOMAIN e[3] :
                                                 Licensed(e[3][i]) >= v})
                      /\ \A w \in Value : w > v =>
                             e[2] > Cardinality({i \in DOMAIN e[3] :
                                                    Licensed(e[3][i]) >= w})

\* The field is refused when it is recorded or not at all; every key in it is
\* recorded, those too that an evaluation passes over; what is recorded without
\* a mark (keynote_used_variable) holds in every action environment; and the
\* value is that of the expression.
LicenseesAreMeaning ==
    /\ pc \in {"licensees", "returned"} => WellFormed(text.body)
    /\ pc = "rejected" /\ Len(keynote_init_list) = Len(text.locals) =>
           keylist = <<>> /\ ~ WellFormed(text.body)
    /\ pc \in {"licensees", "returned"} =>
           Reverse(keylist) = KeysOf(text.body, Action)
    /\ pc = "record" /\ code = <<>> /\ ~ used_variable =>
           KeysOf(text.body, Action) = KeysOf(text.body, <<>>)
    /\ pc = "returned" => returnvalue = Licensed(text.body)

\* What the parser works out while it reads a field is what the field means.
ValueIsMeaning ==
    CASE text.field = "conditions" -> ConditionsAreMeaning
      [] text.field = "licensees" -> LicenseesAreMeaning
===============================================================================
