--------------------------- MODULE MCKeyNoteGrammar ---------------------------
(* Fields for KeyNoteGrammar: every operator with operands that give each  *)
(* of its results, tests of up to three parts, nested clauses, and         *)
(* licensees of up to four keys.                                           *)
EXTENDS KeyNoteGrammar, TLC

MCValues == <<"no", "some", "full">>
MCAction == [v |-> "x", w |-> "3", name |-> "v", k |-> "k3",
             _VALUES |-> "no,some,full"]
InOrder == <<"", "(x)", "1", "1.5", "3", "b", "bad", "c", "d", "full", "k", "k1",
             "k2", "k3", "k4", "name", "no", "no,some,full", "some", "u", "v",
             "w", "x", "xx", "xy", "y">>
MCStrings == Range(InOrder)
MCRank == [s \in MCStrings |-> CHOOSE i \in DOMAIN InOrder : InOrder[i] = s]
MCNumber(s) == CASE s = "3" -> 3 [] s \in {"1", "1.5"} -> 1 [] OTHER -> 0
MCFloat(s) == CASE s = "3" -> 12 [] s = "1" -> 4 [] s = "1.5" -> 6 [] OTHER -> 0
MCRegexec(s, re) ==
    CASE s = "x" /\ re = "(x)" -> {"_0" :> "1" @@ "_1" :> "x"}
      [] s = "y" /\ re = "y" -> {"_0" :> ""}
      [] OTHER -> {}

Num(n) == <<"num", n>>
Str(s) == <<"str", s>>
Var(n) == <<"var", n>>
TRUEs == <<"true">>
FALSEs == <<"false">>
Error == <<"==", <<"/", Num(1), Num(0)>>, Num(1)>>
BadMatch == <<"~=", Var("v"), Str("bad")>>
Match == <<"~=", Var("v"), Str("(x)")>>
NoMatch == <<"~=", Str("x"), Str("y")>>
IsX == <<"eq", Var("_1"), Str("x")>>
IsC == <<"eq", Var("c"), Str("y")>>

Parts == {TRUEs, FALSEs, Error, BadMatch, Match, NoMatch, IsX, IsC}
Logic == {"&&", "||"}

Tests2 == Parts \union {<<"not", e>> : e \in Parts}
              \union {<<o, e, f>> : o \in Logic, e \in Parts, f \in Parts}
Tests3 ==
    {<<o, e, <<q, f, g>>>> :
        o \in Logic, q \in Logic, e \in Parts, f \in Parts, g \in Parts}
    \union
    {<<o, <<q, e, f>>, g>> :
        o \in Logic, q \in Logic, e \in Parts, f \in Parts, g \in Parts}

\* Every other operator.
Numbers == {-3, -1, 0, 2, 5}
Sums ==
    {<<"==", <<o, Num(i), Num(j)>>, Num(k)>> :
        o \in {"+", "-", "*", "/", "%", "^"}, i \in Numbers, j \in Numbers,
        k \in {-1, 0, 1, 3, 32}}
Floats ==
    {<<"<=", <<o, <<"float", i>>, <<"float", j>>>>, <<"float", k>>>> :
        o \in {"+", "-", "f*", "f/"}, i \in {-8, 6, 12}, j \in {-2, 0, 4},
        k \in {-8, 0, 6}}
    \union {<<o, <<"f^", <<"float", i>>, <<"float", 8>>>>, <<"float", 16>>>> :
                o \in {"<", ">", ">="}, i \in {-8, 4}}
    \union {<<">", <<"neg", <<"&", Str(s)>>>>, <<"float", -5>>>> :
                s \in {"1", "1.5", "x"}}
    \union {<<o, <<">", <<"f/", <<"float", 4>>, <<"&", Str("u")>>>>,
                       <<"float", 0>>>>,
                 <<">", <<"f^", <<"&", Str("3")>>, <<"float", 4>>>>,
                       <<"float", 0>>>>>> : o \in Logic}
Others ==
    {<<o, <<"neg", <<"@", Var("w")>>>>, Num(n)>> :
        o \in Relational, n \in {-3, 3}}
    \union {<<o, <<"$", Var("name")>>, Str(s)>> : o \in {"eq", "ne"},
                s \in {"x", "v"}}
    \union {<<"eq", <<".", Var("v"), Var(n)>>, Str("xy")>> : n \in {"c", "u"}}
    \union {<<o, Str(s), Str(t)>> : o \in {"lt", "gt", "le", "ge"},
                s \in {"x", "xy"}, t \in {"x", "xy"}}
    \union {<<"||", <<"==", <<"/", Num(1), <<"@", Str("u")>>>>, Num(0)>>,
              <<"eq", <<".", <<"$", Var("name")>>, Str("y")>>, Str("xy")>>>>}

Hints == {<<>>, Str("some"), Str("bad"), Var("_MAX_TRUST"), Var("_1")}
Clauses(ts, hs) == {[test |-> t, hint |-> h] : t \in ts, h \in hs}

Simple == {<<c>> : c \in Clauses(Tests2 \union Sums \union Floats \union Others,
                                     Hints)
                             \union Clauses(Tests3, {Str("some")})}
Pairs == Clauses(Tests2, {Str("some")}) \X Clauses(Parts, {<<>>})

\* Blocks of two clauses, one with a block of its own, and a clause after.
Inner == Clauses(Parts, {<<>>})
Innermost == {<<"block", <<c, d>>>> : c \in Inner, d \in Inner}
Blocks ==
    {<<"block", <<c, d>>>> :
        c \in Clauses(Parts, {Str("some")} \union
                             {<<"block", <<>>>>, <<"block", <<[test |-> IsX,
                                               hint |-> <<>>]>>>>}),
        d \in Inner}
Nested == {<<c>> : c \in Clauses(Parts \union {<<"&&", Match, IsX>>},
                                 Blocks \union Innermost)}
              \union (Clauses(Parts, Blocks) \X Clauses({TRUEs}, {Str("some")}))

Locals == {<<<<"c", "y">>>>}
BadLocals == {<<>>, <<<<"c", "y">>, <<"v", "y">>>>, <<<<"c", "y">>, <<"c", "x">>>>,
              <<<<"_1", "x">>>>}

(* Licensees: k1 asks, k2 has assertions of two values and one that is not *)
(* done, k3 of the highest value, k4 none that is done.                    *)
MCAuthorizers == {"k1"}
MCAssertions ==
    {[auth |-> "k2", done |-> TRUE, result |-> 0],
     [auth |-> "k2", done |-> TRUE, result |-> 1],
     [auth |-> "k2", done |-> FALSE, result |-> 2],
     [auth |-> "k3", done |-> TRUE, result |-> 2],
     [auth |-> "k4", done |-> FALSE, result |-> 1]}
MCBadKeys == {"bad", ""}

Keys == {<<"key", e>> : e \in {Str("k1"), Str("k2"), Str("k4"), Str("bad"),
                              Var("k"), Var("d"), Var("u"),
                              <<"$", Str("k")>>, <<".", Var("b"), Str("1")>>}}
KeysOf4 == {<<"key", e>> : e \in {Str("k1"), Str("k2"), Str("k4"), Var("k")}}
Kof(ks) == {<<"kof", k, <<e>>>> : k \in 1 .. 2, e \in ks}
               \union {<<"kof", k, <<e, f>>>> : k \in 1 .. 3, e \in ks, f \in ks}
Both(es, fs) == {<<o, e, f>> : o \in {"both", "either"}, e \in es, f \in fs}

Kofs3 == {<<"kof", k, <<e, f, g>>>> :
             k \in 1 .. 4, e \in Keys, f \in KeysOf4, g \in KeysOf4}
Two == Both(KeysOf4, KeysOf4)
Licensees ==
    {<<>>} \union Keys \union Both(Keys, Keys) \union Kof(Keys) \union Kofs3
        \union Both(Two, KeysOf4) \union Both(KeysOf4, Two) \union Both(Two, Two)
        \union Both(Kof(KeysOf4), KeysOf4) \union Both(KeysOf4, Kof(KeysOf4))
        \union Both(KeysOf4, Both(Two, KeysOf4))

KeyLocals == <<<<"b", "k">>, <<"d", "k2">>>>

MCTexts ==
    [locals : Locals, field : {"conditions"},
     body : Simple \union Pairs \union Nested]
        \union [locals : BadLocals, field : {"conditions"},
                body : {<<c>> : c \in Clauses(Tests2, {<<>>})}]
        \union [locals : {KeyLocals}, field : {"licensees"}, body : Licensees]
===============================================================================
