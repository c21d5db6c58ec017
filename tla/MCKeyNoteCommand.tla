--------------------------- MODULE MCKeyNoteCommand ---------------------------
(* Command lines for KeyNoteCommand: the one of the policy module with     *)
(* files of every kind, and others with options repeated or left out.      *)
EXTENDS KeyNoteCommand

MCLetters == {"k", "x", "y", "1", "2", "n"}
MCStrays == {"comma"}
MCKeys == {<<"k">>, <<"k", "k">>, <<"k", "k", "k">>}

Quoted(s) == <<"quote">> \o s \o <<"quote">>
Setting(w, s) == <<w, "equals">> \o Quoted(s)
AComment == <<"hash", "quote", "k", "newline">>

\* Files of attributes: a pair with anything around and inside it, and another.
Noise == {<<>>, <<"blank">>, AComment, <<"comma">>, <<"2", "underscore">>,
          Quoted(<<"y">>), <<"quote">>}
Strings == {<<"1">>, <<"hash", "1">>, <<"backslash", "quote", "backslash", "n">>,
            <<"1", "backslash", "newline", "return", "blank", "2">>,
            <<"1", "newline">>, <<"1", "2", "zero">>, <<"backslash", "backslash">>}
Noisy(n, rest) ==
    FlattenSeq(<<n[1], <<"x">>, n[2], <<"equals">>, n[3], Quoted(<<"1">>), n[4], rest>>)
Noises(i) ==
    {n \in [1 .. 4 -> Noise] : Cardinality({j \in 1 .. 4 : n[j] # <<>>}) <= i}
EnvFiles ==
    {Noisy(n, Setting("y", <<"2">>)) : n \in Noises(2)}
    \union {Noisy(n, rest) : n \in Noises(1), rest \in
               {<<>>, Setting("y", <<"2">>) \o Setting("x", <<"k">>)}}
    \union {Setting("x", s) \o Setting("y", <<"1">>) : s \in Strings}
PlainEnv == {Setting("x", <<"1">>),
             Setting("x", <<"2">>) \o <<"blank">> \o Setting("x", <<"1">>)}

\* Files of keys: a first one, and any short one that is read over it.
FirstKeys ==
    {Quoted(s) \o e : s \in {<<"k">>, <<"k", "k">>, <<"k", "k", "k", "k">>,
                             <<"k", "backslash", "k">>, <<"k", "zero", "k">>},
                      e \in {<<>>, <<"blank", "blank">>, AComment, <<"k">>,
                             <<"hash">> \o Quoted(<<"k">>), <<"zero", "quote">>}}
    \union {AComment \o Quoted(<<"k">>), <<"quote", "k", "k">>, <<>>}
SecondKeys ==
    UNION {[1 .. n -> {"k", "quote", "hash", "blank"}] : n \in 0 .. 4}
    \union {Quoted(<<"k">>) \o e :
               e \in {<<"newline">>, <<"zero">>, <<"comma">>, <<"backslash", "quote">>}}
PlainKey == Quoted(<<"k">>) \o <<"blank">>

AssertionFiles == [kind : Kinds, size : {2}]
Good == [kind |-> "good", size |-> 2]

O(opt, arg) == [opt |-> opt, arg |-> arg]
R == O("r", <<"unauthorixed", "authorized">>)
Line(os, fs) == [options |-> os, operands |-> fs]

\* The policy module's, with one file out of the ordinary.
PolicyModules ==
    {Line(<<R, O("e", e), O("l", Good), O("k", PlainKey)>>, <<Good, Good>>) :
        e \in EnvFiles}
    \union
    {Line(<<R, O("e", e), O("l", l), O("k", PlainKey)>>, <<c, d>>) :
        e \in PlainEnv, l \in AssertionFiles, c, d \in AssertionFiles}

\* Two files of keys one after the other, or with an assertion in between.
Repeated ==
    {Line(<<O("k", k), O("l", [Good EXCEPT !.size = n]), O("k", m), R,
            O("e", Setting("x", <<"1">>)), O("e", Setting("y", <<"2">>))>>, <<>>) :
        k \in FirstKeys, m \in SecondKeys, n \in {0}}
    \union
    {Line(<<O("k", k), O("l", [Good EXCEPT !.size = n]), O("k", m), R,
            O("e", Setting("x", <<"1">>))>>, <<>>) :
        k \in {Quoted(<<"k", "k", "k">>) \o e : e \in {<<>>, AComment}},
        m \in SecondKeys, n \in {2, 5, 10}}

\* Any four of these in any order, and any other one among all four.
Plain == {R, O("e", Setting("x", <<"1">>)), O("l", Good), O("k", PlainKey)}
Other == Plain \union {O("e", <<>>), O("e", None), O("l", None), O("k", None),
                       O("h", None)}
Short == {Line(os, fs) : os \in [1 .. 4 -> Plain], fs \in {<<>>, <<None>>}}
    \union {Line(InsertAt(os, i, o), <<>>) :
               os \in {f \in [1 .. 4 -> Plain] : Range(f) = Plain}, i \in 1 .. 5, o \in Other}

MCCommandLines == PolicyModules \union Repeated \union Short
===============================================================================
