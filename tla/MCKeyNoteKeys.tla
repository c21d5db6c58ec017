----------------------------- MODULE MCKeyNoteKeys -----------------------------
(* Two RSA pairs whose modulus differs by the order of its bytes, a DSA pair, *)
(* texts by other hands, and all short strings of the interesting characters. *)
EXTENDS KeyNoteKeys

R1 == [alg |-> "RSA", pub |-> <<200, 3, 17>>, priv |-> <<251>>]
R2 == [alg |-> "RSA", pub |-> <<3, 200, 17>>, priv |-> <<77>>]
D1 == [alg |-> "DSA", pub |-> <<255, 0, 23, 11, 5>>, priv |-> <<190>>]
MCKeys == {R1, R2, D1}
MCBegins == {-1, 0, 2}
MCLengths == {0, 9, 10, 13, 19, 40}

Quoted(name, s) == <<QUOTE>> \o name \o s \o <<QUOTE, NL>>
Hex(bytes) == kn_encode_hex(bytes)
B64(bytes) == kn_encode_base64(bytes, 100).bytes
HexR1 == Hex(i2d(R1, "public"))
B64R1 == B64(i2d(R1, "public"))
Upper(s) == [i \in DOMAIN s |-> IF s[i] >= 97 THEN s[i] - 32 ELSE s[i]]
Cert(key) == <<48, 7, 1>> \o key.pub \o <<9, 9, 9>>
Octal(c) == <<BACKSLASH, 48 + c \div 64, 48 + ((c \div 8) % 8), 48 + (c % 8)>>
From(s, n) == SubSeq(s, n, Len(s))
Given(name, s, m) == [text |-> Quoted(name, s), use |-> "public", means |-> m]
Alice == <<97, 108, 105>>

\* Well-formed: upper case, an escaped first digit, another in front of a digit,
\* line breaks with a tab and with blanks, blanks inside base64, bytes behind
\* the key, certificates, a name, a private key as a name.
WellFormed == {
    Given(<<RSA_PKCS1_HEX>>, Upper(HexR1), Public(R1)),
    Given(<<RSA_PKCS1_HEX>>, Octal(HexR1[1]) \o From(HexR1, 2), Public(R1)),
    Given(<<RSA_PKCS1_HEX>>, <<BACKSLASH, NL, 9>> \o SubSeq(HexR1, 1, 3)
                               \o <<BACKSLASH, NL, SPACE, 12>> \o From(HexR1, 4), Public(R1)),
    Given(<<RSA_PKCS1_BASE64>>, SubSeq(B64R1, 1, 1) \o <<SPACE, 9, SPACE, SPACE>>
                               \o From(B64R1, 2), Public(R1)),
    Given(<<RSA_PKCS1_BASE64>>, B64R1 \o <<SPACE, SPACE, SPACE, SPACE>>, Public(R1)),
    Given(<<RSA_PKCS1_HEX>>, HexR1 \o <<48, 48>>, Public(R1)),
    Given(<<X509_HEX>>, Hex(Cert(R1)), Public(R1)),
    Given(<<X509_BASE64>>, B64(Cert(R2)), Public(R2)),
    Given(<<>>, Alice, String(Alice)),
    Given(<<>>, <<BACKSLASH, 97>> \o From(Alice, 2), String(Alice)),
    [Given(<<RSA_PKCS1_HEX>>, HexR1, String(<<RSA_PKCS1_HEX>> \o HexR1))
        EXCEPT !.use = "private"]}

\* Malformed: an odd number of digits, a length that is no multiple of four, a
\* foreign character, pads in wrong places, bits behind the last byte, a key of
\* another kind, a key that is cut, a binary key, and texts that are no string.
Malformed == {
    Given(<<RSA_PKCS1_HEX>>, Tail(HexR1), Nothing),
    Given(<<RSA_PKCS1_BASE64>>, Tail(B64R1), Nothing),
    Given(<<RSA_PKCS1_BASE64>>, <<BACKSLASH, 33>> \o Tail(B64R1), Nothing),
    Given(<<RSA_PKCS1_BASE64>>, [B64R1 EXCEPT ![7] = 66], Nothing),
    Given(<<RSA_PKCS1_BASE64>>, [B64R1 EXCEPT ![6] = EQUALS], Nothing),
    Given(<<RSA_PKCS1_BASE64>>, [B64R1 EXCEPT ![1] = EQUALS], Nothing),
    Given(<<DSA_BASE64>>, [B64(i2d(D1, "public")) EXCEPT ![12] = SPACE], Nothing),
    Given(<<DSA_HEX>>, HexR1, Nothing),
    Given(<<RSA_PKCS1_HEX>>, SubSeq(HexR1, 1, 8), Nothing),
    Given(<<BINARY_HEX>>, HexR1, Nothing),
    Given(<<BINARY_BASE64>>, B64R1, Nothing),
    [text |-> <<QUOTE, 97, NL, QUOTE, NL>>, use |-> "public", means |-> Nothing],
    [text |-> <<QUOTE, 97, QUOTE, 98, NL>>, use |-> "public", means |-> Nothing],
    [Given(<<KEYNOTE_PRIVATE_KEY_PREFIX, X509_HEX>>, Hex(Cert(R1)), Nothing)
        EXCEPT !.use = "private"]}

\* Strings of up to five of these whose last backslash escapes something.
Alphabet == {BACKSLASH, NL, SPACE, 48, 49, 52, 110}
Strings == {s \in BoundedSeq(Alphabet, 5) : StringOf(Quoted(<<>>, s)).ok}
MCWritten == WellFormed \union Malformed \union
    {[text |-> Quoted(<<>>, s), use |-> "string", means |-> String(Meaning(s))] : s \in Strings}
=============================================================================
