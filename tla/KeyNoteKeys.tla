------------------------------ MODULE KeyNoteKeys ------------------------------
(***************************************************************************)
(* Keys as text: how keynote-keygen prints a key pair, how the lexer of    *)
(* the library reads a quoted string, how the string becomes a key again   *)
(* (KeyNote/signature.c, base64.c), and when two keys are the same for the *)
(* library: kn_keycompare, and the hash under which assertions are found.  *)
(*                                                                         *)
(* A text is a sequence of cells: a cell below 256 is the character with   *)
(* that code, one above is a whole algorithm name such as "rsa-hex:",      *)
(* which the library only compares, or the prefix of private keys.  The    *)
(* file is read to its end, so a position in a string is a cell, and the   *)
(* length that the generator counts is that of the characters (NameLen).   *)
(*                                                                         *)
(* The encodings of libcrypto are external: a tag, a length, and then the  *)
(* numbers of the key with one byte each (two for the first).  Running out *)
(* of memory and keys that cannot be generated are left out.               *)
(***************************************************************************)
EXTENDS Integers, SequencesExt, Functions, Bitwise

CONSTANTS
    Keys,        \* [alg, pub, priv], the key pairs there are
    Begins,      \* print-offsets and print-lengths that are asked for
    Lengths,
    Written,     \* texts by other hands: [text, use, means]
    MaxKeys,     \* public keys that a session is given
    MaxCuts      \* files that are cut short when they are written

Byte == 0..255
DSA_HEX == 257      DSA_BASE64 == 258
RSA_PKCS1_HEX == 259      RSA_PKCS1_BASE64 == 260
X509_BASE64 == 261      X509_HEX == 262
BINARY_HEX == 263      BINARY_BASE64 == 264
ELGAMAL_HEX == 265
KEYNOTE_PRIVATE_KEY_PREFIX == 266
Names == DSA_HEX..ELGAMAL_HEX
NameLen == <<8, 11, 8, 11, 12, 9, 11, 14, 12, 8>>

\* What a text denotes: a public or private key, a plain string, or Nothing.
Nothing == [kind |-> "nothing", pub |-> <<>>, priv |-> <<>>]
Public(key) == [kind |-> key.alg, pub |-> key.pub, priv |-> <<>>]
Private(key) == [kind |-> key.alg, pub |-> key.pub, priv |-> key.priv]
String(s) == [kind |-> "string", pub |-> s, priv |-> <<>>]
Meanings == [kind : {"nothing", "string", "DSA", "RSA"},
             pub : Seq(Nat), priv : Seq(Byte)]

ASSUME KeysAssumption ==
    /\ Keys \subseteq [alg : {"DSA", "RSA"}, pub : Seq(Byte), priv : Seq(Byte)]
    /\ \A key \in Keys :
          /\ Len(key.pub) = (IF key.alg = "RSA" THEN 3 ELSE 5)
          /\ Len(key.priv) = 1
    /\ Begins \subseteq Int /\ Lengths \subseteq Int
    /\ Written \subseteq [text : Seq(Nat), use : {"public", "private", "string"},
                          means : Meanings]
    /\ MaxKeys \in Nat /\ MaxCuts \in Nat

VARIABLES
    disk,      \* the text of the files: [public, private, string]
    means,     \* what they denote
    gen,       \* keynote-keygen: its algorithm, key, begin, prlen
    pc,        \* "idle", "public" and "private" while it prints, "copy"
    use,       \* what the string is read for
    s1, s2,    \* mystrncpy: what is copied, and from where
    len,
    result,    \* the last thing that was read
    keys,      \* the keylist of the session, newest first
    cuts

vars == <<disk, means, gen, pc, use, s1, s2, len, result, keys, cuts>>

NL == 10
SPACE == 32
QUOTE == 34
EQUALS == 61      \* Pad64
BACKSLASH == 92
isspace(c) == c \in (9..13) \union {SPACE}

----------------------------------------------------------------------------
(* The ASCII encodings. *)

HexTab == [i \in 0..15 |-> IF i < 10 THEN 48 + i ELSE 87 + i]
kn_encode_hex(buf) ==
    [i \in 1..2 * Len(buf) |->
        LET byte == buf[(i + 1) \div 2]
        IN HexTab[IF i % 2 = 1 THEN byte \div 16 ELSE byte % 16]]

\* strtoul in base 16 of two characters, of which it takes what it can.
HexDigits == [c \in (48..57) \union (65..70) \union (97..102) |->
                 IF c < 58 THEN c - 48 ELSE IF c < 71 THEN c - 55 ELSE c - 87]
IsHex(c) == c \in DOMAIN HexDigits
Strtoul(a, b) ==
    CASE IsHex(a) /\ IsHex(b) -> 16 * HexDigits[a] + HexDigits[b]
      [] IsHex(a) /\ ~IsHex(b) -> HexDigits[a]
      [] (isspace(a) \/ a = 43) /\ IsHex(b) -> HexDigits[b]
      [] a = 45 /\ IsHex(b) -> (256 - HexDigits[b]) % 256
      [] OTHER -> 0

Failed == [ok |-> FALSE, bytes |-> <<>>]
kn_decode_hex(hex) ==
    IF Len(hex) % 2 = 1
      THEN Failed
      ELSE [ok |-> TRUE,
            bytes |-> [i \in 1..Len(hex) \div 2 |->
                          Strtoul(hex[2 * i - 1], hex[2 * i])]]

Base64 == [i \in 0..63 |->
    CASE i < 26 -> 65 + i  [] i \in 26..51 -> 71 + i  [] i \in 52..61 -> i - 4
      [] i = 62 -> 43      [] i = 63 -> 47]
Base64Index == AntiFunction(Base64)

\* Groups of three bytes as four characters, the last one padded; there must
\* be room for them and a final zero.
kn_encode_base64(src, targsize) ==
    LET units == (Len(src) + 2) \div 3
        byte(i) == IF i <= Len(src) THEN src[i] ELSE 0
        output(i) ==
            LET unit == (i - 1) \div 4
                j == (i - 1) % 4
                bits == 65536 * byte(3 * unit + 1) + 256 * byte(3 * unit + 2)
                            + byte(3 * unit + 3)
            IN IF 3 * unit + j > Len(src)
                 THEN EQUALS
                 ELSE Base64[(bits \div 64 ^ (3 - j)) % 64]
    IN IF 4 * units >= targsize
         THEN Failed
         ELSE [ok |-> TRUE, bytes |-> [i \in 1..4 * units |-> output(i)]]

\* The decoder goes from character to character: state is how many of a group
\* of four it has, part the byte that is begun, phase what may still follow.
Decode64(d, c, targsize) ==
    LET weight == <<64, 16, 4, 1>>[d.state + 1]
        high == Base64Index[c] \div weight
        low == (Base64Index[c] % weight) * (256 \div weight)
        fits == Len(d.bytes) + (IF d.state \in {1, 2} THEN 1 ELSE 0) < targsize
        error == [d EXCEPT !.phase = "error"]
    IN CASE d.phase = "error" \/ isspace(c) -> d
         [] d.phase = "spaces" /\ ~isspace(c) -> error
         [] d.phase = "pad" /\ ~isspace(c) ->
                IF c = EQUALS THEN [d EXCEPT !.phase = "spaces"] ELSE error
         [] d.phase = "digits" /\ c = EQUALS ->
                CASE d.state = 2 -> [d EXCEPT !.phase = "pad"]
                  [] d.state = 3 -> [d EXCEPT !.phase = "spaces"]
                  [] OTHER -> error
         [] OTHER ->
                IF c \notin DOMAIN Base64Index \/ ~fits
                  THEN error
                  ELSE [d EXCEPT
                          !.bytes = IF d.state = 0 THEN @ ELSE Append(@, d.part + high),
                          !.part = low,
                          !.state = (@ + 1) % 4]
\* Mutant: what is left of the last byte is not looked at.
kn_decode_base64_Slop(src, targsize) ==
    LET d == FoldLeft(LAMBDA e, c : Decode64(e, c, targsize),
                      [phase |-> "digits", state |-> 0, part |-> 0, bytes |-> <<>>], src)
    IN [ok |-> d.phase = "spaces" \/ (d.phase = "digits" /\ d.state = 0), bytes |-> d.bytes]
kn_decode_base64(src, targsize) ==
    LET d == FoldLeft(LAMBDA e, c : Decode64(e, c, targsize),
                      [phase |-> "digits", state |-> 0, part |-> 0, bytes |-> <<>>], src)
    IN IF \/ d.phase = "digits" /\ d.state = 0
          \/ d.phase = "spaces" /\ d.part = 0
         THEN [ok |-> TRUE, bytes |-> d.bytes]
         ELSE Failed

----------------------------------------------------------------------------
(* libcrypto: i2d and d2i.  d2i leaves alone what comes after the key. *)

BodySize(alg, keytype) ==
    CASE alg = "RSA" -> (IF keytype = "public" THEN 3 ELSE 4)
      [] alg = "DSA" -> (IF keytype = "public" THEN 5 ELSE 6)
      [] alg = "X509" -> 7
i2d(key, keytype) ==
    LET body == IF keytype = "public" THEN key.pub ELSE key.pub \o key.priv
    IN <<48, Len(body)>> \o body
d2i(alg, keytype, bytes) ==
    LET size == BodySize(alg, keytype)
        body == SubSeq(bytes, 3, 2 + size)
    IN IF Len(bytes) < 2 + size \/ bytes[1] # 48 \/ bytes[2] # size
         THEN Nothing
         ELSE CASE alg = "X509" -> [kind |-> "RSA", pub |-> SubSeq(body, 2, 4), priv |-> <<>>]
                [] keytype = "public" -> [kind |-> alg, pub |-> body, priv |-> <<>>]
                [] OTHER -> [kind |-> alg, pub |-> SubSeq(body, 1, size - 1),
                             priv |-> <<body[size]>>]

----------------------------------------------------------------------------
(* Keys and strings. *)

NoKeyAlgorithm == [alg |-> "NONE", internal |-> "NONE", enc |-> "NONE"]
keynote_get_key_algorithm(key) ==
    LET name == IF key = <<>> THEN 0 ELSE key[1]
        is(alg, internal, enc) == [alg |-> alg, internal |-> internal, enc |-> enc]
    IN CASE name = DSA_HEX -> is("DSA", "ASN1", "hex")
         [] name = DSA_BASE64 -> is("DSA", "ASN1", "base64")
         [] name = RSA_PKCS1_HEX -> is("RSA", "PKCS1", "hex")
         [] name = RSA_PKCS1_BASE64 -> is("RSA", "PKCS1", "base64")
         [] name = X509_BASE64 -> is("X509", "ASN1", "base64")
         [] name = X509_HEX -> is("X509", "ASN1", "hex")
         [] name = BINARY_HEX -> is("BINARY", "NONE", "hex")
         [] name = BINARY_BASE64 -> is("BINARY", "NONE", "base64")
         [] OTHER -> NoKeyAlgorithm

\* The same behind the prefix of private keys, which must be there.
keynote_get_private_key_algorithm(key) ==
    IF key = <<>> \/ key[1] # KEYNOTE_PRIVATE_KEY_PREFIX
      THEN NoKeyAlgorithm
      ELSE keynote_get_key_algorithm(Tail(key))

\* Removing the ASCII encoding from what follows the colon.
Decoded(enc, text) ==
    IF enc = "hex"
      THEN kn_decode_hex(text)
      ELSE IF Len(text) % 4 # 0
             THEN Failed
             ELSE kn_decode_base64(text, 3 * (Len(text) \div 4))

\* A binary key is decoded with the result RESULT_TRUE, which is not 0.
Refused == [ret |-> -1, alg |-> "NONE", key |-> Nothing]
RESULT_TRUE == 1
KeyOf(is, keytype, decoded) ==
    LET key == d2i(is.alg, keytype, decoded.bytes)
    IN CASE ~decoded.ok -> Refused
         [] is.alg = "BINARY" -> [ret |-> RESULT_TRUE, alg |-> is.alg, key |-> Nothing]
         [] is.alg = "X509" /\ keytype = "private" -> Refused
         [] OTHER -> IF key = Nothing THEN Refused
                       ELSE [ret |-> 0, alg |-> is.alg, key |-> key]
kn_decode_key(key, keytype) ==
    LET is == IF keytype = "private" THEN keynote_get_private_key_algorithm(key)
                ELSE keynote_get_key_algorithm(key)
        text == IF keytype = "private" THEN SubSeq(key, 3, Len(key)) ELSE Tail(key)
    IN IF is.alg = "NONE"
         THEN [ret |-> 0, alg |-> "NONE", key |-> String(key)]
         ELSE KeyOf(is, keytype, Decoded(is.enc, text))

\* Both encodings of a key of algorithm alg; the buffer for base64 has twice
\* the bytes of the key.
kn_encode_key(key, enc, keytype) ==
    LET bytes == i2d(key, keytype)
    IN IF enc = "hex" THEN [ok |-> TRUE, bytes |-> kn_encode_hex(bytes)]
         ELSE kn_encode_base64(bytes, 2 * Len(bytes))

----------------------------------------------------------------------------
(* When two keys are the same. *)

\* n and the public part of a DSA key have two bytes; the others have one.
kn_keycompare(key1, key2, alg) ==
    CASE alg = "NONE" -> key1.pub = key2.pub
      [] alg = "DSA" -> /\ SubSeq(key1.pub, 3, 5) = SubSeq(key2.pub, 3, 5)
                        /\ SubSeq(key1.pub, 1, 2) = SubSeq(key2.pub, 1, 2)
      [] alg \in {"RSA", "X509"} -> /\ SubSeq(key1.pub, 1, 2) = SubSeq(key2.pub, 1, 2)
                                    /\ key1.pub[3] = key2.pub[3]
      [] OTHER -> FALSE

HASHTABLESIZE == 37
keynote_stringhash(name, size) ==
    LET signed(c) == IF c \in 128..255 THEN c - 256 ELSE c
        step(hash, c) ==
            LET val == 4 * hash + signed(c)
                i == val % 16384
            IN IF i = 0 THEN val ELSE i ^^ (i \div 4096)
    IN FoldLeft(step, 0, name) % size

\* Mutant: certificates are forgotten.
keynote_keyhash_NoCert(key, alg) ==
    LET word(i) == key.pub[i] % HASHTABLESIZE
        long(i) == (256 * key.pub[i] + key.pub[i + 1]) % HASHTABLESIZE
    IN CASE alg = "DSA" -> (word(3) + word(4) + word(5) + long(1)) % HASHTABLESIZE
         [] alg = "RSA" -> (long(1) + word(3)) % HASHTABLESIZE
         [] alg = "NONE" -> keynote_stringhash(key.pub, HASHTABLESIZE)
         [] OTHER -> 0
keynote_keyhash(key, alg) ==
    LET word(i) == key.pub[i] % HASHTABLESIZE
        long(i) == (256 * key.pub[i] + key.pub[i + 1]) % HASHTABLESIZE
    IN CASE alg = "DSA" -> (word(3) + word(4) + word(5) + long(1)) % HASHTABLESIZE
         [] alg = "RSA" -> (long(1) + word(3)) % HASHTABLESIZE
         [] alg = "X509" -> (long(1) + word(3)) % HASHTABLESIZE
         [] alg = "NONE" -> keynote_stringhash(key.pub, HASHTABLESIZE)
         [] OTHER -> 0

AlgsMeet(alg1, alg2) == alg1 = alg2 \/ {alg1, alg2} = {"RSA", "X509"}

\* Whether a key is one of those that ask, and whether the assertions of an
\* authorizer are found under a key: in the bucket of its hash.
keynote_in_action_authorizers(authorizers, k) ==
    \E kl \in authorizers :
        AlgsMeet(kl.alg, k.alg) /\ kn_keycompare(kl.key, k.key, k.alg)
keynote_find_assertion(as, k) ==
    /\ keynote_keyhash(as.key, as.alg) = keynote_keyhash(k.key, k.alg)
    /\ AlgsMeet(as.alg, k.alg)
    /\ kn_keycompare(k.key, as.key, k.alg)

----------------------------------------------------------------------------
(* keynote-keygen. *)

print_space(n) == [i \in 1..n |-> SPACE]

\* Mutant: i is not set back at a break.
print_key_Loses(algname, key, start, length) ==
    LET put(line, c) ==
            IF line.k = length
              THEN [out |-> line.out \o <<BACKSLASH, NL>> \o print_space(start), k |-> 1]
              ELSE [out |-> Append(line.out, c), k |-> line.k + 1]
    IN print_space(start) \o <<QUOTE>> \o algname
        \o FoldLeft(put, [out |-> <<>>, k |-> 10], key).out \o <<QUOTE, NL>>

\* The line is broken in front of the character at which k gets to length:
\* that character is then printed at k = 1.
print_key(algname, key, start, length) ==
    LET put(line, c) ==
            IF line.k = length
              THEN [out |-> line.out \o <<BACKSLASH, NL>> \o print_space(start) \o <<c>>,
                    k |-> 2]
              ELSE [out |-> Append(line.out, c), k |-> line.k + 1]
        chars == FoldLeft(LAMBDA sum, cell : sum + NameLen[cell - 256], 0, algname)
    IN print_space(start) \o <<QUOTE>> \o algname
        \o FoldLeft(put, [out |-> <<>>, k |-> chars + 2], key).out \o <<QUOTE, NL>>

NoGen == [name |-> 0, key |-> [alg |-> "NONE", pub |-> <<>>, priv |-> <<>>],
          begin |-> 0, prlen |-> 0]
NoResult == [ret |-> 0, alg |-> "NONE", key |-> Nothing]
Files == {"public", "private", "string"}
Empty == [f \in Files |-> <<>>]

Init ==
    /\ disk = Empty /\ means = [f \in Files |-> Nothing]
    /\ gen = NoGen /\ pc = "idle" /\ use = "string"
    /\ s1 = <<>> /\ s2 = <<>> /\ len = 0
    /\ result = NoResult /\ keys = <<>> /\ cuts = 0

\* A colon that is missing at the end of the name is put there, so that a name
\* is its cell either way.
GenerateArguments(name, begin, prlen) ==
    /\ begin > -1 /\ prlen > 0
    /\ NameLen[name - 256] + 2 <= prlen
Supported(name, key) ==
    LET is == keynote_get_key_algorithm(<<name>>)
    IN /\ key.alg = is.alg
       /\ \/ is.alg = "DSA" /\ is.internal = "ASN1"
          \/ is.alg = "RSA" /\ is.internal = "PKCS1"

\* The next command is about other files.
NextCommand ==
    /\ pc = "idle" /\ disk # Empty
    /\ disk' = Empty /\ means' = [f \in Files |-> Nothing]
    /\ use' = "string" /\ result' = NoResult
    /\ UNCHANGED <<gen, pc, s1, s2, len, keys, cuts>>
Fresh == pc = "idle" /\ disk = Empty /\ Len(keys) < MaxKeys

\* A run of keynote-keygen, for files that are not there yet.
Generate ==
    /\ Fresh
    /\ \E name \in Names, key \in Keys, begin \in Begins, prlen \in Lengths :
          /\ GenerateArguments(name, begin, prlen)
          /\ Supported(name, key)
          /\ gen' = [name |-> name, key |-> key, begin |-> begin, prlen |-> prlen]
    /\ pc' = "public"
    /\ UNCHANGED <<disk, means, use, s1, s2, len, result, keys, cuts>>

KeyText(keytype) ==
    LET foo == kn_encode_key(gen.key, keynote_get_key_algorithm(<<gen.name>>).enc, keytype)
        algname == IF keytype = "private" THEN <<KEYNOTE_PRIVATE_KEY_PREFIX, gen.name>>
                     ELSE <<gen.name>>
    IN [ok |-> foo.ok, text |-> print_key(algname, foo.bytes, gen.begin, gen.prlen)]

\* What fprintf returns is not looked at: a full disk keeps a part of the text.
PrintKey(keytype) ==
    /\ pc = keytype
    /\ KeyText(keytype).ok
    /\ LET text == KeyText(keytype).text
       IN \E n \in 0..Len(text) :
             /\ n = Len(text) \/ cuts < MaxCuts
             /\ disk' = [disk EXCEPT ![keytype] = SubSeq(text, 1, n)]
             /\ cuts' = IF n = Len(text) THEN cuts ELSE cuts + 1
    /\ means' = [means EXCEPT ![keytype] =
                    IF keytype = "public" THEN Public(gen.key) ELSE Private(gen.key)]
    /\ pc' = IF keytype = "public" THEN "private" ELSE "idle"
    /\ gen' = IF keytype = "public" THEN gen ELSE NoGen
    /\ UNCHANGED <<use, s1, s2, len, result, keys>>
\* fopen fails: the file of the private key is then missing.
PrintFails ==
    /\ pc \in {"public", "private"}
    /\ pc' = "idle" /\ gen' = NoGen
    /\ UNCHANGED <<disk, means, use, s1, s2, len, result, keys, cuts>>

\* A text that another program or a person wrote.
WriteByHand ==
    /\ Fresh
    /\ \E w \in Written :
          /\ w.use = "string" => keys = <<>>
          /\ disk' = [disk EXCEPT ![w.use] = w.text]
          /\ means' = [means EXCEPT ![w.use] = w.means]
    /\ UNCHANGED <<gen, pc, use, s1, s2, len, result, keys, cuts>>

----------------------------------------------------------------------------
(* Reading a string. *)

\* The string of a text, up to the first quote with an even number of
\* backslashes in front of it; no newline may be in it without one. What
\* comes after it is not blank: a syntax error.
StringOf(text) ==
    LET blank(a, b) == \A i \in a..b : isspace(text[i])
        opens == {i \in 1..Len(text) : text[i] = QUOTE /\ blank(1, i - 1)}
        escaped(a, i) ==
            \E n \in 1..i - a - 1 :
                /\ n % 2 = 1
                /\ \A j \in i - n..i - 1 : text[j] = BACKSLASH
                /\ i - n - 1 = a \/ text[i - n - 1] # BACKSLASH
        plain(a, i, c) == text[i] = c /\ ~escaped(a, i)
        ends == {<<a, b>> \in opens \X (1..Len(text)) :
                    /\ a < b /\ plain(a, b, QUOTE)
                    /\ \A i \in a + 1..b - 1 : ~plain(a, i, QUOTE) /\ ~plain(a, i, NL)
                    /\ blank(b + 1, Len(text))}
    IN IF ends = {}
         THEN [ok |-> FALSE, body |-> <<>>]
         ELSE LET e == CHOOSE e \in ends : TRUE
              IN [ok |-> TRUE, body |-> SubSeq(text, e[1] + 1, e[2] - 1)]

\* The lexer finds the string and calls mystrncpy(s1, kntext + 1, strlen - 2):
\* the closing quote is the last that s2 may look at.
Read(file) ==
    /\ pc = "idle" /\ Len(keys) < MaxKeys
    /\ disk[file] # <<>>
    /\ LET str == StringOf(disk[file])
       IN IF str.ok
            THEN /\ pc' = "copy"
                 /\ s2' = Append(str.body, QUOTE)
                 /\ len' = Len(str.body)
                 /\ result' = NoResult
            ELSE /\ result' = Refused
                 /\ UNCHANGED <<pc, s2, len>>
    /\ use' = file
    /\ s1' = <<>>
    /\ UNCHANGED <<disk, means, gen, keys, cuts>>

is_octal(c) == c \in 48..55
\* Mutant: only escapes of two digits.
get_octal_Short(s, left) ==
    LET digit(i) == s[i] - 48
        octal(i) == i <= Len(s) /\ is_octal(s[i])
    IN IF s[1] = 48 /\ left > 0 /\ octal(2)
         THEN [c |-> digit(2), advance |-> 2]
         ELSE [c |-> 0, advance |-> 0]
\* The value of the octal escape at the head of s, 0 for none, and its length.
get_octal(s, left) ==
    LET digit(i) == s[i] - 48
        octal(i) == i <= Len(s) /\ is_octal(s[i])
        none == [c |-> 0, advance |-> 0]
    IN CASE s[1] = 48 /\ left > 0 /\ octal(2) ->
                IF octal(3) /\ left - 1 > 0
                  THEN [c |-> 8 * digit(2) + digit(3), advance |-> 3]
                  ELSE [c |-> digit(2), advance |-> 2]
         [] s[1] # 48 /\ octal(1) /\ left - 1 > 0 /\ octal(2) /\ octal(3) ->
                [c |-> (64 * digit(1) + 8 * digit(2) + digit(3)) % 256, advance |-> 3]
         [] OTHER -> none

Copying == pc = "copy" /\ len > 0
Escaping == Copying /\ Head(s2) = BACKSLASH
\* s2 and len behind the backslash and the character after it.
Escape == [s |-> Tail(s2), left |-> len - 2]
Copied(chars, adv, left) ==
    /\ s1' = s1 \o chars
    /\ s2' = SubSeq(s2, adv + 1, Len(s2))
    /\ len' = left
    /\ UNCHANGED <<disk, means, gen, pc, use, result, keys, cuts>>

CopyPlain ==
    /\ Copying /\ Head(s2) # BACKSLASH
    /\ Copied(<<Head(s2)>>, 1, len - 1)

\* A newline goes away with the whitespace behind it.
SkipNewline ==
    /\ Escaping /\ Escape.s[1] = NL
    /\ LET spaces == SelectInSeq(Tail(Escape.s), LAMBDA c : ~isspace(c)) - 1
       IN Copied(<<>>, 2 + spaces, Escape.left - spaces)

CopyOctal ==
    /\ Escaping /\ Escape.s[1] # NL
    /\ LET octal == get_octal(Escape.s, Escape.left)
       IN /\ octal.c # 0
          /\ Copied(<<octal.c>>, 1 + octal.advance, Escape.left - (octal.advance - 1))

\* n, t, r and f; any other character stands for itself.
Control == [c \in {110, 116, 114, 102} |->
               CASE c = 110 -> NL [] c = 116 -> 9 [] c = 114 -> 13 [] c = 102 -> 12]
CopyEscaped ==
    /\ Escaping /\ Escape.s[1] # NL
    /\ get_octal(Escape.s, Escape.left).c = 0
    /\ LET c == Escape.s[1]
       IN Copied(<<IF c \in DOMAIN Control THEN Control[c] ELSE c>>, 2, Escape.left)

\* The string is there: it is what was asked for, or becomes a key; a public
\* one goes into the list.
keynote_keylist_add(decoded) ==
    keys' = IF decoded.ret # 0 THEN keys
              ELSE <<[alg |-> decoded.alg, key |-> decoded.key, means |-> means[use]]>>
                     \o keys
StringIsRead ==
    /\ pc = "copy" /\ len <= 0
    /\ IF use = "string"
         THEN /\ result' = [ret |-> 0, alg |-> "NONE", key |-> String(s1)]
              /\ UNCHANGED keys
         ELSE LET decoded == kn_decode_key(s1, use)
              IN /\ result' = decoded
                 /\ IF use = "public" THEN keynote_keylist_add(decoded) ELSE UNCHANGED keys
    /\ pc' = "idle"
    /\ s1' = <<>> /\ s2' = <<>> /\ len' = 0
    /\ UNCHANGED <<disk, means, gen, use, cuts>>

Next ==
    \/ NextCommand
    \/ Generate
    \/ PrintKey("public")
    \/ PrintKey("private")
    \/ PrintFails
    \/ WriteByHand
    \/ \E file \in Files : Read(file)
    \/ CopyPlain
    \/ SkipNewline
    \/ CopyOctal
    \/ CopyEscaped
    \/ StringIsRead

Spec == Init /\ [][Next]_vars

----------------------------------------------------------------------------
(* What should be so. *)

\* The buffer of the copy is one longer than the string between its quotes,
\* and never too short; mystrncpy is at the closing quote when len is used up.
BuffersHold ==
    pc = "copy" => /\ Len(s1) + len <= Len(StringOf(disk[use]).body)
                   /\ len >= 0 /\ Len(s2) = len + 1
TypeOK ==
    /\ \A f \in Files : disk[f] \in Seq(Nat) /\ means[f] \in Meanings
    /\ pc \in {"idle", "public", "private", "copy"} /\ use \in Files
    /\ s1 \in Seq(Nat) /\ s2 \in Seq(Nat)
    /\ result.ret \in {-1, 0, RESULT_TRUE} /\ result.key \in Meanings
    /\ Len(keys) <= MaxKeys /\ cuts \in 0..MaxCuts
    /\ BuffersHold

\* RFC 2704 on strings: the escape at the head of s, s[1] being the backslash,
\* is the longest of those it lists, and an octal one of the value 0 is none.
OctalEscape(s, n) ==
    /\ n <= Len(s) /\ \A i \in 2..n : is_octal(s[i])
    /\ IF s[2] = 48 THEN n \in {3, 4} ELSE n = 4
OctalValue(s, n) ==
    FoldLeft(LAMBDA v, c : (8 * v + c - 48) % 256, 0, SubSeq(s, 2, n))
RECURSIVE Meaning(_)
Meaning(s) ==
    LET octal(n) == OctalEscape(s, n) /\ OctalValue(s, n) # 0
        rest(n) == SubSeq(s, n + 1, Len(s))
        space == SelectInSeq(Tail(s), LAMBDA c : ~isspace(c))
    IN CASE s = <<>> -> <<>>
         [] s # <<>> /\ s[1] # BACKSLASH -> <<s[1]>> \o Meaning(Tail(s))
         [] OTHER ->
              CASE s[2] = NL -> IF space = 0 THEN <<>> ELSE Meaning(rest(space))
                [] octal(4) -> <<OctalValue(s, 4)>> \o Meaning(rest(4))
                [] ~octal(4) /\ octal(3) -> <<OctalValue(s, 3)>> \o Meaning(rest(3))
                [] s[2] \in DOMAIN Control -> <<Control[s[2]]>> \o Meaning(rest(2))
                [] OTHER -> <<s[2]>> \o Meaning(rest(2))

\* What is read from a text is what it denotes: the key pair that
\* keynote-keygen made, for every offset and length of the lines, the key or
\* the string that was written with escapes and blanks, and no key at all from
\* a text that is malformed or was cut short.
TextsReadBack ==
    /\ TypeOK
    /\ pc = "idle" /\ result # NoResult =>
         IF result.ret = 0
           THEN result.key = means[use]
           ELSE means[use] = Nothing \/ ~IsSuffix(<<QUOTE, NL>>, disk[use])

\* Two texts make the same principal, as one that asks and as an authorizer
\* that is looked up by its hash, if and only if they denote the same key:
\* whether in hexadecimal or base64, on how many lines, or in a certificate.
SameKeysMeet ==
    \A i, j \in DOMAIN keys :
        LET same == keys[i].means = keys[j].means
        IN /\ keynote_in_action_authorizers({keys[i]}, keys[j]) = same
           /\ keynote_find_assertion(keys[i], keys[j]) = same

=============================================================================
