-------------------------- MODULE ShamirSecretSharing --------------------------
(***************************************************************************)
(* How a topic key is split into shares and joined again                   *)
(* (ESP32/SEEMQTT/shamirsecretshare.c and its copy in Subscriber/): each   *)
(* byte of the key is the constant term of a polynomial over the integers  *)
(* modulo PRIME, the share of KeyStore x has the values of the polynomials *)
(* at x, and a join interpolates at zero, in C's signed arithmetic.        *)
(*                                                                         *)
(* The split goes letter by letter as split_string does; what can be       *)
(* joined at the end is stated for every quorum.                           *)
(***************************************************************************)
EXTENDS Integers, FiniteSetsExt, SequencesExt

CONSTANTS
    PRIME,      \* the modulus
    Settings    \* records of the constants below

Setting ==
    [KSN_NUM : Nat, SSS_T : Nat, BLOCK_SIZE : Nat \ {0},
     Bytes : SUBSET (0 .. 255), Coefs : SUBSET (0 .. PRIME - 1)]

ASSUME SharingAssumption ==
    /\ Settings \subseteq Setting
    /\ \A c \in Settings :
           /\ 1 <= c.SSS_T /\ c.SSS_T <= c.KSN_NUM /\ c.KSN_NUM < PRIME
           /\ c.Bytes \subseteq 0 .. PRIME - 1

VARIABLES setting,  \* the constants that the program was built with
          secret,   \* the key
          i,        \* letters split so far
          shares    \* shares[x]: the line of share x

KSN_NUM == setting.KSN_NUM        \* number of shares
SSS_T == setting.SSS_T            \* shares that make a quorum
BLOCK_SIZE == setting.BLOCK_SIZE  \* bytes of a key
Bytes == setting.Bytes            \* bytes keys are made of
Coefs == setting.Coefs            \* coefficients rand() comes up with

vars == <<setting, secret, i, shares>>

-------------------------------------------------------------------------------
\* C's remainder has the sign of the dividend.
Rem(a) == IF a >= 0 THEN a % PRIME ELSE -((-a) % PRIME)

RECURSIVE modular_exponentiation(_, _)
modular_exponentiation(base, exp) ==
    IF exp = 0 THEN 1
    ELSE IF exp % 2 = 0
    THEN LET mysqrt == modular_exponentiation(base, exp \div 2)
         IN  (mysqrt * mysqrt) % PRIME
    ELSE (base * modular_exponentiation(base, exp - 1)) % PRIME

\* Mutant of split_number: the polynomials are evaluated from 0 on.
split_number_FromZero(coef, x) ==
    LET term(k) == (coef[k] * modular_exponentiation(x - 1, k)) % PRIME
    IN  FoldLeft(LAMBDA y, k : (y + term(k)) % PRIME,
                 coef[0], [k \in 1 .. SSS_T - 1 |-> k])

\* The chunk of share x; coef[0] is the letter.
split_number(coef, x) ==
    LET term(k) == (coef[k] * modular_exponentiation(x, k)) % PRIME
    IN  FoldLeft(LAMBDA y, k : (y + term(k)) % PRIME,
                 coef[0], [k \in 1 .. SSS_T - 1 |-> k])

\* Extended Euclid: <<gcd, s, t>> with gcd = s * a + t * b.
RECURSIVE gcdD(_, _)
gcdD(a, b) ==
    IF b = 0 THEN <<a, 1, 0>>
    ELSE LET r == gcdD(b, a % b)
         IN  <<r[1], r[3], r[2] - r[3] * (a \div b)>>

\* Mutant of modInverse: the sign of k is dropped.
modInverse_Unsigned(k) ==
    LET m == Rem(k)
    IN  (PRIME + gcdD(PRIME, IF m < 0 THEN -m ELSE m)[3]) % PRIME

modInverse(k) ==
    LET m == Rem(k)
        r == IF m < 0 THEN -gcdD(PRIME, -m)[3] ELSE gcdD(PRIME, m)[3]
    IN  (PRIME + r) % PRIME

\* Interpolation at zero; xy is a sequence of points <<x, y>>.
join_shares(xy) ==
    LET Others(p) == (DOMAIN xy) \ {p}
        numerator(p) ==
            FoldSet(LAMBDA q, v : Rem(v * (-xy[q][1])), 1, Others(p))
        denominator(p) ==
            FoldSet(LAMBDA q, v : Rem(v * (xy[p][1] - xy[q][1])), 1, Others(p))
        term(p) == xy[p][2] * numerator(p) * modInverse(denominator(p))
        sum == FoldLeft(LAMBDA s, p : Rem(s + term(p)),
                        0, [p \in DOMAIN xy |-> p])
    IN  (sum + PRIME) % PRIME

-------------------------------------------------------------------------------
\* Mutant of Codon: 256 is not replaced.
Codon_ThreeDigits(chunk) ==
    IF chunk = 256 THEN <<1, 0, 0>> ELSE <<chunk \div 16, chunk % 16>>

\* "%02X" has two digits, and 256, which needs a third, is "G0": G is 16.
Codon(chunk) == IF chunk = 256 THEN <<16, 0>> ELSE <<chunk \div 16, chunk % 16>>

\* strtol stops at a G.
strtol(codon) == IF codon[1] > 15 THEN 0 ELSE 16 * codon[1] + codon[2]

\* Mutant of Chunk: strtol alone.
Chunk_WithoutG(codon) == strtol(codon)

Chunk(codon) == IF codon = <<16, 0>> THEN 256 ELSE strtol(codon)

\* The key is a C string: it ends at its first zero.
strlen(s) ==
    Min({k \in 0 .. BLOCK_SIZE : k = BLOCK_SIZE \/ s[k + 1] = 0})

\* char letter = join_shares(...): the value modulo 256.
join_strings(lines) ==
    [k \in 1 .. Len(lines[1]) - 1 |->
        join_shares([p \in DOMAIN lines |->
                        <<strtol(lines[p][1]), Chunk(lines[p][k + 1])>>]) % 256]

\* extract_secret_from_share_strings of the publisher and of the subscriber:
\* the first joins t of the lines, the second all it got.
ExtractFirst(lines, t) ==
    IF Len(lines) < t THEN <<>> ELSE join_strings(SubSeq(lines, 1, t))

ExtractAll(lines) == join_strings(lines)

-------------------------------------------------------------------------------
Init ==
    /\ setting \in Settings
    /\ secret \in [1 .. BLOCK_SIZE -> Bytes]
    /\ i = 0
    /\ shares = [x \in 1 .. KSN_NUM |-> <<Codon(x)>>]

\* The coefficients of one letter, the letter first.
Polynomial(letter, c) ==
    [k \in 0 .. SSS_T - 1 |-> IF k = 0 THEN letter ELSE c[k]]

\* One turn of the loop of split_string.
SplitLetter ==
    /\ i < strlen(secret)
    /\ i' = i + 1
    /\ \E c \in [1 .. SSS_T - 1 -> Coefs] :
           LET coef == Polynomial(secret[i + 1], c)
           IN  shares' = [x \in 1 .. KSN_NUM |->
                             Append(shares[x], Codon(split_number(coef, x)))]
    /\ UNCHANGED <<setting, secret>>

Next == SplitLetter

Spec == Init /\ [][Next]_vars

-------------------------------------------------------------------------------
\* The shares are lines of the same length, of two characters per letter.
TypeOK ==
    /\ setting \in Settings
    /\ secret \in [1 .. BLOCK_SIZE -> Bytes]
    /\ i \in 0 .. BLOCK_SIZE
    /\ \A x \in 1 .. KSN_NUM :
           /\ Len(shares[x]) = i + 1
           /\ \A k \in 1 .. i + 1 :
                  shares[x][k] \in ((0 .. 15) \X (0 .. 15)) \cup {<<16, 0>>}

\* What can be handed to a join: shares of m KeyStores, in any order.
Quorums(m) ==
    {[p \in 1 .. m |-> shares[q[p]]] :
        q \in {q \in [1 .. m -> 1 .. KSN_NUM] : IsInjective(q)}}

(* Any SSS_T shares or more, of any KeyStores and in any order, join to    *)
(* the letters that were split, whatever the coefficients were; both       *)
(* copies of the code agree.  Shares have their type.                      *)
AnyQuorumRecovers ==
    TypeOK /\ \A m \in SSS_T .. KSN_NUM : \A lines \in Quorums(m) :
        /\ ExtractAll(lines) = SubSeq(secret, 1, i)
        /\ ExtractFirst(lines, SSS_T) = SubSeq(secret, 1, i)

(* Fewer shares tell nothing of a letter: the chunks that SSS_T - 1        *)
(* KeyStores get take every combination of values for every letter, each   *)
(* for one choice of the coefficients, so that uniform coefficients make   *)
(* them uniform.  (For the settings in which rand() gives every value.)     *)
FewerTellNothing ==
    i < BLOCK_SIZE /\ Coefs = 0 .. PRIME - 1 =>
        \A X \in kSubset(SSS_T - 1, 1 .. KSN_NUM) :
            LET Seen(c) == [x \in X |->
                               split_number(Polynomial(secret[i + 1], c), x)]
            IN  Cardinality({Seen(c) : c \in [1 .. SSS_T - 1 -> 0 .. PRIME - 1]})
                    = PRIME ^ (SSS_T - 1)
===============================================================================
