-------------------------- MODULE MCKeyNoteAssertion --------------------------
(***************************************************************************)
(* The instance of KeyNoteAssertion: two RSA pairs and a DSA pair, the     *)
(* first also under a certificate; texts of up to three lines of the kinds *)
(* below, with or without a Signature field behind them, signed once in    *)
(* every way and then changed in one line.                                 *)
(***************************************************************************)
EXTENDS KeyNoteAssertion

CONSTANTS p1, p2, p3, rsa1, cert1, rsa2, dsa3, Policy

Pairs == {p1, p2, p3}
AlgOfPair == [p \in Pairs |-> IF p = p3 THEN "DSA" ELSE "RSA"]
Principals == {rsa1, cert1, rsa2, dsa3, Policy}
PairOf == [p \in Principals |->
              CASE p \in {rsa1, cert1} -> p1 [] p = rsa2 -> p2 [] p = dsa3 -> p3
                [] OTHER -> None]
AlgOf == [p \in Principals |->
             CASE p \in {rsa1, rsa2} -> "RSA" [] p = cert1 -> "X509"
               [] p = dsa3 -> "DSA" [] OTHER -> "NONE"]

L(w, v) == [word |-> w, value |-> v]

Lines == {L("blank", Good), L("#", Good), L("local-constants", rsa1),
          L("authorizer", rsa1), L("authorizer", Const)}
MoreLines == Lines \union {L("white", Good), L("version", Good), L("co", Good),
                          L("authorizer", cert1)}
Start == [1 .. 3 -> Lines] \union [1 .. 2 -> MoreLines] \union [{1} -> MoreLines]
Files == {t \in Start : \E n \in DOMAIN t : t[n].word = "authorizer"}
FilesToSign == Files \union {<<L("blank", Good)>>}
                   \union {Append(t, L("signature", Unknown)) : t \in Files}
                   \union {<<L("authorizer", Policy), L("signature", Unknown)>>}

Edits ==
    {L("blank", Good), L("white", Good), L("#", Good), L("junk", Good),
     L("co", Empty), L("licensees", Good), L("local-constants", rsa2),
     L("local-constants", Empty), L("local-constants", Bad),
     L("authorizer", rsa2), L("authorizer", dsa3), L("authorizer", Policy),
     L("authorizer", Bad), L("version", Bad), L("signature", Garbled),
     L("signature", Bad), L("signature", 1)}
===============================================================================
