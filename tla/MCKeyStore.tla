------------------------------ MODULE MCKeyStore ------------------------------
(* Instances of KeyStore: a table of three rows for two publishers with    *)
(* two topics each, so that it fills up, and two keys to change between.   *)
EXTENDS KeyStore, TLC

CONSTANTS d1, d2, t1, t2, k1, k2, s1, s2, n1

MCDevice == {d1, d2}
MCTopic == {t1, t2}
MCKey == {k1, k2}
MCShare == {s1, s2}
MCNoise == {n1}

\* Nothing distinguishes the members of a set, and no property is temporal
\* beyond one step.
Symmetry ==
    UNION {Permutations(S) : S \in {MCDevice, MCTopic, MCKey, MCShare}}
===============================================================================
