------------------------------- MODULE MCShamir -------------------------------
(* Instances of ShamirSecretSharing: every byte and every coefficient for  *)
(* one letter, and a few of them for keys of two letters of which three    *)
(* shares make a quorum.                                                   *)
EXTENDS ShamirSecretSharing

OneLetter ==
    [KSN_NUM |-> 3, SSS_T |-> 2, BLOCK_SIZE |-> 1,
     Bytes |-> 0 .. 255, Coefs |-> 0 .. PRIME - 1]

\* The values at which a carry, a sign or the code of 256 changes.
TwoLetters ==
    [KSN_NUM |-> 4, SSS_T |-> 3, BLOCK_SIZE |-> 2,
     Bytes |-> {0, 1, 127, 128, 255}, Coefs |-> {0, 1, 128, 256}]

MCSettings == {OneLetter, TwoLetters}
===============================================================================
