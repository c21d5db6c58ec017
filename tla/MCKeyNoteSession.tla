--------------------------- MODULE MCKeyNoteSession ---------------------------
(***************************************************************************)
(* A small instance of KeyNoteSession: two keys that hash to different     *)
(* buckets, and assertions of which each has another field that changes    *)
(* with the action attribute, or that does not parse.                      *)
(***************************************************************************)
EXTENDS KeyNoteSession

CONSTANTS k1, k2

MCKey == {k1, k2}
MCkeyhash == [p \in MCKey \union {Nobody} |-> IF p = k1 THEN 0 ELSE 1]
MCTexts ==
    {[auth |-> Var, lics |-> k2, sig |-> k1, local |-> FALSE],
     [auth |-> k1, lics |-> Var, sig |-> Var, local |-> FALSE],
     [auth |-> Bad, lics |-> Bad, sig |-> k1, local |-> TRUE]}
===============================================================================
