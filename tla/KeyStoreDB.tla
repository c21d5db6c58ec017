------------------------------ MODULE KeyStoreDB ------------------------------
(***************************************************************************)
(* The table a KeyStore keeps in memory (KeyStore/KS/db.c): MAXDBROW rows, *)
(* each binding the hash of a publisher's public key and the hash of a     *)
(* topic to the publisher's master key and to the share of the topic key.  *)
(* The operators take the table as an argument, so that one module serves  *)
(* a single KeyStore and a system of several.                              *)
(*                                                                         *)
(* Hashes, keys and shares are values compared for equality only, which is *)
(* all that db.c does with them (memcmp, memcpy).                          *)
(***************************************************************************)
EXTENDS Integers, FiniteSetsExt

CONSTANTS
    MAXDBROW,   \* number of rows of the table
    Device,     \* hashes of publishers' public keys
    Topic,      \* hashes of topic names
    Key,        \* master keys
    Share,      \* shares of topic keys
    Noise,      \* bytes that come out of a decryption under a wrong key
    NoHash, NoKey, NoShare   \* the zero bytes of a row never written

ASSUME RowsAssumption == MAXDBROW \in Nat \ {0}
ASSUME ZeroAssumption ==
    /\ NoHash \notin Device \cup Topic \cup Noise
    /\ NoKey \notin Key
    /\ NoShare \notin Share \cup Noise

Row == 0 .. MAXDBROW - 1

TopicHash == Topic \cup Noise
ShareBytes == Share \cup Noise

\* typedef struct list ... LIST
LIST == [hiot   : Device \cup {NoHash},
         htpk   : TopicHash \cup {NoHash},
         msymk  : Key \cup {NoKey},
         shar   : ShareBytes \cup {NoShare},
         isuded : {0, 1}]

EmptyRow == [hiot |-> NoHash, htpk |-> NoHash, msymk |-> NoKey,
             shar |-> NoShare, isuded |-> 0]

\* Initlst gets its row by value, so the loop clears copies; the table is
\* zero because it is static.
Initdb == [i \in Row |-> EmptyRow]

UsedRows(tab) == {i \in Row : tab[i].isuded = 1}
FreeRows(tab) == {i \in Row : tab[i].isuded = 0}
UsedRowsOf(tab, iotid) == {i \in UsedRows(tab) : tab[i].hiot = iotid}

Hastopic(row) == row.htpk # NoHash

\* The row the search of GetSymK stops at; it does not look at isuded.
Getindex(tab, iotid) ==
    LET hits == {i \in Row : tab[i].hiot = iotid}
    IN  IF hits = {} THEN -1 ELSE Min(hits)

\* The key GetSymK copies out; NoKey stands for the caller's uninitialized
\* buffer, left alone when no row matches.
GetSymK(tab, iotid) ==
    LET i == Getindex(tab, iotid)
    IN  IF i = -1 THEN NoKey ELSE tab[i].msymk

\* Mutant of AddsymK: the new row does not get the key.
AddsymK_WithoutKey(tab, iotid, symk) ==
    IF UsedRowsOf(tab, iotid) = {} /\ FreeRows(tab) # {}
    THEN [tab EXCEPT ![Min(FreeRows(tab))].hiot = iotid,
                     ![Min(FreeRows(tab))].isuded = 1]
    ELSE tab

\* Mutant of AddsymK: the new row is not marked as used.
AddsymK_NotMarked(tab, iotid, symk) ==
    IF UsedRowsOf(tab, iotid) = {} /\ FreeRows(tab) # {}
    THEN [tab EXCEPT ![Min(FreeRows(tab))].hiot = iotid,
                     ![Min(FreeRows(tab))].msymk = symk]
    ELSE tab

\* Mutant of AddsymK: the search stops at the first row of the device.
AddsymK_FirstRow(tab, iotid, symk) ==
    IF UsedRowsOf(tab, iotid) # {}
    THEN [tab EXCEPT ![Min(UsedRowsOf(tab, iotid))].msymk = symk]
    ELSE IF FreeRows(tab) # {}
    THEN [tab EXCEPT ![Min(FreeRows(tab))] =
             [@ EXCEPT !.hiot = iotid, !.msymk = symk, !.isuded = 1]]
    ELSE tab

\* Mutant of AddsymK: a known device keeps its key.
AddsymK_KeepsKey(tab, iotid, symk) ==
    IF UsedRowsOf(tab, iotid) = {} /\ FreeRows(tab) # {}
    THEN [tab EXCEPT ![Min(FreeRows(tab))] =
             [@ EXCEPT !.hiot = iotid, !.msymk = symk, !.isuded = 1]]
    ELSE tab

\* Mutant of AddsymK: the loop over the rows ends one early.
AddsymK_LastRowSkipped(tab, iotid, symk) ==
    IF UsedRowsOf(tab, iotid) = {} /\ FreeRows(tab) \ {MAXDBROW - 1} # {}
    THEN [tab EXCEPT ![Min(FreeRows(tab) \ {MAXDBROW - 1})] =
             [@ EXCEPT !.hiot = iotid, !.msymk = symk, !.isuded = 1]]
    ELSE [i \in Row |-> IF i \in UsedRowsOf(tab, iotid)
                        THEN [tab[i] EXCEPT !.msymk = symk]
                        ELSE tab[i]]

\* AddsymK: every row of a known device gets the new key, a new device gets
\* the first free row, and a full table drops the key.
AddsymK(tab, iotid, symk) ==
    IF UsedRowsOf(tab, iotid) # {}
    THEN [i \in Row |-> IF i \in UsedRowsOf(tab, iotid)
                        THEN [tab[i] EXCEPT !.msymk = symk]
                        ELSE tab[i]]
    ELSE IF FreeRows(tab) # {}
    THEN [tab EXCEPT ![Min(FreeRows(tab))] =
             [tab[Min(FreeRows(tab))] EXCEPT !.hiot = iotid,
                                             !.msymk = symk,
                                             !.isuded = 1]]
    ELSE tab

\* Mutant of TopicRows: a share of a known topic does not replace the old one.
TopicRows_FirstShareOnly(tab, iotid, tpkid) ==
    {i \in UsedRowsOf(tab, iotid) : ~Hastopic(tab[i])}

\* Mutant of TopicRows: the device is not compared.
TopicRows_AnyDevice(tab, iotid, tpkid) ==
    {i \in UsedRows(tab) : ~Hastopic(tab[i]) \/ tab[i].htpk = tpkid}

\* The rows at which the scan of Addshare can stop: no topic yet, or this one.
TopicRows(tab, iotid, tpkid) ==
    {i \in UsedRowsOf(tab, iotid) : ~Hastopic(tab[i]) \/ tab[i].htpk = tpkid}

\* What Addshare returns: the row it wrote, or -1 for an unknown device and
\* for a table without room (AddRow).
AddshareResult(tab, iotid, tpkid) ==
    IF TopicRows(tab, iotid, tpkid) # {}
    THEN Min(TopicRows(tab, iotid, tpkid))
    ELSE IF UsedRowsOf(tab, iotid) # {} /\ FreeRows(tab) # {}
    THEN Min(FreeRows(tab))
    ELSE -1

\* Addshare with AddRow: a new row takes the key of the last row of the device.
Addshare(tab, iotid, tpkid, share) ==
    LET i == AddshareResult(tab, iotid, tpkid)
    IN  IF i = -1
        THEN tab
        ELSE [tab EXCEPT ![i] =
                 [hiot   |-> iotid,
                  htpk   |-> tpkid,
                  msymk  |-> IF TopicRows(tab, iotid, tpkid) # {}
                             THEN tab[i].msymk
                             ELSE tab[Max(UsedRowsOf(tab, iotid))].msymk,
                  shar   |-> share,
                  isuded |-> 1]]
===============================================================================
