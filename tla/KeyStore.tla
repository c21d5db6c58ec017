------------------------------- MODULE KeyStore -------------------------------
(***************************************************************************)
(* One KeyStore process (KeyStore/KS/KeyStore_ibe.c): the branches of      *)
(* KsCallback in the modes that its arguments choose, and the restart of   *)
(* the process.  Any publisher may send any message at any time, in any    *)
(* order and any number of times: what one publisher, one broker and the   *)
(* other KeyStores restrict is added where this module is composed.        *)
(*                                                                         *)
(* A publisher's public key is named by its hash.  Encryption under a key  *)
(* is undone by that key; under another one it fails where the code checks *)
(* something, and else gives bytes (Noise) that are no key, no topic and   *)
(* no share anybody made.                                                  *)
(***************************************************************************)
EXTENDS KeyStoreDB

CONSTANTS
    NoFile,   \* the share file does not exist
    Stray     \* a share file written from the memory in front of the table

ASSUME FileAssumption == NoFile # Stray /\ {NoFile, Stray} \cap LIST = {}

VARIABLES
    enc_mode,      \* "IBE" or "PKE"
    sharing_mode,  \* "SSS" or "KSN"
    db,            \* db[MAXDBROW]
    file,          \* SHARDB/<id>.txt, the one row the policy module reads
    ks_symm_key,   \* the master key received last
    session_key,   \* the piece of a topic key received last, in KSN mode
    acked          \* acked[d]: the key of the last acknowledgement sent to d
                   \* by this incarnation of the process

modes == <<enc_mode, sharing_mode>>
vars == <<modes, db, file, ks_symm_key, session_key, acked>>

(* main: ks <id> ibe <sharing>, or ks <id> rsa <private key> <sharing>.    *)
(* With ibe the name of the sharing mode is looked for in argv[2], where   *)
(* "ibe" stands.                                                           *)
EncMode(enc) == IF enc = "ibe" THEN "IBE" ELSE "PKE"
SharingMode(enc, sharing) ==
    IF enc # "ibe" /\ sharing = "ksn" THEN "KSN" ELSE "SSS"

Init ==
    /\ \E enc \in {"ibe", "rsa"}, sharing \in {"sss", "ksn"} :
           /\ enc_mode = EncMode(enc)
           /\ sharing_mode = SharingMode(enc, sharing)
    /\ db = Initdb
    /\ file = NoFile
    /\ ks_symm_key = NoKey
    /\ session_key = NoShare
    /\ acked = [d \in Device |-> NoKey]

-------------------------------------------------------------------------------
(***************************************************************************)
(* Phase I, <base>/<client>/value/<id>: a master key k, with the public    *)
(* key of device d in clear.                                               *)
(***************************************************************************)

(* The pairing gives a pad for the exclusive or, with nothing to check:    *)
(* always some key and some hash come out.                                 *)
ibe_decryption(d, k, mine) ==
    IF mine THEN {[key |-> k, hash |-> d]}
            ELSE {[key |-> n, hash |-> NoHash] : n \in Noise}

\* The padding of PKCS #1 is checked.  The message has no hash of the public
\* key: r_hiotpk is what an earlier call left on the stack.
rsa_decryption(d, k, mine) ==
    IF mine THEN {[key |-> k, hash |-> h] : h \in Device \cup {NoHash}}
            ELSE {}

\* mine: encrypted in this mode and for this KeyStore.
Opened(d, k, mine) ==
    IF enc_mode = "IBE" THEN ibe_decryption(d, k, mine)
                        ELSE rsa_decryption(d, k, mine)

(* The hash is right: the acknowledgement is published before AddsymK      *)
(* runs; what AddsymK returns is only printed.                             *)
OnValue(d, k) ==
    /\ \E p \in Opened(d, k, TRUE) : p.hash = d
    /\ ks_symm_key' = k
    /\ acked' = [acked EXCEPT ![d] = k]
    /\ db' = AddsymK(db, d, k)
    /\ UNCHANGED <<modes, file, session_key>>

\* The hash is not that of the public key: the handler returns.
OnValueManipulated(d, k, mine) ==
    /\ \E p \in Opened(d, k, mine) :
           /\ p.hash # d
           /\ ks_symm_key' = p.key
    /\ UNCHANGED <<modes, db, file, session_key, acked>>

\* The RSA decryption fails, after ks_symm_key was cleared.
OnValueUndecrypted(d, k) ==
    /\ Opened(d, k, FALSE) = {}
    /\ ks_symm_key' = NoKey
    /\ UNCHANGED <<modes, db, file, session_key, acked>>

-------------------------------------------------------------------------------
(***************************************************************************)
(* Phase 2, <base>/<client>/sk/<id>.                                       *)
(***************************************************************************)

\* The plaintext of <<t, s>> sent under k when the key held is h.  The tag
\* check of aes_gcm_decrypt goes into res, and KsCallback tests rc instead.
Decrypted(h, k, t, s) == IF h = k THEN {<<t, s>>} ELSE Noise \X Noise

\* SaveShar(id, db[rown]): db[-1] is outside the table.
SaveShar(tab, rown) == IF rown = -1 THEN Stray ELSE tab[rown]

\* Mutant of OnShare: SaveShar is called before Addshare.
OnShare_SavesFirst(d, k, t, s) ==
    /\ sharing_mode = "SSS"
    /\ \E p \in Decrypted(GetSymK(db, d), k, t, s) :
           /\ db' = Addshare(db, d, p[1], p[2])
           /\ file' = SaveShar(db, AddshareResult(db, d, p[1]))
    /\ UNCHANGED <<modes, ks_symm_key, session_key, acked>>

(* Shamir sharing.  A device that is not in the table is decrypted with    *)
(* whatever its stack buffer holds, which Addshare drops.                  *)
OnShare(d, k, t, s) ==
    /\ sharing_mode = "SSS"
    /\ \E p \in Decrypted(GetSymK(db, d), k, t, s) :
           /\ db' = Addshare(db, d, p[1], p[2])
           /\ file' = SaveShar(db', AddshareResult(db, d, p[1]))
    /\ UNCHANGED <<modes, ks_symm_key, session_key, acked>>

\* AES-CBC without padding decrypts any whole blocks to something.
aes_decryption(h, k, s) == IF h = k THEN {s} ELSE Noise

(* Key splitting.  The piece is decrypted with the key received last, by   *)
(* whomever, and kept in a variable; the table and the file do not get it. *)
OnPiece(k, s) ==
    /\ sharing_mode = "KSN"
    /\ session_key' \in aes_decryption(ks_symm_key, k, s)
    /\ UNCHANGED <<modes, db, file, ks_symm_key, acked>>

-------------------------------------------------------------------------------
\* The table is in memory only, and the file is written and never read back.
Restart ==
    /\ db' = Initdb
    /\ ks_symm_key' = NoKey
    /\ session_key' = NoShare
    /\ acked' = [d \in Device |-> NoKey]
    /\ UNCHANGED <<modes, file>>

Next ==
    \/ \E d \in Device, k \in Key :
           \/ OnValue(d, k)
           \/ \E mine \in BOOLEAN : OnValueManipulated(d, k, mine)
           \/ OnValueUndecrypted(d, k)
    \/ \E d \in Device, k \in Key, t \in Topic, s \in Share :
           OnShare(d, k, t, s)
    \/ \E k \in Key, s \in Share : OnPiece(k, s)
    \/ Restart

Spec == Init /\ [][Next]_vars

-------------------------------------------------------------------------------
(***************************************************************************)
(* The table and the file have the types of db.h; a row in use is never    *)
(* without a device and a key.                                             *)
(***************************************************************************)
TableTypeOK ==
    /\ db \in [Row -> LIST]
    /\ file \in LIST \cup {NoFile, Stray}
    /\ acked \in [Device -> Key \cup {NoKey}]
    /\ \A i \in UsedRows(db) : db[i].hiot \in Device /\ db[i].msymk \in Key

\* Key splitting is out of reach with IBE; without it no piece is kept.
GlobalsTypeOK ==
    /\ <<enc_mode, sharing_mode>> \in
           {<<"IBE", "SSS">>, <<"PKE", "SSS">>, <<"PKE", "KSN">>}
    /\ ks_symm_key \in Key \cup Noise \cup {NoKey}
    /\ session_key \in ShareBytes \cup {NoShare}
    /\ sharing_mode = "SSS" => session_key = NoShare

TypeOK == TableTypeOK /\ GlobalsTypeOK

(* A row never used is still all zeroes: GetSymK and Getindex, which do    *)
(* not test isuded, rely on it.                                            *)
FreeRowsAreZero == \A i \in FreeRows(db) : db[i] = EmptyRow

(* All the rows of a device hold the same master key, whichever of them    *)
(* GetSymK finds first and whichever AddRow copies from.                   *)
OneKeyPerDevice ==
    \A i, j \in UsedRows(db) :
        db[i].hiot = db[j].hiot => db[i].msymk = db[j].msymk

(* A device and a topic have one row, so that GetShare's first match is    *)
(* the latest share; and a row without topic is the only one of its        *)
(* device, so that the topic Addshare gives it is not in another row.      *)
OneRowPerTopic ==
    \A i, j \in UsedRows(db) :
        /\ i # j
        /\ db[i].hiot = db[j].hiot
        => /\ db[i].htpk # db[j].htpk
           /\ Hastopic(db[i])

(* The searches of db.c, which stop at different rows and test different   *)
(* fields, agree: free rows cannot match, whichever row of a device is     *)
(* found has its key, and a topic is found wherever the search ends.       *)
TableConsistent == FreeRowsAreZero /\ OneKeyPerDevice /\ OneRowPerTopic

(* A key in the table is the one its device was acknowledged last: no      *)
(* share handling and no other device's handshake changes it.              *)
HeldKeyIsAcked == \A i \in UsedRows(db) : db[i].msymk = acked[db[i].hiot]

(* An acknowledged device without a row means that the table had no room,  *)
(* and it still has none: rows are never freed.                            *)
AckLostOnlyWhenFull ==
    \A d \in Device :
        acked[d] # NoKey /\ UsedRowsOf(db, d) = {} => FreeRows(db) = {}

(* What a device was acknowledged, the table keeps as it is; only a table  *)
(* that is full may do without, although the acknowledgement was sent      *)
(* before the row was looked for.                                          *)
AcksAreKept == HeldKeyIsAcked /\ AckLostOnlyWhenFull

(* Whenever the file names a device and a topic that the table also has,   *)
(* it has the share of the table: the policy module, which sees only the   *)
(* file, never hands out an older share of that topic.                     *)
FileShareIsCurrent ==
    file \in LIST =>
        \A i \in UsedRows(db) :
            db[i].hiot = file.hiot /\ db[i].htpk = file.htpk
                => db[i].shar = file.shar

-------------------------------------------------------------------------------
(***************************************************************************)
(* The table implements the partial maps of ShareStore: an entry is there  *)
(* when a used row has it.                                                 *)
(***************************************************************************)
KeyOf(tab, d) ==
    IF UsedRowsOf(tab, d) = {}
    THEN NoKey
    ELSE tab[CHOOSE i \in UsedRowsOf(tab, d) : TRUE].msymk

RowsWith(tab, d, t) == {i \in UsedRowsOf(tab, d) : tab[i].htpk = t}

ShareOf(tab, d, t) ==
    IF RowsWith(tab, d, t) = {}
    THEN NoShare
    ELSE tab[CHOOSE i \in RowsWith(tab, d, t) : TRUE].shar

Store == INSTANCE ShareStore WITH
    key   <- [d \in Device |-> KeyOf(db, d)],
    share <- [d \in Device |-> [t \in TopicHash |-> ShareOf(db, d, t)]]

(* Every step of the process is a step of the abstract store: a message    *)
(* changes the entry it addresses and no other, and only a restart forgets.*)
ImplementsShareStore == Store!StoreSpec

===============================================================================
