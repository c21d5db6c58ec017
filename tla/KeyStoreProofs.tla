---------------------------- MODULE KeyStoreProofs ----------------------------
(***************************************************************************)
(* The invariants of KeyStore for a table of any size and any sets of      *)
(* devices, topics, keys and shares.                                       *)
(***************************************************************************)
EXTENDS KeyStore, WellFoundedInduction, TLAPS

\* A non-empty set of naturals has a least element.
LEMMA LeastNatural ==
    ASSUME NEW S \in SUBSET Nat, S # {}
    PROVE  \E x \in S : \A y \in S : x <= y
<1> DEFINE R == {ss \in Nat \X Nat : ss[1] < ss[2]}
<1>1. R = OpToRel(<, Nat)
  BY DEF OpToRel
<1>2. IsWellFoundedOn(R, Nat)
  BY <1>1, NatLessThanWellFounded
<1>3. PICK x \in S : \A y \in S : ~ (<<y, x>> \in R)
  <2> HIDE DEF R
  <2> QED BY <1>2, WFMin
<1>4. ASSUME NEW y \in S PROVE x <= y
  <2>1. x \in Nat /\ y \in Nat
    OBVIOUS
  <2>2. ~ (<<y, x>> \in R)
    BY <1>3
  <2>3. ~ (y < x)
    BY <2>1, <2>2
  <2>4. QED BY <2>1, <2>3
<1>5. QED BY <1>4

\* The first and the last row of a set of rows are rows of the set.
LEMMA MinOfRows ==
    ASSUME NEW S \in SUBSET Row, S # {}
    PROVE  Min(S) \in S
<1>1. S \in SUBSET Nat
  BY RowsAssumption DEF Row
<1>2. \E x \in S : \A y \in S : x <= y
  BY <1>1, LeastNatural
<1>3. QED BY <1>2 DEF Min

\* The greatest of some rows is one of them.
LEMMA MaxOfRows ==
    ASSUME NEW S \in SUBSET Row, S # {}
    PROVE  Max(S) \in S
<1> DEFINE T == {MAXDBROW - x : x \in S}
<1>1. T \in SUBSET Nat /\ T # {} /\ S \in SUBSET Nat
  <2>1. \A x \in S : x \in Nat /\ MAXDBROW - x \in Nat
    BY RowsAssumption DEF Row
  <2>2. QED BY <2>1
<1>2. PICK z \in T : \A y \in T : z <= y
  <2> HIDE DEF T
  <2> QED BY <1>1, LeastNatural
<1>3. PICK x \in S : z = MAXDBROW - x
  OBVIOUS
<1>4. \A y \in S : x >= y
  BY <1>1, <1>2, <1>3, RowsAssumption
<1>5. QED BY <1>4 DEF Max

-------------------------------------------------------------------------------
(***************************************************************************)
(* What the two operations of db.c do to a table, case by case.            *)
(***************************************************************************)

\* AddsymK rewrites the key of a known device's rows, or takes a free row,
\* or finds no row and does nothing.
LEMMA AddsymKCases ==
    ASSUME NEW tab, NEW d, NEW k
    PROVE  \/ /\ UsedRowsOf(tab, d) # {}
              /\ AddsymK(tab, d, k) =
                     [i \in Row |-> IF i \in UsedRowsOf(tab, d)
                                    THEN [tab[i] EXCEPT !.msymk = k]
                                    ELSE tab[i]]
           \/ \E n \in FreeRows(tab) :
                  /\ UsedRowsOf(tab, d) = {}
                  /\ AddsymK(tab, d, k) =
                         [tab EXCEPT ![n] = [tab[n] EXCEPT !.hiot = d,
                                                           !.msymk = k,
                                                           !.isuded = 1]]
           \/ /\ UsedRowsOf(tab, d) = {}
              /\ FreeRows(tab) = {}
              /\ AddsymK(tab, d, k) = tab
<1>1. FreeRows(tab) # {} => Min(FreeRows(tab)) \in FreeRows(tab)
  BY MinOfRows DEF FreeRows
<1>2. CASE UsedRowsOf(tab, d) # {}
  BY <1>2 DEF AddsymK
<1>3. CASE UsedRowsOf(tab, d) = {} /\ FreeRows(tab) # {}
  <2>1. AddsymK(tab, d, k) =
            [tab EXCEPT ![Min(FreeRows(tab))] =
                [tab[Min(FreeRows(tab))] EXCEPT !.hiot = d,
                                                !.msymk = k,
                                                !.isuded = 1]]
    BY <1>3 DEF AddsymK
  <2>2. QED BY <1>1, <1>3, <2>1
<1>4. CASE UsedRowsOf(tab, d) = {} /\ FreeRows(tab) = {}
  BY <1>4 DEF AddsymK
<1>5. QED BY <1>2, <1>3, <1>4

\* Addshare writes one row: a row of the device without topic or with this
\* one, or a free row that gets the key of another row of the device; or it
\* writes none, for a device that is not there and for a full table.
LEMMA AddshareCases ==
    ASSUME NEW tab, NEW d, NEW t, NEW s
    PROVE  LET i == AddshareResult(tab, d, t)
           IN  \/ /\ i = -1
                  /\ Addshare(tab, d, t, s) = tab
               \/ /\ i \in TopicRows(tab, d, t)
                  /\ Addshare(tab, d, t, s) =
                         [tab EXCEPT ![i] = [hiot |-> d, htpk |-> t,
                                             msymk |-> tab[i].msymk,
                                             shar |-> s, isuded |-> 1]]
               \/ /\ i \in FreeRows(tab)
                  /\ TopicRows(tab, d, t) = {}
                  /\ \E j \in UsedRowsOf(tab, d) :
                         Addshare(tab, d, t, s) =
                             [tab EXCEPT ![i] = [hiot |-> d, htpk |-> t,
                                                 msymk |-> tab[j].msymk,
                                                 shar |-> s, isuded |-> 1]]
<1> DEFINE i == AddshareResult(tab, d, t)
<1>1. /\ TopicRows(tab, d, t) \in SUBSET Row
      /\ FreeRows(tab) \in SUBSET Row
      /\ UsedRowsOf(tab, d) \in SUBSET Row
  BY DEF TopicRows, FreeRows, UsedRowsOf, UsedRows
<1>2. i # -1 <=> i \in Row
  <2>1. \A r \in Row : r # -1
    BY RowsAssumption DEF Row
  <2>2. QED BY <1>1, <2>1, MinOfRows DEF AddshareResult
<1>3. CASE TopicRows(tab, d, t) # {}
  <2>1. i \in TopicRows(tab, d, t)
    BY <1>1, <1>3, MinOfRows DEF AddshareResult
  <2>2. i # -1
    BY <1>1, <1>2, <2>1
  <2>3. QED BY <1>3, <2>1, <2>2 DEF Addshare
<1>4. CASE /\ TopicRows(tab, d, t) = {}
           /\ UsedRowsOf(tab, d) # {} /\ FreeRows(tab) # {}
  <2>1. i \in FreeRows(tab)
    BY <1>1, <1>4, MinOfRows DEF AddshareResult
  <2>2. i # -1
    BY <1>1, <1>2, <2>1
  <2>3. Max(UsedRowsOf(tab, d)) \in UsedRowsOf(tab, d)
    BY <1>1, <1>4, MaxOfRows
  <2>4. QED BY <1>4, <2>1, <2>2, <2>3 DEF Addshare
<1>5. CASE /\ TopicRows(tab, d, t) = {}
           /\ UsedRowsOf(tab, d) = {} \/ FreeRows(tab) = {}
  BY <1>5 DEF Addshare, AddshareResult
<1>6. QED BY <1>3, <1>4, <1>5

-------------------------------------------------------------------------------
(***************************************************************************)
(* The inductive invariant.  The file never holds a row without a topic:   *)
(* SaveShar is only called on the row Addshare wrote.                      *)
(***************************************************************************)
FileHasTopic == file \in LIST => file.htpk \in TopicHash

Inv ==
    /\ TableTypeOK
    /\ FreeRowsAreZero
    /\ OneKeyPerDevice
    /\ OneRowPerTopic
    /\ HeldKeyIsAcked
    /\ AckLostOnlyWhenFull
    /\ FileHasTopic
    /\ FileShareIsCurrent

\* The invariant holds of the empty table.
LEMMA InitInv == Init => Inv
<1> SUFFICES ASSUME Init PROVE Inv
  OBVIOUS
<1>1. \A i \in Row : db[i] = EmptyRow
  BY DEF Init, Initdb
<1>2. UsedRows(db) = {}
  BY <1>1 DEF UsedRows, EmptyRow
<1>3. file \notin LIST
  BY FileAssumption DEF Init
<1>4. TableTypeOK
  BY <1>2 DEF Init, TableTypeOK, Initdb, EmptyRow, LIST
<1>5. QED
  BY <1>1, <1>2, <1>3, <1>4
     DEF Init, Inv, FreeRowsAreZero, FreeRows, OneKeyPerDevice, OneRowPerTopic,
         HeldKeyIsAcked, AckLostOnlyWhenFull, FileHasTopic, FileShareIsCurrent

\* Phase I keeps the invariant.
LEMMA OnValueInv ==
    ASSUME Inv, NEW d \in Device, NEW k \in Key, OnValue(d, k)
    PROVE  Inv'
<1> USE DEF Inv, UsedRows, FreeRows, UsedRowsOf
<1>1. acked' = [acked EXCEPT ![d] = k] /\ file' = file
  BY DEF OnValue
<1>2. CASE /\ UsedRowsOf(db, d) # {}
           /\ db' = [i \in Row |-> IF i \in UsedRowsOf(db, d)
                                   THEN [db[i] EXCEPT !.msymk = k]
                                   ELSE db[i]]
  <2>1. \A i \in Row : /\ db'[i].hiot = db[i].hiot
                       /\ db'[i].htpk = db[i].htpk
                       /\ db'[i].shar = db[i].shar
                       /\ db'[i].isuded = db[i].isuded
                       /\ db'[i].msymk = IF i \in UsedRowsOf(db, d)
                                         THEN k ELSE db[i].msymk
    BY <1>2 DEF TableTypeOK, LIST
  <2>2. TableTypeOK'
    BY <1>1, <1>2, <2>1 DEF TableTypeOK, LIST
  <2>3. FreeRowsAreZero'
    BY <1>2, <2>1 DEF FreeRowsAreZero, TableTypeOK, LIST
  <2>4. OneKeyPerDevice' /\ OneRowPerTopic'
    BY <2>1 DEF OneKeyPerDevice, OneRowPerTopic, Hastopic
  <2>5. HeldKeyIsAcked'
    BY <1>1, <2>1 DEF HeldKeyIsAcked, TableTypeOK
  <2>6. AckLostOnlyWhenFull'
    BY <1>1, <1>2, <2>1, SMTT(30) DEF AckLostOnlyWhenFull, TableTypeOK
  <2>7. FileHasTopic' /\ FileShareIsCurrent'
    BY <1>1, <2>1 DEF FileHasTopic, FileShareIsCurrent
  <2>8. QED BY <2>2, <2>3, <2>4, <2>5, <2>6, <2>7
<1>3. ASSUME NEW n \in FreeRows(db), UsedRowsOf(db, d) = {},
             db' = [db EXCEPT ![n] = [db[n] EXCEPT !.hiot = d, !.msymk = k,
                                                   !.isuded = 1]]
      PROVE  Inv'
  <2>1. /\ n \in Row
        /\ db[n] = EmptyRow
        /\ db'[n] = [hiot |-> d, htpk |-> NoHash, msymk |-> k,
                     shar |-> NoShare, isuded |-> 1]
        /\ \A i \in Row : i # n => db'[i] = db[i]
    <3>1. n \in Row /\ db[n] = EmptyRow
      BY <1>3 DEF FreeRowsAreZero
    <3>2. db'[n] = [EmptyRow EXCEPT !.hiot = d, !.msymk = k, !.isuded = 1]
      BY <1>3, <3>1 DEF TableTypeOK
    <3>3. \A i \in Row : i # n => db'[i] = db[i]
      BY <1>3 DEF TableTypeOK
    <3>4. QED BY <3>1, <3>2, <3>3 DEF EmptyRow
  <2>2. TableTypeOK'
    <3>1. db'[n] \in LIST
      BY <2>1 DEF LIST
    <3>2. QED BY <1>1, <1>3, <2>1, <3>1 DEF TableTypeOK
  <2>3. FreeRowsAreZero'
    BY <2>1 DEF FreeRowsAreZero
  <2>4. \A i \in UsedRows(db)' :
            \/ i = n
            \/ i # n /\ i \in UsedRows(db) /\ db[i].hiot # d
    BY <1>3, <2>1
  <2>5. OneKeyPerDevice' /\ OneRowPerTopic'
    BY <2>1, <2>4 DEF OneKeyPerDevice, OneRowPerTopic, Hastopic
  <2>6. HeldKeyIsAcked'
    BY <1>1, <2>1, <2>4 DEF HeldKeyIsAcked, TableTypeOK
  <2>7. AckLostOnlyWhenFull'
    <3>1. n \in UsedRowsOf(db, d)'
      BY <2>1
    <3>2. \A e \in Device \ {d} :
              acked'[e] = acked[e] /\ UsedRowsOf(db, e)' = UsedRowsOf(db, e)
      BY <1>1, <1>3, <2>1 DEF TableTypeOK
    <3>3. FreeRows(db)' \subseteq FreeRows(db)
      BY <1>3, <2>1
    <3>4. QED BY <3>1, <3>2, <3>3 DEF AckLostOnlyWhenFull
  <2>8. FileHasTopic' /\ FileShareIsCurrent'
    BY <1>1, <2>1, <2>4, ZeroAssumption
       DEF FileHasTopic, FileShareIsCurrent, TopicHash
  <2>9. QED BY <2>2, <2>3, <2>5, <2>6, <2>7, <2>8
<1>4. CASE UsedRowsOf(db, d) = {} /\ FreeRows(db) = {} /\ db' = db
  <2>1. TableTypeOK' /\ FreeRowsAreZero' /\ OneKeyPerDevice' /\ OneRowPerTopic'
    BY <1>1, <1>4
       DEF TableTypeOK, FreeRowsAreZero, OneKeyPerDevice, OneRowPerTopic, Hastopic
  <2>2. HeldKeyIsAcked'
    BY <1>1, <1>4 DEF HeldKeyIsAcked, TableTypeOK
  <2>3. AckLostOnlyWhenFull'
    BY <1>4 DEF AckLostOnlyWhenFull
  <2>4. FileHasTopic' /\ FileShareIsCurrent'
    BY <1>1, <1>4 DEF FileHasTopic, FileShareIsCurrent
  <2>5. QED BY <2>1, <2>2, <2>3, <2>4
<1>5. QED
  <2> HIDE DEF Inv, UsedRows, FreeRows, UsedRowsOf
  <2>1. db' = AddsymK(db, d, k)
    BY DEF OnValue
  <2>2. \/ /\ UsedRowsOf(db, d) # {}
           /\ AddsymK(db, d, k) =
                  [i \in Row |-> IF i \in UsedRowsOf(db, d)
                                 THEN [db[i] EXCEPT !.msymk = k]
                                 ELSE db[i]]
        \/ \E n \in FreeRows(db) :
               /\ UsedRowsOf(db, d) = {}
               /\ AddsymK(db, d, k) =
                      [db EXCEPT ![n] = [db[n] EXCEPT !.hiot = d,
                                                      !.msymk = k,
                                                      !.isuded = 1]]
        \/ /\ UsedRowsOf(db, d) = {}
           /\ FreeRows(db) = {}
           /\ AddsymK(db, d, k) = db
    BY AddsymKCases
  <2>3. QED BY <1>2, <1>3, <1>4, <2>1, <2>2

\* Whatever key it is decrypted under, a message gives some hash and share.
LEMMA DecryptedType ==
    ASSUME NEW h, NEW k, NEW t \in Topic, NEW s \in Share,
           NEW p \in Decrypted(h, k, t, s)
    PROVE  p[1] \in TopicHash /\ p[2] \in ShareBytes
BY DEF Decrypted, TopicHash, ShareBytes

\* One row n of device d written with topic t and share s, where n had the
\* topic or none, or was free and nobody else had the topic.
LEMMA RowWritten ==
    ASSUME Inv, NEW d \in Device, NEW t \in TopicHash, NEW s \in ShareBytes,
           NEW n \in Row, NEW j \in UsedRowsOf(db, d),
           \/ n = j /\ n \in TopicRows(db, d, t)
           \/ n \in FreeRows(db) /\ TopicRows(db, d, t) = {},
           db' = [db EXCEPT ![n] = [hiot |-> d, htpk |-> t,
                                    msymk |-> db[j].msymk,
                                    shar |-> s, isuded |-> 1]],
           file' = db'[n], acked' = acked
    PROVE  Inv'
<1> USE DEF Inv, UsedRows, FreeRows, UsedRowsOf
<1>1. /\ db'[n] = [hiot |-> d, htpk |-> t, msymk |-> db[j].msymk,
                   shar |-> s, isuded |-> 1]
      /\ \A i \in Row : i # n => db'[i] = db[i]
  BY DEF TableTypeOK
<1>2. j \in Row /\ db[j].hiot = d /\ db[j].isuded = 1 /\ db[j].msymk \in Key
  BY DEF TableTypeOK
<1>3. t # NoHash
  BY ZeroAssumption DEF TopicHash
<1>4. \A i \in UsedRows(db)' : i # n => i \in UsedRows(db) /\ db[i] = db'[i]
  BY <1>1
<1>5. \A i \in UsedRows(db) : i # n /\ db[i].hiot = d
                                 => db[i].htpk # t /\ Hastopic(db[i])
  <2>1. CASE n = j /\ n \in TopicRows(db, d, t)
    <3>1. ~ Hastopic(db[n]) \/ db[n].htpk = t
      BY <2>1 DEF TopicRows
    <3>2. n \in UsedRows(db) /\ db[n].hiot = d
      BY <2>1
    <3>3. QED BY <3>1, <3>2 DEF OneRowPerTopic
  <2>2. CASE n \in FreeRows(db) /\ TopicRows(db, d, t) = {}
    BY <2>2 DEF TopicRows
  <2>3. QED BY <2>1, <2>2
<1>6. TableTypeOK'
  <2>1. db'[n] \in LIST
    BY <1>1, <1>2 DEF LIST
  <2>2. db' \in [Row -> LIST]
    BY <2>1 DEF TableTypeOK
  <2>3. QED BY <1>1, <1>2, <1>4, <2>1, <2>2 DEF TableTypeOK
<1>7. FreeRowsAreZero'
  BY <1>1 DEF FreeRowsAreZero
<1>8. OneKeyPerDevice'
  BY <1>1, <1>2, <1>4 DEF OneKeyPerDevice
<1>9. OneRowPerTopic'
  BY <1>1, <1>3, <1>4, <1>5 DEF OneRowPerTopic, Hastopic
<1>10. HeldKeyIsAcked'
  BY <1>1, <1>2, <1>4 DEF HeldKeyIsAcked
<1>11. AckLostOnlyWhenFull'
  <2>1. FreeRows(db)' \subseteq FreeRows(db)
    BY <1>1
  <2>2. \A e \in Device : UsedRowsOf(db, e) # {} => UsedRowsOf(db, e)' # {}
    <3>1. n \in UsedRows(db) => db[n].hiot = d
      BY DEF TopicRows
    <3>2. n \in UsedRowsOf(db, d)'
      BY <1>1
    <3>3. QED BY <1>1, <3>1, <3>2
  <2>3. QED BY <2>1, <2>2 DEF AckLostOnlyWhenFull
<1>12. FileHasTopic'
  BY <1>1 DEF FileHasTopic
<1>13. FileShareIsCurrent'
  BY <1>1, <1>4, <1>5 DEF FileShareIsCurrent
<1>14. QED
  BY <1>6, <1>7, <1>8, <1>9, <1>10, <1>11, <1>12, <1>13

\* Whatever hash u and share v come out of the decryption, storing them
\* keeps the invariant.
LEMMA PlaintextInv ==
    ASSUME Inv, NEW d \in Device, NEW u \in TopicHash, NEW v \in ShareBytes,
           db' = Addshare(db, d, u, v),
           file' = SaveShar(db', AddshareResult(db, d, u)),
           acked' = acked
    PROVE  Inv'
<1> DEFINE n == AddshareResult(db, d, u)
<1>1. n \in Row => file' = db'[n]
  BY RowsAssumption DEF SaveShar, Row
<1>2. CASE n = -1 /\ Addshare(db, d, u, v) = db
  <2>1. db' = db /\ file' = Stray /\ acked' = acked
    BY <1>2 DEF SaveShar
  <2>2. file' \notin LIST
    BY <2>1, FileAssumption
  <2>3. QED
    BY <2>1, <2>2
       DEF Inv, TableTypeOK, FreeRowsAreZero, FreeRows, UsedRows, UsedRowsOf,
           OneKeyPerDevice, OneRowPerTopic, Hastopic, HeldKeyIsAcked,
           AckLostOnlyWhenFull, FileHasTopic, FileShareIsCurrent
<1>3. CASE /\ n \in TopicRows(db, d, u)
           /\ Addshare(db, d, u, v) =
                  [db EXCEPT ![n] = [hiot |-> d, htpk |-> u,
                                     msymk |-> db[n].msymk,
                                     shar |-> v, isuded |-> 1]]
  <2>1. n \in Row /\ n \in UsedRowsOf(db, d)
    BY <1>3 DEF TopicRows, UsedRowsOf, UsedRows
  <2>2. QED
    <3> HIDE DEF n
    <3> QED BY <1>1, <1>3, <2>1, RowWritten
<1>4. CASE /\ n \in FreeRows(db)
           /\ TopicRows(db, d, u) = {}
           /\ \E j \in UsedRowsOf(db, d) :
                  Addshare(db, d, u, v) =
                      [db EXCEPT ![n] = [hiot |-> d, htpk |-> u,
                                         msymk |-> db[j].msymk,
                                         shar |-> v, isuded |-> 1]]
  <2>1. n \in Row
    BY <1>4 DEF FreeRows
  <2>2. QED
    <3> HIDE DEF n
    <3> QED BY <1>1, <1>4, <2>1, RowWritten
<1>5. \/ n = -1 /\ Addshare(db, d, u, v) = db
      \/ /\ n \in TopicRows(db, d, u)
         /\ Addshare(db, d, u, v) =
                [db EXCEPT ![n] = [hiot |-> d, htpk |-> u,
                                   msymk |-> db[n].msymk,
                                   shar |-> v, isuded |-> 1]]
      \/ /\ n \in FreeRows(db)
         /\ TopicRows(db, d, u) = {}
         /\ \E j \in UsedRowsOf(db, d) :
                Addshare(db, d, u, v) =
                    [db EXCEPT ![n] = [hiot |-> d, htpk |-> u,
                                       msymk |-> db[j].msymk,
                                       shar |-> v, isuded |-> 1]]
  BY AddshareCases
<1>6. QED
  <2> HIDE DEF n
  <2> QED BY <1>2, <1>3, <1>4, <1>5

\* Phase 2 keeps the invariant.
LEMMA OnShareInv ==
    ASSUME Inv, NEW d \in Device, NEW k \in Key, NEW t \in Topic,
           NEW s \in Share, OnShare(d, k, t, s)
    PROVE  Inv'
<1>1. PICK p \in Decrypted(GetSymK(db, d), k, t, s) :
          /\ db' = Addshare(db, d, p[1], p[2])
          /\ file' = SaveShar(db', AddshareResult(db, d, p[1]))
          /\ acked' = acked
  BY DEF OnShare
<1>2. p[1] \in TopicHash /\ p[2] \in ShareBytes
  BY DecryptedType
<1>3. QED
  BY <1>1, <1>2, PlaintextInv

\* A restart empties the table and the file stays.
LEMMA RestartInv ==
    ASSUME Inv, Restart
    PROVE  Inv'
<1>1. /\ db' = [i \in Row |-> EmptyRow]
      /\ acked' = [d \in Device |-> NoKey]
      /\ file' = file
  BY DEF Restart, Initdb
<1>2. UsedRows(db)' = {}
  BY <1>1 DEF UsedRows, EmptyRow
<1>3. TableTypeOK'
  BY <1>1, <1>2 DEF Inv, TableTypeOK, EmptyRow, LIST
<1>4. FileHasTopic'
  BY <1>1 DEF Inv, FileHasTopic
<1>5. QED
  BY <1>1, <1>2, <1>3, <1>4
     DEF Inv, FreeRowsAreZero, FreeRows, OneKeyPerDevice, OneRowPerTopic,
         HeldKeyIsAcked, AckLostOnlyWhenFull, FileShareIsCurrent

\* What changes neither the table, nor the file, nor what was acknowledged.
LEMMA SameTableInv ==
    ASSUME Inv, UNCHANGED <<db, file, acked>>
    PROVE  Inv'
BY DEF Inv, TableTypeOK, FreeRowsAreZero, FreeRows, UsedRows, UsedRowsOf,
       OneKeyPerDevice, OneRowPerTopic, Hastopic, HeldKeyIsAcked,
       AckLostOnlyWhenFull, FileHasTopic, FileShareIsCurrent

\* Each message, and a restart, keeps it.
LEMMA NextInv == Inv /\ [Next]_vars => Inv'
<1> SUFFICES ASSUME Inv, [Next]_vars PROVE Inv'
  OBVIOUS
<1>1. ASSUME NEW d \in Device, NEW k \in Key, OnValue(d, k) PROVE Inv'
  BY <1>1, OnValueInv
<1>2. ASSUME NEW d \in Device, NEW k \in Key, NEW mine \in BOOLEAN,
             OnValueManipulated(d, k, mine) \/ OnValueUndecrypted(d, k)
      PROVE  Inv'
  BY <1>2, SameTableInv DEF OnValueManipulated, OnValueUndecrypted
<1>3. ASSUME NEW d \in Device, NEW k \in Key, NEW t \in Topic,
             NEW s \in Share, OnShare(d, k, t, s)
      PROVE  Inv'
  BY <1>3, OnShareInv
<1>4. ASSUME NEW k \in Key, NEW s \in Share, OnPiece(k, s) PROVE Inv'
  BY <1>4, SameTableInv DEF OnPiece
<1>5. CASE Restart
  BY <1>5, RestartInv
<1>6. CASE UNCHANGED vars
  BY <1>6, SameTableInv DEF vars
<1>7. QED
  BY <1>1, <1>2, <1>3, <1>4, <1>5, <1>6 DEF Next

\* The modes stay what the arguments made them, and the two globals of the
\* handler hold keys and pieces.
LEMMA GlobalsInv == GlobalsTypeOK /\ [Next]_vars => GlobalsTypeOK'
<1> SUFFICES ASSUME GlobalsTypeOK, [Next]_vars PROVE GlobalsTypeOK'
  OBVIOUS
<1> USE DEF GlobalsTypeOK, modes
<1>1. ASSUME NEW d \in Device, NEW k \in Key, OnValue(d, k)
      PROVE  GlobalsTypeOK'
  BY <1>1 DEF OnValue
<1>2. ASSUME NEW d \in Device, NEW k \in Key, NEW mine \in BOOLEAN,
             OnValueManipulated(d, k, mine)
      PROVE  GlobalsTypeOK'
  <2>1. PICK p \in Opened(d, k, mine) :
            ks_symm_key' = p.key /\ UNCHANGED <<modes, session_key>>
    BY <1>2 DEF OnValueManipulated
  <2>2. p.key \in Key \cup Noise
    BY DEF Opened, ibe_decryption, rsa_decryption
  <2>3. QED BY <2>1, <2>2
<1>3. ASSUME NEW d \in Device, NEW k \in Key, OnValueUndecrypted(d, k)
      PROVE  GlobalsTypeOK'
  BY <1>3 DEF OnValueUndecrypted
<1>4. ASSUME NEW d \in Device, NEW k \in Key, NEW t \in Topic,
             NEW s \in Share, OnShare(d, k, t, s)
      PROVE  GlobalsTypeOK'
  BY <1>4 DEF OnShare
<1>5. ASSUME NEW k \in Key, NEW s \in Share, OnPiece(k, s)
      PROVE  GlobalsTypeOK'
  BY <1>5 DEF OnPiece, aes_decryption, ShareBytes
<1>6. CASE Restart
  BY <1>6 DEF Restart
<1>7. CASE UNCHANGED vars
  BY <1>7 DEF vars
<1>8. QED
  BY <1>1, <1>2, <1>3, <1>4, <1>5, <1>6, <1>7 DEF Next

(***************************************************************************)
(* The inductive invariant holds in every reachable state.                 *)
(***************************************************************************)
THEOREM Invariance == Spec => []Inv
BY InitInv, NextInv, PTL DEF Spec

(***************************************************************************)
(* Type correctness: what db.h declares, and the three pairs of modes that *)
(* the arguments can choose.                                               *)
(***************************************************************************)
THEOREM TypeCorrectness == Spec => []TypeOK
<1>1. Init => GlobalsTypeOK
  BY DEF Init, GlobalsTypeOK, EncMode, SharingMode
<1>2. Spec => []GlobalsTypeOK
  BY <1>1, GlobalsInv, PTL DEF Spec
<1>3. Inv /\ GlobalsTypeOK => TypeOK
  BY DEF Inv, TypeOK
<1>4. QED BY <1>2, <1>3, Invariance, PTL

(***************************************************************************)
(* Free rows are empty, the rows of a device agree on its key, and a       *)
(* device and a topic have one row: whichever row a search of db.c stops   *)
(* at, it gives the same answer.                                           *)
(***************************************************************************)
THEOREM TableConsistency == Spec => []TableConsistent
<1>1. Inv => TableConsistent
  BY DEF Inv, TableConsistent
<1>2. QED BY <1>1, Invariance, PTL

(***************************************************************************)
(* A key in the table is the one acknowledged last, and an acknowledged    *)
(* device is missing only from a full table.                               *)
(***************************************************************************)
THEOREM AckedKeys == Spec => []AcksAreKept
<1>1. Inv => AcksAreKept
  BY DEF Inv, AcksAreKept
<1>2. QED BY <1>1, Invariance, PTL

(***************************************************************************)
(* The share file never shows an older share than the table.               *)
(***************************************************************************)
THEOREM CurrentShareFile == Spec => []FileShareIsCurrent
<1>1. Inv => FileShareIsCurrent
  BY DEF Inv
<1>2. QED BY <1>1, Invariance, PTL

(***************************************************************************)
(* The table of a KeyStore implements the maps of ShareStore, for a table  *)
(* of any size.                                                            *)
(***************************************************************************)

\* The choice in KeyOf does not matter when the rows agree.
LEMMA KeyOfRow ==
    ASSUME NEW tab, NEW d, NEW i \in UsedRowsOf(tab, d),
           \A j \in UsedRowsOf(tab, d) : tab[j].msymk = tab[i].msymk
    PROVE  KeyOf(tab, d) = tab[i].msymk
BY DEF KeyOf

\* Nor that in ShareOf when there is one row.
LEMMA ShareOfRow ==
    ASSUME NEW tab, NEW d, NEW t, NEW i \in RowsWith(tab, d, t),
           \A j \in RowsWith(tab, d, t) : j = i
    PROVE  ShareOf(tab, d, t) = tab[i].shar
BY DEF ShareOf

\* Both maps of a device depend only on its rows.
LEMMA SameRows ==
    ASSUME NEW tab, NEW new, NEW d,
           UsedRowsOf(new, d) = UsedRowsOf(tab, d),
           \A i \in UsedRowsOf(tab, d) : new[i] = tab[i]
    PROVE  /\ KeyOf(new, d) = KeyOf(tab, d)
           /\ \A t : ShareOf(new, d, t) = ShareOf(tab, d, t)
<1>1. KeyOf(new, d) = KeyOf(tab, d)
  BY DEF KeyOf
<1>2. ASSUME NEW t PROVE ShareOf(new, d, t) = ShareOf(tab, d, t)
  <2>1. RowsWith(new, d, t) = RowsWith(tab, d, t)
    BY DEF RowsWith
  <2>2. \A i \in RowsWith(tab, d, t) : new[i] = tab[i]
    BY DEF RowsWith
  <2>3. QED BY <2>1, <2>2 DEF ShareOf
<1>3. QED BY <1>1, <1>2

\* The empty table is the empty store.
LEMMA InitRefines == Init => Store!StoreInit
<1> SUFFICES ASSUME Init PROVE Store!StoreInit
  OBVIOUS
<1>1. UsedRows(db) = {}
  BY DEF Init, Initdb, UsedRows, EmptyRow
<1>2. \A d \in Device : KeyOf(db, d) = NoKey
  BY <1>1 DEF KeyOf, UsedRowsOf
<1>3. \A d \in Device, t \in TopicHash : ShareOf(db, d, t) = NoShare
  BY <1>1 DEF ShareOf, RowsWith, UsedRowsOf
<1>4. QED BY <1>2, <1>3 DEF Store!StoreInit

\* Phase I registers the key, or is refused for want of room.
LEMMA OnValueRefines ==
    ASSUME Inv, NEW d \in Device, NEW k \in Key, OnValue(d, k)
    PROVE  Store!Register(d, k) \/ UNCHANGED Store!storeVars
<1>1. db' = AddsymK(db, d, k)
  BY DEF OnValue
<1>2. ASSUME \A e \in Device \ {d} :
                 /\ UsedRowsOf(db', e) = UsedRowsOf(db, e)
                 /\ \A i \in UsedRowsOf(db, e) : db'[i] = db[i],
             KeyOf(db', d) = k,
             \A t \in TopicHash : ShareOf(db', d, t) = ShareOf(db, d, t)
      PROVE  Store!Register(d, k)
  <2>1. \A e \in Device \ {d} : /\ KeyOf(db', e) = KeyOf(db, e)
                                /\ \A t : ShareOf(db', e, t) = ShareOf(db, e, t)
    BY <1>2, SameRows
  <2>2. \A e \in Device : KeyOf(db', e) = IF e = d THEN k ELSE KeyOf(db, e)
    BY <1>2, <2>1
  <2>3. \A e \in Device, t \in TopicHash : ShareOf(db', e, t) = ShareOf(db, e, t)
    BY <1>2, <2>1
  <2>4. QED BY <2>2, <2>3 DEF Store!Register
<1>3. CASE /\ UsedRowsOf(db, d) # {}
           /\ AddsymK(db, d, k) =
                  [i \in Row |-> IF i \in UsedRowsOf(db, d)
                                 THEN [db[i] EXCEPT !.msymk = k]
                                 ELSE db[i]]
  <2>1. \A i \in Row : /\ db'[i].hiot = db[i].hiot
                       /\ db'[i].htpk = db[i].htpk
                       /\ db'[i].shar = db[i].shar
                       /\ db'[i].isuded = db[i].isuded
                       /\ i \in UsedRowsOf(db, d) => db'[i].msymk = k
                       /\ i \notin UsedRowsOf(db, d) => db'[i] = db[i]
    BY <1>1, <1>3 DEF Inv, TableTypeOK, LIST
  <2>2. \A e \in Device : UsedRowsOf(db', e) = UsedRowsOf(db, e)
    BY <2>1 DEF UsedRowsOf, UsedRows
  <2>3. \A e \in Device \ {d} : \A i \in UsedRowsOf(db, e) : db'[i] = db[i]
    BY <2>1 DEF UsedRowsOf, UsedRows
  <2>4. KeyOf(db', d) = k
    <3>1. PICK i \in UsedRowsOf(db, d) : TRUE
      BY <1>3
    <3>2. \A j \in UsedRowsOf(db', d) : db'[j].msymk = k
      BY <2>1, <2>2 DEF UsedRowsOf, UsedRows
    <3>3. QED BY <2>2, <3>1, <3>2, KeyOfRow
  <2>5. ASSUME NEW t \in TopicHash PROVE ShareOf(db', d, t) = ShareOf(db, d, t)
    <3>1. \A i \in UsedRowsOf(db, d) : /\ db'[i].htpk = db[i].htpk
                                       /\ db'[i].shar = db[i].shar
      BY <2>1 DEF UsedRowsOf, UsedRows
    <3>2. RowsWith(db', d, t) = RowsWith(db, d, t)
      BY <2>2, <3>1 DEF RowsWith
    <3>3. \A i \in RowsWith(db, d, t) : db'[i].shar = db[i].shar
      BY <3>1 DEF RowsWith
    <3>4. QED BY <3>2, <3>3 DEF ShareOf
  <2>6. QED BY <1>2, <2>2, <2>3, <2>4, <2>5
<1>4. ASSUME NEW n \in FreeRows(db), UsedRowsOf(db, d) = {},
             AddsymK(db, d, k) =
                 [db EXCEPT ![n] = [db[n] EXCEPT !.hiot = d, !.msymk = k,
                                                 !.isuded = 1]]
      PROVE  Store!Register(d, k)
  <2>1. n \in Row /\ db[n] = EmptyRow /\ db[n].isuded = 0
    BY DEF Inv, FreeRowsAreZero, FreeRows
  <2>2. /\ db'[n] = [EmptyRow EXCEPT !.hiot = d, !.msymk = k, !.isuded = 1]
        /\ \A i \in Row : i # n => db'[i] = db[i]
    BY <1>1, <1>4, <2>1 DEF Inv, TableTypeOK
  <2>3. /\ db'[n].hiot = d /\ db'[n].htpk = NoHash
        /\ db'[n].msymk = k /\ db'[n].isuded = 1
    BY <2>2 DEF EmptyRow
  <2>4. \A i \in Row : i # n => db'[i].isuded = db[i].isuded
                            /\ db'[i].hiot = db[i].hiot
    BY <2>2
  <2>5. /\ UsedRowsOf(db', d) = {n}
        /\ \A e \in Device \ {d} :
               /\ UsedRowsOf(db', e) = UsedRowsOf(db, e)
               /\ \A i \in UsedRowsOf(db, e) : db'[i] = db[i]
    <3>1. \A i \in Row : i \in UsedRows(db') <=> i = n \/ i \in UsedRows(db)
      BY <2>3, <2>4 DEF UsedRows
    <3>2. n \notin UsedRows(db)
      BY <2>1 DEF UsedRows
    <3>3. UsedRowsOf(db', d) = {n}
      BY <1>4, <2>1, <2>3, <2>4, <3>1 DEF UsedRowsOf, UsedRows
    <3>4. ASSUME NEW e \in Device \ {d}
          PROVE  UsedRowsOf(db', e) = UsedRowsOf(db, e)
      BY <2>3, <2>4, <3>1, <3>2 DEF UsedRowsOf, UsedRows
    <3>5. \A i \in UsedRows(db) : db'[i] = db[i]
      BY <2>2, <3>2 DEF UsedRows
    <3>6. QED BY <3>3, <3>4, <3>5 DEF UsedRowsOf
  <2>6. KeyOf(db', d) = k
    BY <2>3, <2>5, KeyOfRow
  <2>7. ASSUME NEW t \in TopicHash PROVE ShareOf(db', d, t) = ShareOf(db, d, t)
    <3>1. t # NoHash
      BY ZeroAssumption DEF TopicHash
    <3>2. RowsWith(db', d, t) = {} /\ RowsWith(db, d, t) = {}
      BY <1>4, <2>3, <2>5, <3>1 DEF RowsWith
    <3>3. QED BY <3>2 DEF ShareOf
  <2>8. QED BY <1>2, <2>5, <2>6, <2>7
<1>5. CASE AddsymK(db, d, k) = db
  BY <1>1, <1>5 DEF Store!storeVars
<1>6. \/ /\ UsedRowsOf(db, d) # {}
         /\ AddsymK(db, d, k) =
                [i \in Row |-> IF i \in UsedRowsOf(db, d)
                               THEN [db[i] EXCEPT !.msymk = k]
                               ELSE db[i]]
      \/ \E n \in FreeRows(db) :
             /\ UsedRowsOf(db, d) = {}
             /\ AddsymK(db, d, k) =
                    [db EXCEPT ![n] = [db[n] EXCEPT !.hiot = d,
                                                    !.msymk = k,
                                                    !.isuded = 1]]
      \/ /\ UsedRowsOf(db, d) = {}
         /\ FreeRows(db) = {}
         /\ AddsymK(db, d, k) = db
  BY AddsymKCases
<1>7. QED BY <1>3, <1>4, <1>5, <1>6

\* A row written as in RowWritten puts the share of one entry.
LEMMA RowWrittenRefines ==
    ASSUME Inv, NEW d \in Device, NEW t \in TopicHash, NEW s \in ShareBytes,
           NEW n \in Row, NEW j \in UsedRowsOf(db, d),
           \/ n = j /\ n \in TopicRows(db, d, t)
           \/ n \in FreeRows(db) /\ TopicRows(db, d, t) = {}
    PROVE  db' = [db EXCEPT ![n] = [hiot |-> d, htpk |-> t,
                                    msymk |-> db[j].msymk,
                                    shar |-> s, isuded |-> 1]]
           => Store!Put(d, t, s)
<1>0. SUFFICES ASSUME db' = [db EXCEPT ![n] = [hiot |-> d, htpk |-> t,
                                               msymk |-> db[j].msymk,
                                               shar |-> s, isuded |-> 1]]
               PROVE  Store!Put(d, t, s)
  OBVIOUS
<1>1. /\ db'[n] = [hiot |-> d, htpk |-> t, msymk |-> db[j].msymk,
                   shar |-> s, isuded |-> 1]
      /\ \A i \in Row : i # n => db'[i] = db[i]
  BY <1>0 DEF Inv, TableTypeOK
<1>2. /\ db'[n].hiot = d /\ db'[n].htpk = t
      /\ db'[n].msymk = db[j].msymk
      /\ db'[n].shar = s /\ db'[n].isuded = 1
  BY <1>1
<1>3. /\ j \in Row /\ db[j].hiot = d /\ db[j].isuded = 1
      /\ db[j].msymk \in Key
      /\ \A i \in UsedRowsOf(db, d) : db[i].msymk = db[j].msymk
  BY DEF Inv, TableTypeOK, OneKeyPerDevice, UsedRowsOf, UsedRows
<1>4. /\ n \in UsedRows(db) => db[n].hiot = d
      /\ n \in UsedRows(db) => ~ Hastopic(db[n]) \/ db[n].htpk = t
  <2>1. CASE n \in FreeRows(db)
    BY <2>1 DEF FreeRows, UsedRows
  <2>2. CASE n \in TopicRows(db, d, t)
    BY <2>2 DEF TopicRows, UsedRowsOf
  <2>3. QED BY <2>1, <2>2
<1>5. \A i \in Row : i \in UsedRows(db') <=> i = n \/ i \in UsedRows(db)
  BY <1>1, <1>2 DEF UsedRows
<1>6. \A e \in Device \ {d} : /\ KeyOf(db', e) = KeyOf(db, e)
                              /\ \A x : ShareOf(db', e, x) = ShareOf(db, e, x)
  <2>1. ASSUME NEW e \in Device \ {d}
        PROVE  /\ UsedRowsOf(db', e) = UsedRowsOf(db, e)
               /\ \A i \in UsedRowsOf(db, e) : db'[i] = db[i]
    <3>1. \A i \in UsedRows(db) : db[i].hiot = e => i # n
      BY <1>4
    <3>2. \A i \in UsedRows(db') : db'[i].hiot = e => i # n
      BY <1>2
    <3>3. \A i \in Row : i # n => (i \in UsedRows(db') <=> i \in UsedRows(db))
                                 /\ db'[i] = db[i]
      BY <1>1, <1>5
    <3>4. QED BY <3>1, <3>2, <3>3 DEF UsedRowsOf, UsedRows
  <2>2. QED BY <2>1, SameRows
<1>7. KeyOf(db', d) = KeyOf(db, d) /\ KeyOf(db, d) # NoKey
  <2>1. KeyOf(db, d) = db[j].msymk
    BY <1>3, KeyOfRow
  <2>2. n \in UsedRowsOf(db', d)
    BY <1>2, <1>5 DEF UsedRowsOf
  <2>3. \A i \in UsedRowsOf(db', d) : db'[i].msymk = db[j].msymk
    <3>1. ASSUME NEW i \in UsedRowsOf(db', d), i # n
          PROVE  db'[i].msymk = db[j].msymk
      <4>1. i \in Row /\ i \in UsedRows(db) /\ db'[i] = db[i]
        BY <1>1, <1>5, <3>1 DEF UsedRowsOf, UsedRows
      <4>2. i \in UsedRowsOf(db, d)
        BY <4>1 DEF UsedRowsOf
      <4>3. QED BY <1>3, <4>1, <4>2
    <3>2. QED BY <1>2, <3>1
  <2>4. KeyOf(db', d) = db'[n].msymk
    BY <1>2, <2>2, <2>3, KeyOfRow
  <2>5. QED BY <1>2, <1>3, <2>1, <2>4, ZeroAssumption
<1>8. ShareOf(db', d, t) = s
  <2>1. n \in RowsWith(db', d, t)
    BY <1>2, <1>5 DEF RowsWith, UsedRowsOf
  <2>2. ASSUME NEW i \in RowsWith(db', d, t), i # n PROVE FALSE
    <3>1. i \in UsedRows(db) /\ db[i].hiot = d /\ db[i].htpk = t
      BY <1>1, <1>5, <2>2 DEF RowsWith, UsedRowsOf, UsedRows
    <3>2. i \in TopicRows(db, d, t)
      BY <3>1 DEF TopicRows, UsedRowsOf
    <3>3. n = j /\ n \in UsedRows(db) /\ db[n].hiot = d
      BY <1>3, <3>2 DEF UsedRowsOf
    <3>4. db[n].htpk # t /\ Hastopic(db[n])
      BY <2>2, <3>1, <3>3 DEF Inv, OneRowPerTopic
    <3>5. QED BY <1>4, <3>3, <3>4
  <2>3. QED BY <1>2, <2>1, <2>2, ShareOfRow
<1>9. ASSUME NEW x \in TopicHash \ {t}
      PROVE  ShareOf(db', d, x) = ShareOf(db, d, x)
  <2>1. x # NoHash
    BY ZeroAssumption DEF TopicHash
  <2>2. \A i \in RowsWith(db, d, x) : i # n
    BY <1>4, <2>1 DEF RowsWith, UsedRowsOf, Hastopic
  <2>3. \A i \in RowsWith(db', d, x) : i # n
    BY <1>2 DEF RowsWith
  <2>4. \A i \in Row : i # n => (i \in UsedRows(db') <=> i \in UsedRows(db))
                               /\ db'[i] = db[i]
    BY <1>1, <1>5
  <2>5. /\ RowsWith(db', d, x) = RowsWith(db, d, x)
        /\ \A i \in RowsWith(db, d, x) : db'[i] = db[i]
    BY <2>2, <2>3, <2>4 DEF RowsWith, UsedRowsOf, UsedRows
  <2>6. QED BY <2>5 DEF ShareOf
<1>10. \A e \in Device : KeyOf(db', e) = KeyOf(db, e)
  BY <1>6, <1>7
<1>11. \A e \in Device, x \in TopicHash :
           ShareOf(db', e, x) = IF e = d /\ x = t THEN s ELSE ShareOf(db, e, x)
  BY <1>6, <1>8, <1>9
<1>12. QED BY <1>7, <1>10, <1>11 DEF Store!Put

\* Phase 2 puts one entry, or is refused.
LEMMA PlaintextRefines ==
    ASSUME Inv, NEW d \in Device, NEW u \in TopicHash, NEW v \in ShareBytes,
           db' = Addshare(db, d, u, v)
    PROVE  Store!Put(d, u, v) \/ UNCHANGED Store!storeVars
<1> DEFINE n == AddshareResult(db, d, u)
<1>1. CASE Addshare(db, d, u, v) = db
  BY <1>1 DEF Store!storeVars
<1>2. CASE /\ n \in TopicRows(db, d, u)
           /\ Addshare(db, d, u, v) =
                  [db EXCEPT ![n] = [hiot |-> d, htpk |-> u,
                                     msymk |-> db[n].msymk,
                                     shar |-> v, isuded |-> 1]]
  <2>1. n \in Row /\ n \in UsedRowsOf(db, d)
    BY <1>2 DEF TopicRows, UsedRowsOf, UsedRows
  <2>2. QED
    <3> HIDE DEF n
    <3> QED BY <1>2, <2>1, RowWrittenRefines
<1>3. CASE /\ n \in FreeRows(db)
           /\ TopicRows(db, d, u) = {}
           /\ \E j \in UsedRowsOf(db, d) :
                  Addshare(db, d, u, v) =
                      [db EXCEPT ![n] = [hiot |-> d, htpk |-> u,
                                         msymk |-> db[j].msymk,
                                         shar |-> v, isuded |-> 1]]
  <2>1. n \in Row
    BY <1>3 DEF FreeRows
  <2>2. QED
    <3> HIDE DEF n
    <3> QED BY <1>3, <2>1, RowWrittenRefines
<1>4. \/ n = -1 /\ Addshare(db, d, u, v) = db
      \/ /\ n \in TopicRows(db, d, u)
         /\ Addshare(db, d, u, v) =
                [db EXCEPT ![n] = [hiot |-> d, htpk |-> u,
                                   msymk |-> db[n].msymk,
                                   shar |-> v, isuded |-> 1]]
      \/ /\ n \in FreeRows(db)
         /\ TopicRows(db, d, u) = {}
         /\ \E j \in UsedRowsOf(db, d) :
                Addshare(db, d, u, v) =
                    [db EXCEPT ![n] = [hiot |-> d, htpk |-> u,
                                       msymk |-> db[j].msymk,
                                       shar |-> v, isuded |-> 1]]
  BY AddshareCases
<1>5. QED
  <2> HIDE DEF n
  <2> QED BY <1>1, <1>2, <1>3, <1>4

\* A restart forgets all keys and shares.
LEMMA RestartRefines ==
    ASSUME Restart
    PROVE  Store!Forget
<1>1. UsedRows(db') = {}
  BY DEF Restart, Initdb, UsedRows, EmptyRow
<1>2. \A d \in Device : KeyOf(db', d) = NoKey
  BY <1>1 DEF KeyOf, UsedRowsOf
<1>3. \A d \in Device, t \in TopicHash : ShareOf(db', d, t) = NoShare
  BY <1>1 DEF ShareOf, RowsWith, UsedRowsOf
<1>4. QED BY <1>2, <1>3 DEF Store!Forget

\* Each step of a KeyStore is one of the store, or none.
LEMMA NextRefines == Inv /\ [Next]_vars => [Store!StoreNext]_(Store!storeVars)
<1> SUFFICES ASSUME Inv, [Next]_vars
             PROVE  Store!StoreNext \/ UNCHANGED Store!storeVars
  OBVIOUS
<1>1. ASSUME NEW d \in Device, NEW k \in Key, OnValue(d, k)
      PROVE  Store!StoreNext \/ UNCHANGED Store!storeVars
  BY <1>1, OnValueRefines DEF Store!StoreNext
<1>2. ASSUME NEW d \in Device, NEW k \in Key, NEW t \in Topic,
             NEW s \in Share, OnShare(d, k, t, s)
      PROVE  Store!StoreNext \/ UNCHANGED Store!storeVars
  <2>1. PICK p \in Decrypted(GetSymK(db, d), k, t, s) :
            db' = Addshare(db, d, p[1], p[2])
    BY <1>2 DEF OnShare
  <2>2. p[1] \in TopicHash /\ p[2] \in ShareBytes
    BY DecryptedType
  <2>3. QED BY <2>1, <2>2, PlaintextRefines DEF Store!StoreNext
<1>3. CASE Restart
  BY <1>3, RestartRefines DEF Store!StoreNext
<1>4. ASSUME UNCHANGED db PROVE UNCHANGED Store!storeVars
  BY <1>4 DEF Store!storeVars
<1>5. ASSUME NEW d \in Device, NEW k \in Key, NEW mine \in BOOLEAN,
             OnValueManipulated(d, k, mine) \/ OnValueUndecrypted(d, k)
      PROVE  UNCHANGED Store!storeVars
  BY <1>4, <1>5 DEF OnValueManipulated, OnValueUndecrypted
<1>6. ASSUME NEW k \in Key, NEW s \in Share, OnPiece(k, s)
      PROVE  UNCHANGED Store!storeVars
  BY <1>4, <1>6 DEF OnPiece
<1>7. CASE UNCHANGED vars
  BY <1>4, <1>7 DEF vars
<1>8. QED BY <1>1, <1>2, <1>3, <1>5, <1>6, <1>7 DEF Next

(***************************************************************************)
(* The KeyStore implements its abstract store, for every number of rows:   *)
(* no message changes an entry other than the one it addresses, and        *)
(* nothing but a restart forgets one.                                      *)
(***************************************************************************)
THEOREM Refinement == Spec => ImplementsShareStore
BY InitRefines, NextRefines, Invariance, PTL
   DEF Spec, ImplementsShareStore, Store!StoreSpec
===============================================================================
