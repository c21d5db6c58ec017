----------------------------- MODULE SecMqttProofs -----------------------------
(***************************************************************************)
(* What SecMqtt says of the three phases, for any number of KeyStores, any *)
(* size of their tables and any number of faults.                          *)
(***************************************************************************)
EXTENDS SecMqtt, SequenceTheorems, WellFoundedInduction, TLAPS

\* A KeyStore's table knows the one device only, under one master key; a row
\* without topic is the only one, and the topic has one row.
Used(tab) == DB!UsedRows(tab)
TopicRowsOf(tab) == {r \in Used(tab) : tab[r].htpk = DataTopic}
TableOK(tab) ==
    /\ tab \in [DB!Row -> DB!LIST]
    /\ \A r \in DB!Row : tab[r].isuded = 0 => tab[r] = DB!EmptyRow
    /\ \A r \in Used(tab) :
           /\ tab[r].hiot = Me /\ tab[r].msymk \in 1 .. MaxPhase
           /\ tab[r].htpk = DataTopic => tab[r].shar \in 1 .. MaxKey
           /\ \A s \in Used(tab) :
                  /\ tab[s].msymk = tab[r].msymk
                  /\ tab[r].htpk = 0 => s = r
    /\ \A r, s \in TopicRowsOf(tab) : r = s
Tables == \A i \in KS : TableOK(db[i])

\* The generations for which KeyStore i has sent an acknowledgement that the
\* publisher has counted or may still get.
Seen(i) ==
    {checked[i]} \cup
    {inbox[p].phase : p \in {p \in 1 .. Len(inbox) : inbox[p].ks = i}}

\* KeyStore i has the key that it has acknowledged, and those on their way to
\* it are later ones, in their order.
KeysOf(i) ==
    /\ \A k \in Seen(i) :
           /\ k <= phase
           /\ \A r \in Used(db[i]) : db[i][r].msymk >= k
           /\ \A n \in 1 .. Len(queue[i]) :
                  queue[i][n].type = "value" => queue[i][n].phase > k
    /\ \A r \in Used(db[i]) : db[i][r].msymk <= phase
    /\ \A n \in 1 .. Len(queue[i]) : queue[i][n].type = "value" =>
           /\ queue[i][n].phase <= phase
           /\ \A m \in 1 .. n : queue[i][m].type = "value" =>
                  m = n \/ queue[i][m].phase < queue[i][n].phase
Keys == \A i \in KS : KeysOf(i)

\* The shares come to KeyStore i in the order of the topic keys.
SharesOf(i) ==
    /\ \A r \in TopicRowsOf(db[i]) :
           /\ db[i][r].shar <= session_key
           /\ \A n \in 1 .. Len(queue[i]) :
                  queue[i][n].type = "sk" => queue[i][n].share >= db[i][r].shar
    /\ \A n \in 1 .. Len(queue[i]) : queue[i][n].type = "sk" =>
           /\ queue[i][n].share <= session_key
           /\ \A m \in 1 .. n : queue[i][m].type = "sk" =>
                  queue[i][m].share <= queue[i][n].share
Shares == \A i \in KS : SharesOf(i)

\* No share is behind a master key on its way to KeyStore i, and those on
\* their way are for the key that it has.
InStepOf(i) ==
    /\ NoiseRows(i) = {}
    /\ \A n \in 1 .. Len(queue[i]) : queue[i][n].type = "sk" =>
           /\ \A m \in 1 .. n : queue[i][m].type = "sk"
           /\ \A r \in Used(db[i]) : db[i][r].msymk = queue[i][n].phase
InStep == ~ retried => \A i \in KS : InStepOf(i)

\* verified[i] is kept when Phase I is run again: it says something of the
\* current keys only in the first run of a boot.
Handshake ==
    /\ pc = "wait" => phase > boot
    /\ phase = boot => pc \in {"setup", "hung"} /\ \A i \in KS : ~ verified[i]
    /\ secmqtt_state \in {"CONNECT_GOOD_NONCE", "KS_CONNECTED"} =>
           \A i \in KS : verified[i]
    /\ phase <= boot + 1 => \A i \in KS : verified[i] => checked[i] = phase
    /\ ~ retried => phase <= boot + 1

\* What has been encrypted under the current key is counted, except after a
\* reboot, which makes a new key before it publishes.
Uses ==
    /\ secmqtt_state = "KS_CONNECTED" =>
           session_key # 0 /\ published[session_key] <= sk_counter
    /\ \A k \in 1 .. MaxKey : k > session_key => published[k] = 0
    /\ KeyUseIsBounded

IInv == TypeOK /\ Tables /\ Keys /\ Shares /\ InStep /\ Handshake /\ Uses

-------------------------------------------------------------------------------
(***************************************************************************)
(* The table of one device.                                                *)
(***************************************************************************)
LEMMA Counts ==
    /\ KSN_NUM \in Nat \ {0} /\ MAX_SK_USAGE \in Nat \ {0}
    /\ MAXDBROW \in Nat \ {0} /\ RECON \subseteq BOOLEAN
    /\ MaxFaults \in Nat /\ MaxPhase \in Nat /\ MaxKey \in Nat
    /\ KS \subseteq Nat \ {0} /\ 1 \in KS
    /\ DB!Row \subseteq Nat /\ 0 \in DB!Row
    /\ Me = 1 /\ DataTopic = 1
BY CountAssumption DEF KS, DB!Row, Me, DataTopic

\* A non-empty set of naturals has a least element.
LEMMA LeastNatural ==
    ASSUME NEW S \in SUBSET Nat, S # {}
    PROVE  \E x \in S : \A y \in S : x <= y
<1> DEFINE R == {ss \in Nat \X Nat : ss[1] < ss[2]}
<1>1. R = OpToRel(<, Nat)
  BY DEF OpToRel
<1>2. IsWellFoundedOn(R, Nat)
  BY <1>1, NatLessThanWellFounded
<1>3. PICK x \in S : \A y \in S : ~ (<<y, x>> \in R)
  <2> HIDE DEF R
  <2> QED BY <1>2, WFMin
<1>4. ASSUME NEW y \in S PROVE x <= y
  <2>1. x \in Nat /\ y \in Nat
    OBVIOUS
  <2>2. ~ (<<y, x>> \in R)
    BY <1>3
  <2>3. ~ (y < x)
    BY <2>1, <2>2
  <2>4. QED BY <2>1, <2>3
<1>5. QED BY <1>4

\* The first and the last of some rows are among them.
LEMMA FirstRow ==
    ASSUME NEW S \in SUBSET DB!Row, S # {}
    PROVE  DB!Min(S) \in S
<1>1. S \in SUBSET Nat
  BY Counts
<1>2. \E x \in S : \A y \in S : x <= y
  BY <1>1, LeastNatural
<1>3. QED BY <1>2 DEF DB!Min

\* The same for the greatest of some rows.
LEMMA LastRow ==
    ASSUME NEW S \in SUBSET DB!Row, S # {}
    PROVE  DB!Max(S) \in S
<1> DEFINE T == {MAXDBROW - x : x \in S}
<1>1. T \in SUBSET Nat /\ T # {} /\ S \in SUBSET Nat
  <2>1. \A x \in S : x \in Nat /\ MAXDBROW - x \in Nat
    BY Counts DEF DB!Row
  <2>2. QED BY <2>1
<1>2. PICK z \in T : \A y \in T : z <= y
  <2> HIDE DEF T
  <2> QED BY <1>1, LeastNatural
<1>3. PICK x \in S : z = MAXDBROW - x
  OBVIOUS
<1>4. \A y \in S : x >= y
  BY <1>1, <1>2, <1>3, Counts
<1>5. QED BY <1>4 DEF DB!Max

\* The fields of a row, and the row that was never written.
LEMMA RowTypes ==
    ASSUME NEW tab, tab \in [DB!Row -> DB!LIST]
    PROVE  /\ \A r \in DB!Row :
                  /\ tab[r] \in DB!LIST
                  /\ tab[r].hiot \in {0, 1} /\ tab[r].isuded \in {0, 1}
                  /\ tab[r].htpk \in {0, 1, -1, -2}
                  /\ tab[r].msymk \in 0 .. MaxPhase
                  /\ tab[r].shar \in -2 .. MaxKey
           /\ \A r : r \in Used(tab) <=> r \in DB!Row /\ tab[r].isuded = 1
           /\ \A r : r \in DB!FreeRows(tab)
                         <=> r \in DB!Row /\ tab[r].isuded = 0
<1>1. ASSUME NEW r \in DB!Row
      PROVE  /\ tab[r].hiot \in {0, 1} /\ tab[r].isuded \in {0, 1}
             /\ tab[r].htpk \in {0, 1, -1, -2}
             /\ tab[r].msymk \in 0 .. MaxPhase
             /\ tab[r].shar \in -2 .. MaxKey
  <2>1. tab[r] \in DB!LIST
    OBVIOUS
  <2>2. /\ tab[r].hiot \in {1} \cup {0} /\ tab[r].isuded \in {0, 1}
        /\ tab[r].htpk \in ({1} \cup {-1, -2}) \cup {0}
        /\ tab[r].msymk \in (1 .. MaxPhase) \cup {0}
        /\ tab[r].shar \in ((1 .. MaxKey) \cup {-1, -2}) \cup {0}
    BY <2>1 DEF DB!LIST, DB!TopicHash, DB!ShareBytes, Me, DataTopic
  <2>3. QED BY <2>2, Counts
<1>2. QED BY <1>1 DEF Used, DB!UsedRows, DB!FreeRows

\* The table of a KeyStore that has just started.
LEMMA EmptyTable ==
    TableOK(DB!Initdb) /\ Used(DB!Initdb) = {} /\ TopicRowsOf(DB!Initdb) = {}
<1>1. DB!EmptyRow \in DB!LIST /\ DB!EmptyRow.isuded = 0
  BY DEF DB!EmptyRow, DB!LIST
<1>2. DB!Initdb \in [DB!Row -> DB!LIST]
      /\ \A r \in DB!Row : DB!Initdb[r] = DB!EmptyRow
  BY <1>1 DEF DB!Initdb
<1>3. Used(DB!Initdb) = {}
  BY <1>1, <1>2, RowTypes
<1>4. QED BY <1>2, <1>3 DEF TableOK, TopicRowsOf

\* The key GetSymK finds is that of any row in use.
LEMMA KeyFound ==
    ASSUME NEW tab, TableOK(tab)
    PROVE  /\ Used(tab) = {} => DB!GetSymK(tab, Me) = 0
           /\ \A r \in Used(tab) : DB!GetSymK(tab, Me) = tab[r].msymk
<1> DEFINE hits == {r \in DB!Row : tab[r].hiot = Me}
<1>1. /\ tab \in [DB!Row -> DB!LIST]
      /\ \A r \in DB!Row : tab[r].isuded = 0 => tab[r] = DB!EmptyRow
      /\ \A r \in Used(tab) : tab[r].hiot = Me
  BY DEF TableOK
<1>2. hits = Used(tab)
  <2>1. DB!EmptyRow.hiot # Me
    BY DEF DB!EmptyRow, Me
  <2>2. \A r \in DB!Row : tab[r].hiot = Me => tab[r].isuded = 1
    BY <1>1, <2>1, RowTypes
  <2>3. QED BY <1>1, <2>2, RowTypes
<1>3. DB!Getindex(tab, Me) = IF hits = {} THEN -1 ELSE DB!Min(hits)
  BY DEF DB!Getindex
<1>4. CASE Used(tab) = {}
  BY <1>2, <1>3, <1>4 DEF DB!GetSymK
<1>5. CASE Used(tab) # {}
  <2>1. DB!Getindex(tab, Me) \in Used(tab)
    <3>1. hits \in SUBSET DB!Row /\ hits # {}
      BY <1>2, <1>5
    <3>2. DB!Min(hits) \in hits
      <4> HIDE DEF hits
      <4> QED BY <3>1, FirstRow
    <3>3. QED BY <1>2, <1>3, <3>1, <3>2
  <2>2. DB!Getindex(tab, Me) # -1
    BY <1>1, <2>1, RowTypes, Counts
  <2>3. DB!GetSymK(tab, Me) = tab[DB!Getindex(tab, Me)].msymk
    BY <2>2 DEF DB!GetSymK
  <2>4. QED BY <1>5, <2>1, <2>3 DEF TableOK
<1>6. QED BY <1>4, <1>5

\* The used rows are those of the publisher: there is only one.
LEMMA RowsOfMe ==
    ASSUME NEW tab, TableOK(tab)
    PROVE  DB!UsedRowsOf(tab, Me) = Used(tab)
BY DEF TableOK, Used, DB!UsedRowsOf

\* Phase I: all the rows have the new key, and nothing else of them changes.
LEMMA KeyStored ==
    ASSUME NEW tab, TableOK(tab), NEW k \in 1 .. MaxPhase
    PROVE  /\ TableOK(DB!AddsymK(tab, Me, k))
           /\ \A r \in Used(DB!AddsymK(tab, Me, k)) :
                  DB!AddsymK(tab, Me, k)[r].msymk = k
           /\ \A r \in DB!Row :
                  /\ DB!AddsymK(tab, Me, k)[r].htpk = tab[r].htpk
                  /\ DB!AddsymK(tab, Me, k)[r].shar = tab[r].shar
           /\ \A r \in Used(DB!AddsymK(tab, Me, k)) :
                  r \in Used(tab) \/ tab[r] = DB!EmptyRow
           /\ Used(tab) \subseteq Used(DB!AddsymK(tab, Me, k))
<1> DEFINE new == DB!AddsymK(tab, Me, k)
<1>1. /\ tab \in [DB!Row -> DB!LIST]
      /\ \A r \in DB!Row : tab[r].isuded = 0 => tab[r] = DB!EmptyRow
      /\ \A r \in Used(tab) :
             /\ tab[r].hiot = Me
             /\ tab[r].htpk = DataTopic => tab[r].shar \in 1 .. MaxKey
             /\ \A s \in Used(tab) : tab[r].htpk = 0 => s = r
      /\ \A r, s \in TopicRowsOf(tab) : r = s
  BY DEF TableOK
<1>2. CASE Used(tab) # {}
  <2>1. new = [r \in DB!Row |-> IF r \in Used(tab)
                                THEN [tab[r] EXCEPT !.msymk = k]
                                ELSE tab[r]]
    BY <1>2, RowsOfMe DEF DB!AddsymK
  <2>2. ASSUME NEW r \in DB!Row
        PROVE  /\ new[r] \in DB!LIST
               /\ new[r].hiot = tab[r].hiot /\ new[r].htpk = tab[r].htpk
               /\ new[r].shar = tab[r].shar /\ new[r].isuded = tab[r].isuded
               /\ r \in Used(tab) => new[r].msymk = k
               /\ r \notin Used(tab) => new[r] = tab[r]
    <3>1. tab[r] \in DB!LIST
      BY <1>1
    <3>2. CASE r \in Used(tab)
      <4>1. new[r] = [tab[r] EXCEPT !.msymk = k]
        BY <2>1, <3>2
      <4>2. QED BY <3>1, <3>2, <4>1 DEF DB!LIST
    <3>3. CASE r \notin Used(tab)
      BY <2>1, <3>1, <3>3
    <3>4. QED BY <3>2, <3>3
  <2>3. new \in [DB!Row -> DB!LIST]
    BY <2>1, <2>2
  <2> HIDE DEF new
  <2>4. Used(new) = Used(tab)
    <3>1. \A r : /\ r \in Used(new) <=> r \in DB!Row /\ new[r].isuded = 1
                 /\ r \in Used(tab) <=> r \in DB!Row /\ tab[r].isuded = 1
      BY <1>1, <2>3, RowTypes
    <3>2. \A r : r \in Used(new) <=> r \in Used(tab)
      BY <2>2, <3>1
    <3>3. QED BY <3>2
  <2>5. TopicRowsOf(new) = TopicRowsOf(tab)
    BY <1>1, <2>2, <2>4, RowTypes DEF TopicRowsOf
  <2>6. Used(tab) \subseteq DB!Row
    BY <1>1, RowTypes
  <2>7. \A r \in DB!Row : new[r].isuded = 0 => new[r] = DB!EmptyRow
    BY <1>1, <2>2, RowTypes
  <2>8. \A r \in Used(new) :
            /\ new[r].hiot = Me /\ new[r].msymk = k
            /\ new[r].htpk = DataTopic => new[r].shar \in 1 .. MaxKey
            /\ \A s \in Used(new) : new[r].htpk = 0 => s = r
    BY <1>1, <2>2, <2>4, <2>6
  <2>9. TableOK(new)
    BY <1>1, <2>3, <2>5, <2>7, <2>8 DEF TableOK
  <2>10. QED BY <2>2, <2>4, <2>8, <2>9 DEF new
<1>3. CASE Used(tab) = {}
  <2> DEFINE n == DB!Min(DB!FreeRows(tab))
  <2>1. n \in DB!FreeRows(tab) /\ n \in DB!Row
    <3>1. DB!FreeRows(tab) \in SUBSET DB!Row
      BY <1>1, RowTypes
    <3>2. 0 \in DB!FreeRows(tab)
      BY <1>1, <1>3, RowTypes, Counts
    <3>3. QED BY <3>1, <3>2, FirstRow
  <2>2. new = [tab EXCEPT ![n] = [tab[n] EXCEPT !.hiot = Me, !.msymk = k,
                                                !.isuded = 1]]
    BY <1>3, <2>1, RowsOfMe DEF DB!AddsymK
  <2>3. tab[n] = DB!EmptyRow
    BY <1>1, <2>1, RowTypes
  <2> HIDE DEF n, new
  <2>4. /\ new[n] = [DB!EmptyRow EXCEPT !.hiot = Me, !.msymk = k, !.isuded = 1]
        /\ \A r \in DB!Row : r # n => new[r] = tab[r]
    BY <1>1, <2>1, <2>2, <2>3
  <2>5. /\ new[n].hiot = Me /\ new[n].msymk = k /\ new[n].isuded = 1
        /\ new[n].htpk = 0 /\ new[n].shar = 0
        /\ tab[n].htpk = 0 /\ tab[n].shar = 0
    BY <2>3, <2>4 DEF DB!EmptyRow
  <2>6. new[n] \in DB!LIST
    BY <2>4 DEF DB!EmptyRow, DB!LIST
  <2>7. new \in [DB!Row -> DB!LIST]
    BY <1>1, <2>2, <2>4, <2>6
  <2>8. Used(new) = {n}
    <3>1. \A r : /\ r \in Used(new) <=> r \in DB!Row /\ new[r].isuded = 1
                 /\ r \in Used(tab) <=> r \in DB!Row /\ tab[r].isuded = 1
      BY <1>1, <2>7, RowTypes
    <3>2. n \in Used(new)
      BY <2>1, <2>5, <3>1
    <3>3. ASSUME NEW r \in Used(new), r # n PROVE FALSE
      <4>1. r \in DB!Row /\ new[r] = tab[r]
        BY <2>4, <3>1, <3>3
      <4>2. r \in Used(tab)
        BY <3>1, <3>3, <4>1
      <4>3. QED BY <1>3, <4>2
    <3>4. QED BY <3>2, <3>3
  <2>9. TopicRowsOf(new) = {}
    BY <2>5, <2>8, Counts DEF TopicRowsOf
  <2>10. \A r \in DB!Row : new[r].isuded = 0 => new[r] = DB!EmptyRow
    <3>1. SUFFICES ASSUME NEW r \in DB!Row, new[r].isuded = 0
                   PROVE  new[r] = DB!EmptyRow
      OBVIOUS
    <3>2. r # n
      BY <2>5, <3>1
    <3>3. new[r] = tab[r]
      BY <2>4, <3>2
    <3>4. QED BY <1>1, <3>1, <3>3
  <2>11. TableOK(new)
    BY <2>5, <2>7, <2>8, <2>9, <2>10, Counts DEF TableOK
  <2>12. \A r \in DB!Row : new[r].htpk = tab[r].htpk /\ new[r].shar = tab[r].shar
    BY <2>4, <2>5
  <2>13. QED BY <1>3, <2>3, <2>5, <2>8, <2>11, <2>12 DEF new
<1>4. QED BY <1>2, <1>3

\* A new key changes nothing of the topic, and makes no row of another one.
LEMMA KeyKeepsTopic ==
    ASSUME NEW tab, TableOK(tab), NEW k \in 1 .. MaxPhase
    PROVE  /\ \A r : r \in TopicRowsOf(DB!AddsymK(tab, Me, k))
                         <=> r \in TopicRowsOf(tab)
           /\ \A r \in TopicRowsOf(tab) :
                  DB!AddsymK(tab, Me, k)[r].shar = tab[r].shar
           /\ \A r \in Used(DB!AddsymK(tab, Me, k)) :
                  \/ r \in Used(tab)
                     /\ DB!AddsymK(tab, Me, k)[r].htpk = tab[r].htpk
                  \/ DB!AddsymK(tab, Me, k)[r].htpk = 0
<1>1. PICK new : new = DB!AddsymK(tab, Me, k)
  OBVIOUS
<1>2. /\ TableOK(new) /\ TableOK(tab)
      /\ \A r \in DB!Row : new[r].htpk = tab[r].htpk /\ new[r].shar = tab[r].shar
      /\ \A r \in Used(new) : r \in Used(tab) \/ tab[r] = DB!EmptyRow
      /\ Used(tab) \subseteq Used(new)
  BY <1>1, KeyStored
<1>3. \A r : /\ r \in Used(tab) => r \in DB!Row
             /\ r \in Used(new) => r \in DB!Row
  BY <1>2, RowTypes DEF TableOK
<1>4. DB!EmptyRow.htpk = 0
  BY DEF DB!EmptyRow
<1>5. /\ \A r : r \in TopicRowsOf(new) <=> r \in TopicRowsOf(tab)
      /\ \A r \in TopicRowsOf(tab) : new[r].shar = tab[r].shar
      /\ \A r \in Used(new) : \/ r \in Used(tab) /\ new[r].htpk = tab[r].htpk
                              \/ new[r].htpk = 0
  BY <1>2, <1>3, <1>4, Counts DEF TopicRowsOf
<1>6. QED BY <1>1, <1>5

\* Phase II: one row is written, or none; the key stays, and a row of another
\* topic, too.
LEMMA ShareStored ==
    ASSUME NEW tab, TableOK(tab), NEW t \in {1, -1, -2}, NEW s \in -2 .. MaxKey,
           t = 1 => s \in 1 .. MaxKey, s # 0
    PROVE  /\ TableOK(DB!Addshare(tab, Me, t, s))
           /\ \A r \in Used(DB!Addshare(tab, Me, t, s)), q \in Used(tab) :
                  DB!Addshare(tab, Me, t, s)[r].msymk = tab[q].msymk
           /\ \A r \in Used(DB!Addshare(tab, Me, t, s)) :
                  \/ r \in Used(tab) /\ DB!Addshare(tab, Me, t, s)[r] = tab[r]
                  \/ /\ DB!Addshare(tab, Me, t, s)[r].htpk = t
                     /\ DB!Addshare(tab, Me, t, s)[r].shar = s
           /\ Used(tab) = {} => DB!Addshare(tab, Me, t, s) = tab
           /\ \A r \in TopicRowsOf(tab) :
                  \/ DB!Addshare(tab, Me, t, s)[r] = tab[r]
                  \/ t = 1 /\ DB!Addshare(tab, Me, t, s)[r].shar = s
           /\ \A r \in TopicRowsOf(tab) :
                  r \in TopicRowsOf(DB!Addshare(tab, Me, t, s))
<1> DEFINE new == DB!Addshare(tab, Me, t, s)
           here == DB!TopicRows(tab, Me, t)
           free == DB!FreeRows(tab)
           i == DB!AddshareResult(tab, Me, t)
<1>1. /\ tab \in [DB!Row -> DB!LIST]
      /\ \A r \in DB!Row : tab[r].isuded = 0 => tab[r] = DB!EmptyRow
      /\ \A r \in Used(tab) :
             /\ tab[r].hiot = Me /\ tab[r].msymk \in 1 .. MaxPhase
             /\ tab[r].htpk = DataTopic => tab[r].shar \in 1 .. MaxKey
             /\ \A q \in Used(tab) : /\ tab[q].msymk = tab[r].msymk
                                     /\ tab[r].htpk = 0 => q = r
      /\ \A r, q \in TopicRowsOf(tab) : r = q
  BY DEF TableOK
<1>2. /\ here = {r \in Used(tab) : tab[r].htpk = 0 \/ tab[r].htpk = t}
      /\ Used(tab) \subseteq DB!Row /\ here \in SUBSET DB!Row
      /\ free \in SUBSET DB!Row /\ \A r \in free : r \notin Used(tab)
      /\ \A r \in DB!Row : r # -1
  BY <1>1, RowsOfMe, RowTypes, Counts DEF DB!TopicRows, DB!Hastopic
<1>3. \/ new = tab /\ (here = {} \/ Used(tab) = {})
      \/ \E n \in DB!Row, key \in 1 .. MaxPhase :
             /\ Used(tab) # {} /\ \A r \in Used(tab) : tab[r].msymk = key
             /\ n \in here \/ (here = {} /\ n \in free)
             /\ new = [tab EXCEPT ![n] = [hiot |-> Me, htpk |-> t, msymk |-> key,
                                          shar |-> s, isuded |-> 1]]
  <2>1. CASE here # {}
    <3>1. i \in here /\ i \in DB!Row /\ i # -1
      BY <1>2, <2>1, FirstRow DEF DB!AddshareResult
    <3>2. new = [tab EXCEPT ![i] = [hiot |-> Me, htpk |-> t,
                                    msymk |-> tab[i].msymk, shar |-> s,
                                    isuded |-> 1]]
      BY <2>1, <3>1 DEF DB!Addshare
    <3> HIDE DEF new, i
    <3>3. i \in Used(tab)
      BY <1>2, <3>1
    <3> HIDE DEF here
    <3>4. tab[i].msymk \in 1 .. MaxPhase
          /\ \A r \in Used(tab) : tab[r].msymk = tab[i].msymk
      BY <1>1, <3>3
    <3>5. QED BY <3>1, <3>2, <3>3, <3>4
  <2>2. CASE here = {} /\ Used(tab) # {} /\ free # {}
    <3>1. i \in free /\ i \in DB!Row /\ i # -1
      BY <1>2, <2>2, RowsOfMe, FirstRow DEF DB!AddshareResult
    <3> DEFINE j == DB!Max(Used(tab))
    <3>2. j \in Used(tab)
      BY <1>2, <2>2, LastRow
    <3>3. new = [tab EXCEPT ![i] = [hiot |-> Me, htpk |-> t,
                                    msymk |-> tab[j].msymk, shar |-> s,
                                    isuded |-> 1]]
      BY <2>2, <3>1, RowsOfMe DEF DB!Addshare
    <3> HIDE DEF new, i, j, here, free
    <3>4. tab[j].msymk \in 1 .. MaxPhase
          /\ \A r \in Used(tab) : tab[r].msymk = tab[j].msymk
      BY <1>1, <3>2
    <3>5. QED BY <2>2, <3>1, <3>3, <3>4
  <2>3. CASE here = {} /\ (Used(tab) = {} \/ free = {})
    BY <2>3, RowsOfMe DEF DB!Addshare, DB!AddshareResult
  <2>4. QED BY <2>1, <2>2, <2>3
<1> HIDE DEF i, free, here, new
<1>4. CASE new = tab /\ (here = {} \/ Used(tab) = {})
  BY <1>1, <1>4 DEF new
<1>5. ASSUME NEW n \in DB!Row, NEW key \in 1 .. MaxPhase,
             Used(tab) # {}, \A r \in Used(tab) : tab[r].msymk = key,
             n \in here \/ (here = {} /\ n \in free),
             new = [tab EXCEPT ![n] = [hiot |-> Me, htpk |-> t, msymk |-> key,
                                       shar |-> s, isuded |-> 1]]
      PROVE  /\ TableOK(new)
             /\ \A r \in Used(new), q \in Used(tab) : new[r].msymk = tab[q].msymk
             /\ \A r \in Used(new) : \/ r \in Used(tab) /\ new[r] = tab[r]
                                     \/ new[r].htpk = t /\ new[r].shar = s
             /\ \A r \in TopicRowsOf(tab) :
                    new[r] = tab[r] \/ (t = 1 /\ new[r].shar = s)
             /\ \A r \in TopicRowsOf(tab) : r \in TopicRowsOf(new)
  <2>1. /\ new[n] = [hiot |-> Me, htpk |-> t, msymk |-> key, shar |-> s,
                     isuded |-> 1]
        /\ \A r \in DB!Row : r # n => new[r] = tab[r]
    BY <1>1, <1>5
  <2>2. /\ new[n].hiot = Me /\ new[n].htpk = t /\ new[n].msymk = key
        /\ new[n].shar = s /\ new[n].isuded = 1
    BY <2>1
  <2>3. new[n] \in DB!LIST
    <3>1. s \in ((1 .. MaxKey) \cup {-1, -2}) \cup {0}
      BY Counts
    <3>2. QED BY <2>1, <3>1 DEF DB!LIST, DB!TopicHash, DB!ShareBytes, Me, DataTopic
  <2>4. new \in [DB!Row -> DB!LIST]
    BY <1>1, <1>5, <2>1, <2>3
  <2>5. Used(new) = Used(tab) \cup {n}
    <3>1. \A r : /\ r \in Used(new) <=> r \in DB!Row /\ new[r].isuded = 1
                 /\ r \in Used(tab) <=> r \in DB!Row /\ tab[r].isuded = 1
      BY <1>1, <2>4, RowTypes
    <3>2. \A r : r \in Used(new) <=> r \in Used(tab) \/ r = n
      BY <2>1, <2>2, <3>1
    <3>3. QED BY <3>2
  <2>6. \A r \in Used(tab) : r # n =>
            /\ tab[r].htpk # 0 /\ (t = 1 => tab[r].htpk # 1) /\ new[r] = tab[r]
    <3>1. SUFFICES ASSUME NEW r \in Used(tab), r # n
                   PROVE  tab[r].htpk # 0 /\ (t = 1 => tab[r].htpk # 1)
      BY <1>2, <2>1
    <3>2. CASE here = {}
      BY <1>2, <3>2
    <3>3. CASE n \in here
      <4>1. n \in Used(tab) /\ (tab[n].htpk = 0 \/ tab[n].htpk = t)
        BY <1>2, <3>3
      <4>2. tab[r].htpk # 0 /\ tab[n].htpk # 0
        BY <1>1, <3>1, <4>1
      <4>3. t = 1 => tab[r].htpk # 1
        BY <1>1, <3>1, <4>1, <4>2, Counts DEF TopicRowsOf
      <4>4. QED BY <4>2, <4>3
    <3>4. QED BY <1>5, <3>2, <3>3
  <2>7. \A r \in Used(new) : r # n => r \in Used(tab) /\ new[r] = tab[r]
    BY <2>5, <2>6
  <2>8. \A r, q \in TopicRowsOf(new) : r = q
    <3>1. SUFFICES ASSUME NEW r \in TopicRowsOf(new), NEW q \in TopicRowsOf(new)
                   PROVE  r = q
      OBVIOUS
    <3>2. /\ r \in Used(new) /\ new[r].htpk = 1
          /\ q \in Used(new) /\ new[q].htpk = 1
      BY Counts DEF TopicRowsOf
    <3>3. CASE t = 1
      BY <2>6, <2>7, <3>2, <3>3
    <3>4. CASE t # 1
      <4>1. r # n /\ q # n
        BY <2>2, <3>2, <3>4
      <4>2. r \in TopicRowsOf(tab) /\ q \in TopicRowsOf(tab)
        BY <2>7, <3>2, <4>1, Counts DEF TopicRowsOf
      <4>3. QED BY <1>1, <4>2
    <3>5. QED BY <3>3, <3>4
  <2>9. \A r \in DB!Row : new[r].isuded = 0 => new[r] = DB!EmptyRow
    <3>1. SUFFICES ASSUME NEW r \in DB!Row, new[r].isuded = 0
                   PROVE  new[r] = DB!EmptyRow
      OBVIOUS
    <3>2. r # n
      BY <2>2, <3>1
    <3>3. new[r] = tab[r]
      BY <2>1, <3>2
    <3>4. QED BY <1>1, <3>1, <3>3
  <2>10. ASSUME NEW r \in Used(new)
         PROVE  /\ new[r].hiot = Me /\ new[r].msymk = key
                /\ new[r].htpk = DataTopic => new[r].shar \in 1 .. MaxKey
                /\ \A q \in Used(new) : new[r].htpk = 0 => q = r
    <3>1. t # 0 /\ (new[n].htpk = DataTopic => new[n].shar \in 1 .. MaxKey)
      BY <2>2, Counts
    <3>2. CASE r = n
      BY <2>2, <3>1, <3>2
    <3>3. CASE r # n
      <4>1. r \in Used(tab) /\ new[r] = tab[r] /\ tab[r].htpk # 0
        BY <2>6, <2>7, <3>3
      <4>2. QED BY <1>1, <1>5, <4>1
    <3>4. QED BY <3>2, <3>3
  <2>11. TableOK(new)
    BY <2>4, <2>8, <2>9, <2>10 DEF TableOK
  <2>12. \A r \in Used(new), q \in Used(tab) : new[r].msymk = tab[q].msymk
    BY <1>5, <2>10
  <2>13. \A r \in Used(new) : \/ r \in Used(tab) /\ new[r] = tab[r]
                              \/ new[r].htpk = t /\ new[r].shar = s
    BY <2>2, <2>7
  <2>14. ASSUME NEW r \in TopicRowsOf(tab)
         PROVE  /\ new[r] = tab[r] \/ (t = 1 /\ new[r].shar = s)
                /\ r \in TopicRowsOf(new)
    <3>1. r \in Used(tab) /\ tab[r].htpk = 1
      BY Counts DEF TopicRowsOf
    <3>2. CASE r # n
      BY <2>5, <2>6, <3>1, <3>2, Counts DEF TopicRowsOf
    <3>3. CASE r = n
      <4>1. n \in here
        BY <1>2, <1>5, <3>1, <3>3
      <4>2. t = 1
        BY <1>2, <3>1, <3>3, <4>1
      <4>3. QED BY <2>2, <2>5, <3>3, <4>2, Counts DEF TopicRowsOf
    <3>4. QED BY <3>2, <3>3
  <2>15. QED BY <2>11, <2>12, <2>13, <2>14
<1>6. QED BY <1>3, <1>4, <1>5 DEF new

-------------------------------------------------------------------------------
(***************************************************************************)
(* What is sent.                                                           *)
(***************************************************************************)
Sk(g, k) == [type |-> "sk", phase |-> g, share |-> k]

\* A queue with a message more.
LEMMA AppendFacts ==
    ASSUME NEW S, NEW s \in Seq(S), NEW e \in S
    PROVE  /\ Append(s, e) \in Seq(S) /\ Len(s) \in Nat
           /\ Len(Append(s, e)) = Len(s) + 1
           /\ \A n \in 1 .. Len(s) + 1 :
                  Append(s, e)[n] = IF n = Len(s) + 1 THEN e ELSE s[n]
           /\ \A n \in 1 .. Len(s) : s[n] \in S
<1>1. Len(s) \in Nat /\ \A n \in 1 .. Len(s) : s[n] \in S
  BY LenProperties, ElementOfSeq
<1>2. Append(s, e) \in Seq(S) /\ Len(Append(s, e)) = Len(s) + 1
  BY AppendProperties
<1>3. \A n \in 1 .. Len(s) + 1 :
          Append(s, e)[n] = IF n = Len(s) + 1 THEN e ELSE s[n]
  BY <1>1, AppendProperties
<1>4. QED BY <1>1, <1>2, <1>3

\* A queue without its first message.
LEMMA TailFacts ==
    ASSUME NEW S, NEW s \in Seq(S), s # <<>>
    PROVE  /\ Head(s) = s[1] /\ Head(s) \in S
           /\ Len(s) \in Nat \ {0}
           /\ Tail(s) \in Seq(S) /\ Len(Tail(s)) = Len(s) - 1
           /\ \A n \in 1 .. Len(s) - 1 : Tail(s)[n] = s[n + 1]
           /\ \A n \in 1 .. Len(s) : s[n] \in S
<1>1. Len(s) \in Nat \ {0} /\ \A n \in 1 .. Len(s) : s[n] \in S
  BY EmptySeq, LenProperties, ElementOfSeq
<1>2. /\ Head(s) = s[1] /\ Tail(s) \in Seq(S) /\ Len(Tail(s)) = Len(s) - 1
      /\ \A n \in 1 .. Len(s) - 1 : Tail(s)[n] = s[n + 1]
  BY <1>1, HeadTailProperties
<1>3. s[1] \in S
  BY <1>1
<1>4. QED BY <1>1, <1>2, <1>3

\* The messages of the two phases.
LEMMA MessageTypes ==
    /\ \A g \in 1 .. MaxPhase : ibe_encryption(g) \in Messages
    /\ \A g \in 1 .. MaxPhase, k \in 1 .. MaxKey : Sk(g, k) \in Messages
    /\ \A m \in Messages :
           /\ m.type \in {"value", "sk"} /\ m.phase \in 1 .. MaxPhase
           /\ m.type = "sk" => m.share \in 1 .. MaxKey
<1>1. \A g \in 1 .. MaxPhase : ibe_encryption(g) \in Messages
  <2>1. SUFFICES ASSUME NEW g \in 1 .. MaxPhase PROVE ibe_encryption(g) \in Messages
    OBVIOUS
  <2>2. (g = boot + 1) \in BOOLEAN
    OBVIOUS
  <2>3. QED BY <2>2 DEF ibe_encryption, Messages
<1>2. \A g \in 1 .. MaxPhase, k \in 1 .. MaxKey : Sk(g, k) \in Messages
  BY DEF Sk, Messages
<1>3. \A m \in Messages :
          /\ m.type \in {"value", "sk"} /\ m.phase \in 1 .. MaxPhase
          /\ m.type = "sk" => m.share \in 1 .. MaxKey
  BY DEF Messages
<1>4. QED BY <1>1, <1>2, <1>3

\* The publishing loop reaches some KeyStores, and only adds to queues.
LEMMA PublishFacts ==
    ASSUME TypeOK, NEW msg \in Messages, NEW n \in Reached, Publish(msg, n)
    PROVE  /\ queue' \in [KS -> Seq(Messages)] /\ connected' \in BOOLEAN
           /\ faults' \in 0 .. MaxFaults
           /\ \A i \in KS : \/ queue'[i] = queue[i]
                            \/ queue'[i] = Append(queue[i], msg)
<1>1. \A i \in KS : queue[i] \in Seq(Messages)
                   /\ Append(queue[i], msg) \in Seq(Messages)
  BY AppendFacts DEF TypeOK
<1>2. queue' = [i \in KS |-> IF i <= n /\ listening[i]
                             THEN Append(queue[i], msg)
                             ELSE queue[i]]
  BY DEF Publish
<1>3. connected' \in BOOLEAN
  BY DEF Publish
<1>4. faults' \in 0 .. MaxFaults
  BY Counts DEF Publish, Reached, TypeOK
<1>5. QED BY <1>1, <1>2, <1>3, <1>4

\* SecSessionKeyUpdate makes a new topic key and sends its shares.
LEMMA SendSk ==
    ASSUME TypeOK, phase # 0, NEW n \in Reached, SecSessionKeyUpdate(phase, n)
    PROVE  /\ session_key' = session_key + 1 /\ session_key' \in 1 .. MaxKey
           /\ queue' \in [KS -> Seq(Messages)] /\ connected' \in BOOLEAN
           /\ faults' \in 0 .. MaxFaults
           /\ \A i \in KS : \/ queue'[i] = queue[i]
                            \/ queue'[i] = Append(queue[i], Sk(phase, session_key'))
<1>1. /\ session_key < MaxKey /\ session_key' = session_key + 1
      /\ Publish(Sk(phase, session_key + 1), n)
  BY DEF SecSessionKeyUpdate, Sk
<1>2. session_key' \in 1 .. MaxKey /\ phase \in 1 .. MaxPhase
  BY <1>1, Counts DEF TypeOK
<1>3. Sk(phase, session_key') \in Messages
  BY <1>2, MessageTypes
<1>4. QED BY <1>1, <1>2, <1>3, PublishFacts

\* When all the KeyStores are verified, Phase I has run in this boot; after its
\* first run all of them have acknowledged it.
LEMMA AllVerified ==
    ASSUME TypeOK, Handshake,
           secmqtt_state \in {"CONNECT_GOOD_NONCE", "KS_CONNECTED"}
    PROVE  /\ phase # 0 /\ phase > boot
           /\ phase = boot + 1 => \A i \in KS : checked[i] = phase
<1>1. \A i \in KS : verified[i]
  BY DEF Handshake
<1>2. phase # boot
  BY <1>1, Counts DEF Handshake
<1>3. phase \in Nat /\ boot \in Nat /\ phase >= boot
  BY Counts DEF TypeOK
<1>4. QED BY <1>1, <1>2, <1>3 DEF Handshake

\* The two branches of SecConnect.
LEMMA SecConnectFacts ==
    ASSUME TypeOK, Handshake, SecConnect
    PROVE  /\ \/ /\ secmqtt_state = "KS_CONNECTED"
                 /\ session_key' = session_key + 1 /\ session_key' \in 1 .. MaxKey
                 /\ sk_counter' = 0 /\ pc' \in {"loop", "recon"}
                 /\ acktopics' \subseteq acktopics
                 /\ UNCHANGED <<phase, retried>>
                 /\ \A i \in KS :
                        \/ queue'[i] = queue[i]
                        \/ queue'[i] = Append(queue[i], Sk(phase, session_key'))
              \/ /\ secmqtt_state # "KS_CONNECTED"
                 /\ phase' = phase + 1 /\ phase' \in 1 .. MaxPhase
                 /\ retried' = (retried \/ phase > boot) /\ pc' = "wait"
                 /\ acktopics' \subseteq acktopics \cup {phase'}
                 /\ UNCHANGED <<session_key, sk_counter>>
                 /\ \A i \in KS :
                        \/ queue'[i] = queue[i]
                        \/ queue'[i] = Append(queue[i], ibe_encryption(phase'))
           /\ queue' \in [KS -> Seq(Messages)] /\ connected' \in BOOLEAN
           /\ faults' \in 0 .. MaxFaults /\ caller' \in {"loop", "recon"}
           /\ inbox' = inbox \/ inbox' = <<>>
           /\ pc \in {"setup", "loop"}
           /\ UNCHANGED <<recon, secmqtt_state, boot, verified, checked,
                          published, broker, ksVars>>
<1>1. /\ caller' \in {"loop", "recon"} /\ pc \in {"setup", "loop"}
      /\ inbox' = inbox \/ inbox' = <<>>
      /\ UNCHANGED <<recon, secmqtt_state, boot, verified, checked,
                     published, broker, ksVars>>
  BY DEF SecConnect, TimerEnd
<1>2. PICK n \in Reached :
          IF secmqtt_state = "KS_CONNECTED"
          THEN /\ SecSessionKeyUpdate(phase, n)
               /\ sk_counter' = 0
               /\ pc' = caller'
               /\ acktopics' = IF connected /\ connected' THEN acktopics ELSE {}
               /\ UNCHANGED <<phase, retried>>
          ELSE /\ phase < MaxPhase /\ session_key < MaxKey
               /\ phase' = phase + 1
               /\ retried' = (retried \/ phase > boot)
               /\ Publish(ibe_encryption(phase + 1), n)
               /\ pc' = "wait"
               /\ acktopics' = IF ~ connected' THEN {}
                               ELSE IF connected THEN acktopics \cup {phase + 1}
                               ELSE {phase + 1}
               /\ UNCHANGED <<session_key, sk_counter>>
  BY DEF SecConnect
<1>3. CASE secmqtt_state = "KS_CONNECTED"
  <2>1. phase # 0
    BY <1>3, AllVerified
  <2>2. SecSessionKeyUpdate(phase, n)
    BY <1>2, <1>3
  <2>3. /\ session_key' = session_key + 1 /\ session_key' \in 1 .. MaxKey
        /\ queue' \in [KS -> Seq(Messages)] /\ connected' \in BOOLEAN
        /\ faults' \in 0 .. MaxFaults
        /\ \A i \in KS : \/ queue'[i] = queue[i]
                         \/ queue'[i] = Append(queue[i], Sk(phase, session_key'))
    BY <2>1, <2>2, SendSk
  <2>4. /\ sk_counter' = 0 /\ pc' \in {"loop", "recon"}
        /\ acktopics' \subseteq acktopics /\ UNCHANGED <<phase, retried>>
    BY <1>1, <1>2, <1>3
  <2>5. QED BY <1>1, <1>3, <2>3, <2>4
<1>4. CASE secmqtt_state # "KS_CONNECTED"
  <2>1. phase' = phase + 1 /\ phase' \in 1 .. MaxPhase
    BY <1>2, <1>4, Counts DEF TypeOK
  <2>2. Publish(ibe_encryption(phase'), n) /\ ibe_encryption(phase') \in Messages
    BY <1>2, <1>4, <2>1, MessageTypes
  <2>3. /\ queue' \in [KS -> Seq(Messages)] /\ connected' \in BOOLEAN
        /\ faults' \in 0 .. MaxFaults
        /\ \A i \in KS : \/ queue'[i] = queue[i]
                         \/ queue'[i] = Append(queue[i], ibe_encryption(phase'))
    BY <2>2, PublishFacts
  <2>4. /\ retried' = (retried \/ phase > boot) /\ pc' = "wait"
        /\ acktopics' \subseteq acktopics \cup {phase'}
        /\ UNCHANGED <<session_key, sk_counter>>
    BY <1>2, <1>4
  <2>5. QED BY <1>1, <1>4, <2>1, <2>3, <2>4
<1>5. QED BY <1>3, <1>4

\* What SecConnect does when all KeyStores acknowledged.
LEMMA SecConnectDoneFacts ==
    ASSUME TypeOK, Handshake, SecConnectDone
    PROVE  /\ pc = "wait" /\ secmqtt_state = "CONNECT_GOOD_NONCE"
           /\ secmqtt_state' = "KS_CONNECTED" /\ sk_counter' = 0 /\ pc' = caller
           /\ session_key' = session_key + 1 /\ session_key' \in 1 .. MaxKey
           /\ queue' \in [KS -> Seq(Messages)] /\ connected' \in BOOLEAN
           /\ faults' \in 0 .. MaxFaults
           /\ \A i \in KS : \/ queue'[i] = queue[i]
                            \/ queue'[i] = Append(queue[i], Sk(phase, session_key'))
           /\ acktopics' \subseteq acktopics
           /\ inbox' = inbox \/ inbox' = <<>>
           /\ UNCHANGED <<recon, caller, phase, boot, verified, checked, retried,
                          published, broker, ksVars>>
<1>1. /\ pc = "wait" /\ secmqtt_state = "CONNECT_GOOD_NONCE"
      /\ secmqtt_state' = "KS_CONNECTED" /\ sk_counter' = 0 /\ pc' = caller
      /\ UNCHANGED <<recon, caller, phase, boot, verified, checked, retried,
                     published, broker, ksVars>>
  BY DEF SecConnectDone
<1>2. CASE connected
  <2>1. PICK n \in Reached :
                /\ SecSessionKeyUpdate(phase, n)
                /\ acktopics' = IF connected' THEN acktopics ELSE {}
                /\ inbox' = IF connected' THEN inbox ELSE <<>>
    BY <1>2 DEF SecConnectDone
  <2>2. phase # 0
    BY <1>1, AllVerified
  <2>3. /\ session_key' = session_key + 1 /\ session_key' \in 1 .. MaxKey
        /\ queue' \in [KS -> Seq(Messages)] /\ connected' \in BOOLEAN
        /\ faults' \in 0 .. MaxFaults
        /\ \A i \in KS : \/ queue'[i] = queue[i]
                         \/ queue'[i] = Append(queue[i], Sk(phase, session_key'))
    BY <2>1, <2>2, SendSk
  <2>4. QED BY <1>1, <2>1, <2>3
<1>3. CASE ~ connected
  <2>1. /\ session_key < MaxKey /\ session_key' = session_key + 1
        /\ UNCHANGED <<connected, queue, acktopics, inbox, faults>>
    BY <1>3 DEF SecConnectDone
  <2>2. session_key' \in 1 .. MaxKey /\ connected' \in BOOLEAN
        /\ queue' \in [KS -> Seq(Messages)] /\ faults' \in 0 .. MaxFaults
    BY <2>1, Counts DEF TypeOK
  <2>3. QED BY <1>1, <2>1, <2>2
<1>4. QED BY <1>2, <1>3

\* What SecPublish does: a message more under the key, or a new key.
LEMMA SecPublishFacts ==
    ASSUME TypeOK, Handshake, SecPublish
    PROVE  /\ pc = "loop" /\ secmqtt_state = "KS_CONNECTED"
           /\ pc' \in {"loop", "recon"}
           /\ \/ /\ session_key' = session_key + 1 /\ session_key' \in 1 .. MaxKey
                 /\ sk_counter' = 1
                 /\ \A i \in KS :
                        \/ queue'[i] = queue[i]
                        \/ queue'[i] = Append(queue[i], Sk(phase, session_key'))
              \/ /\ session_key' = session_key /\ queue' = queue
                 /\ sk_counter' = sk_counter + 1 /\ sk_counter < MAX_SK_USAGE
           /\ published' = [published EXCEPT ![session_key'] = @ + 1]
           /\ queue' \in [KS -> Seq(Messages)] /\ connected' \in BOOLEAN
           /\ faults' \in 0 .. MaxFaults
           /\ acktopics' \subseteq acktopics
           /\ inbox' = inbox \/ inbox' = <<>>
           /\ UNCHANGED <<recon, caller, secmqtt_state, phase, boot, verified,
                          checked, retried, broker, ksVars>>
<1>1. /\ pc = "loop" /\ secmqtt_state = "KS_CONNECTED"
      /\ pc' \in {"loop", "recon"}
      /\ published' = [published EXCEPT ![session_key'] = @ + 1]
      /\ UNCHANGED <<recon, caller, secmqtt_state, phase, boot, verified,
                     checked, retried, broker, ksVars>>
  BY DEF SecPublish, TimerEnd
<1>2. CASE RenewalDue
  <2>1. PICK n \in Reached :
                /\ SecSessionKeyUpdate(phase, n)
                /\ sk_counter' = 1
                /\ acktopics' = IF connected' THEN acktopics ELSE {}
                /\ inbox' = IF connected' THEN inbox ELSE <<>>
    BY <1>2 DEF SecPublish
  <2>2. phase # 0
    BY <1>1, AllVerified
  <2>3. /\ session_key' = session_key + 1 /\ session_key' \in 1 .. MaxKey
        /\ queue' \in [KS -> Seq(Messages)] /\ connected' \in BOOLEAN
        /\ faults' \in 0 .. MaxFaults
        /\ \A i \in KS : \/ queue'[i] = queue[i]
                         \/ queue'[i] = Append(queue[i], Sk(phase, session_key'))
    BY <2>1, <2>2, SendSk
  <2>4. QED BY <1>1, <2>1, <2>3
<1>3. CASE ~ RenewalDue
  <2>1. /\ sk_counter' = sk_counter + 1
        /\ UNCHANGED <<connected, session_key, queue, acktopics, inbox, faults>>
    BY <1>3 DEF SecPublish
  <2>2. sk_counter < MAX_SK_USAGE
    BY <1>3, Counts DEF RenewalDue, TypeOK
  <2>3. connected' \in BOOLEAN
        /\ queue' \in [KS -> Seq(Messages)] /\ faults' \in 0 .. MaxFaults
    BY <2>1 DEF TypeOK
  <2>4. QED BY <1>1, <2>1, <2>2, <2>3
<1>4. QED BY <1>2, <1>3

-------------------------------------------------------------------------------
(***************************************************************************)
(* The types.                                                              *)
(***************************************************************************)
LEMMA FaultType ==
    ASSUME TypeOK, NEW kind, Fault(kind)
    PROVE  faults' \in 0 .. MaxFaults
BY Counts DEF TypeOK, Fault

\* A KeyStore has taken a message of Phase I, or of Phase II.
LEMMA KsValueFacts ==
    ASSUME TypeOK, Tables, NEW i \in KS, KsValue(i)
    PROVE  /\ queue[i] # <<>> /\ Head(queue[i]).type = "value"
           /\ queue' = [queue EXCEPT ![i] = Tail(@)]
           /\ queue' \in [KS -> Seq(Messages)]
           /\ Head(queue[i]).phase \in 1 .. MaxPhase
           /\ \/ inbox' = inbox /\ db' = db
              \/ /\ inbox' \in {inbox, Append(inbox, [ks |-> i,
                                                     phase |-> Head(queue[i]).phase])}
                 /\ db' = [db EXCEPT ![i] =
                              DB!AddsymK(db[i], Me, Head(queue[i]).phase)]
           /\ UNCHANGED <<pubVars, broker, acktopics, listening, faults>>
<1> DEFINE m == Head(queue[i])
<1>1. /\ queue[i] # <<>> /\ m.type = "value"
      /\ queue' = [queue EXCEPT ![i] = Tail(@)]
      /\ UNCHANGED <<pubVars, broker, acktopics, listening, faults>>
      /\ IF m.decrypts
         THEN /\ inbox' = IF connected /\ m.phase \in acktopics
                          THEN Append(inbox, [ks |-> i, phase |-> m.phase])
                          ELSE inbox
              /\ db' = [db EXCEPT ![i] = DB!AddsymK(@, Me, m.phase)]
         ELSE UNCHANGED <<inbox, db>>
  BY DEF KsValue
<1>2. m \in Messages /\ Tail(queue[i]) \in Seq(Messages)
  BY <1>1, TailFacts DEF TypeOK
<1>3. m.phase \in 1 .. MaxPhase
  BY <1>2, MessageTypes
<1>4. queue' \in [KS -> Seq(Messages)]
  BY <1>1, <1>2 DEF TypeOK
<1>5. QED BY <1>1, <1>3, <1>4

\* What KsCallback does on a share: it goes to a row, or is left.
LEMMA KsShareFacts ==
    ASSUME TypeOK, Tables, NEW i \in KS, KsShare(i)
    PROVE  /\ queue[i] # <<>> /\ Head(queue[i]).type = "sk"
           /\ queue' = [queue EXCEPT ![i] = Tail(@)]
           /\ queue' \in [KS -> Seq(Messages)]
           /\ \E t \in {1, -1, -2}, s \in -2 .. MaxKey :
                  /\ s # 0 /\ (t = 1 => s \in 1 .. MaxKey)
                  /\ t = 1 => s = Head(queue[i]).share
                  /\ t # 1 => DB!GetSymK(db[i], Me) # Head(queue[i]).phase
                  /\ db' = [db EXCEPT ![i] = DB!Addshare(db[i], Me, t, s)]
           /\ UNCHANGED <<pubVars, broker, acktopics, inbox, listening, faults>>
<1> DEFINE m == Head(queue[i])
<1>1. /\ queue[i] # <<>> /\ m.type = "sk"
      /\ queue' = [queue EXCEPT ![i] = Tail(@)]
      /\ UNCHANGED <<pubVars, broker, acktopics, inbox, listening, faults>>
      /\ IF DB!GetSymK(db[i], Me) = m.phase
         THEN db' = [db EXCEPT ![i] = DB!Addshare(@, Me, DataTopic, m.share)]
         ELSE \E t, s \in {-1, -2} :
                  db' = [db EXCEPT ![i] = DB!Addshare(@, Me, t, s)]
  BY DEF KsShare
<1>2. m \in Messages /\ Tail(queue[i]) \in Seq(Messages)
  BY <1>1, TailFacts DEF TypeOK
<1>3. m.share \in 1 .. MaxKey
  BY <1>1, <1>2, MessageTypes
<1>4. queue' \in [KS -> Seq(Messages)]
  BY <1>1, <1>2 DEF TypeOK
<1>5. CASE DB!GetSymK(db[i], Me) = m.phase
  <2>1. /\ m.share \in -2 .. MaxKey /\ m.share # 0
        /\ db' = [db EXCEPT ![i] = DB!Addshare(db[i], Me, 1, m.share)]
    BY <1>1, <1>3, <1>5, Counts
  <2>2. QED BY <1>1, <1>3, <1>4, <2>1
<1>6. CASE DB!GetSymK(db[i], Me) # m.phase
  <2>1. PICK t, s \in {-1, -2} : db' = [db EXCEPT ![i] = DB!Addshare(db[i], Me, t, s)]
    BY <1>1, <1>6
  <2>2. s \in -2 .. MaxKey /\ s # 0 /\ t \in {1, -1, -2} /\ t # 1
    BY Counts
  <2>3. QED BY <1>1, <1>4, <1>6, <2>1, <2>2
<1>7. QED BY <1>5, <1>6

\* Each step keeps the tables in order.
LEMMA NextTables == IInv /\ [Next]_vars => Tables' /\ db' \in [KS -> [DB!Row -> DB!LIST]]
<1> SUFFICES ASSUME TypeOK, Tables, Handshake, [Next]_vars
             PROVE  Tables' /\ db' \in [KS -> [DB!Row -> DB!LIST]]
  BY DEF IInv
<1>0. SUFFICES \E tab : /\ db' = tab /\ DOMAIN tab = KS /\ \A i \in KS : TableOK(tab[i])
                        /\ tab = [i \in KS |-> tab[i]]
  BY DEF Tables, TableOK
<1>1. ASSUME NEW i \in KS, NEW new, TableOK(new), db' = [db EXCEPT ![i] = new]
      PROVE  /\ DOMAIN db' = KS /\ \A j \in KS : TableOK(db'[j])
             /\ db' = [j \in KS |-> db'[j]]
  BY <1>1 DEF Tables, TypeOK
<1>2. ASSUME NEW i \in KS, KsValue(i)
      PROVE  UNCHANGED db \/ \E new : TableOK(new) /\ db' = [db EXCEPT ![i] = new]
  BY <1>2, KsValueFacts, KeyStored DEF Tables
<1>3. ASSUME NEW i \in KS, KsShare(i)
      PROVE  \E new : TableOK(new) /\ db' = [db EXCEPT ![i] = new]
  BY <1>3, KsShareFacts, ShareStored DEF Tables
<1>4. ASSUME NEW i \in KS, KsRestart(i)
      PROVE  \E new : TableOK(new) /\ db' = [db EXCEPT ![i] = new]
  BY <1>4, EmptyTable DEF KsRestart
<1>5. CASE UNCHANGED db
  BY <1>5 DEF Tables, TypeOK
<1>6. UNCHANGED db \/ \E i \in KS : KsValue(i) \/ KsShare(i) \/ KsRestart(i)
  BY DEF Next, Publisher, SecConnect, SecConnectHangs, SecConnectReturns,
         SecConnectDone, SecConnectTimeout, SecConnectBadNonce, SecCallback,
         SecPublish, SecDisconnect, KeyStore, Environment, LinkLost, Reboot,
         BrokerRefuses, BrokerAccepts, KsDeaf, vars, ksVars
<1>7. QED BY <1>1, <1>2, <1>3, <1>4, <1>5, <1>6

\* An acknowledgement is taken.
LEMMA SecCallbackFacts ==
    ASSUME TypeOK, SecCallback
    PROVE  /\ inbox # <<>> /\ inbox' = Tail(inbox)
           /\ inbox' \in Seq([ks : KS, phase : 1 .. MaxPhase])
           /\ Head(inbox).ks \in KS
           /\ verified' = [verified EXCEPT ![Head(inbox).ks]
                               = (Head(inbox).phase = phase)]
           /\ checked' = [checked EXCEPT ![Head(inbox).ks]
                              = IF Head(inbox).phase = phase THEN phase ELSE @]
           /\ \/ /\ Head(inbox).phase = phase
                 /\ \/ secmqtt_state' = "CONNECT_GOOD_NONCE" /\ \A i \in KS : verified'[i]
                    \/ secmqtt_state' = secmqtt_state
              \/ Head(inbox).phase # phase /\ secmqtt_state' = "CONNECT_BAD_NONCE"
           /\ pc \in {"loop", "wait"}
           /\ UNCHANGED <<recon, pc, caller, connected, phase, boot, session_key,
                          sk_counter, retried, published, broker, acktopics, queue,
                          ksVars, faults>>
<1>1. /\ inbox # <<>> /\ inbox' = Tail(inbox) /\ pc \in {"loop", "wait"}
      /\ verified' = [verified EXCEPT ![Head(inbox).ks] = (Head(inbox).phase = phase)]
      /\ checked' = [checked EXCEPT ![Head(inbox).ks]
                         = IF Head(inbox).phase = phase THEN phase ELSE @]
      /\ secmqtt_state' =
             IF ~ (Head(inbox).phase = phase) THEN "CONNECT_BAD_NONCE"
             ELSE IF \A i \in KS : verified'[i] THEN "CONNECT_GOOD_NONCE"
             ELSE secmqtt_state
      /\ UNCHANGED <<recon, pc, caller, connected, phase, boot, session_key,
                     sk_counter, retried, published, broker, acktopics, queue,
                     ksVars, faults>>
  BY DEF SecCallback, GoodNonce, secmqtt_check_all_ksn_nonce_stat
<1>2. /\ Head(inbox) \in [ks : KS, phase : 1 .. MaxPhase]
      /\ Tail(inbox) \in Seq([ks : KS, phase : 1 .. MaxPhase])
  BY <1>1, TailFacts DEF TypeOK
<1>3. Head(inbox).ks \in KS
  BY <1>2
<1>4. QED BY <1>1, <1>2, <1>3

\* Each step keeps the types.
LEMMA NextType == IInv /\ [Next]_vars => TypeOK'
<1> SUFFICES ASSUME IInv, TypeOK, Tables, Handshake, [Next]_vars PROVE TypeOK'
  BY DEF IInv
<1> USE Counts
<1>0. db' \in [KS -> [DB!Row -> DB!LIST]]
  BY NextTables
<1>1. /\ phase \in 0 .. MaxPhase /\ boot \in 0 .. phase /\ acktopics \subseteq 1 .. phase
      /\ inbox \in Seq([ks : KS, phase : 1 .. MaxPhase])
      /\ <<>> \in Seq([ks : KS, phase : 1 .. MaxPhase])
      /\ session_key \in 0 .. MaxKey /\ sk_counter \in 0 .. MAX_SK_USAGE
  BY EmptySeq DEF TypeOK
<1>2. CASE SecConnect
  <2>1. /\ queue' \in [KS -> Seq(Messages)] /\ connected' \in BOOLEAN
        /\ faults' \in 0 .. MaxFaults /\ caller' \in {"loop", "recon"}
        /\ inbox' = inbox \/ inbox' = <<>>
        /\ UNCHANGED <<recon, secmqtt_state, boot, verified, checked,
                       published, broker, ksVars>>
    BY <1>2, SecConnectFacts
  <2>2. \/ /\ session_key' \in 1 .. MaxKey /\ sk_counter' = 0
           /\ pc' \in {"loop", "recon"} /\ acktopics' \subseteq acktopics
           /\ UNCHANGED <<phase, retried>>
        \/ /\ phase' = phase + 1 /\ phase' \in 1 .. MaxPhase
           /\ retried' = (retried \/ phase > boot) /\ pc' = "wait"
           /\ acktopics' \subseteq acktopics \cup {phase'}
           /\ UNCHANGED <<session_key, sk_counter>>
    BY <1>2, SecConnectFacts
  <2>3. retried' \in BOOLEAN
    BY <2>2 DEF TypeOK
  <2>4. /\ phase' \in 0 .. MaxPhase /\ boot' \in 0 .. phase'
        /\ acktopics' \subseteq 1 .. phase'
        /\ session_key' \in 0 .. MaxKey /\ sk_counter' \in 0 .. MAX_SK_USAGE
    <3>1. \/ /\ session_key' \in 1 .. MaxKey /\ sk_counter' = 0
             /\ acktopics' \subseteq acktopics /\ phase' = phase
          \/ /\ phase' = phase + 1 /\ phase' \in 1 .. MaxPhase
             /\ acktopics' \subseteq acktopics \cup {phase'}
             /\ session_key' = session_key /\ sk_counter' = sk_counter
      BY <2>2
    <3>2. phase' \in 0 .. MaxPhase /\ phase' >= phase
          /\ session_key' \in 0 .. MaxKey /\ sk_counter' \in 0 .. MAX_SK_USAGE
      BY <1>1, <3>1
    <3>3. boot' \in 0 .. phase'
      BY <1>1, <2>1, <3>2
    <3>4. acktopics' \subseteq 1 .. phase'
      <4>1. \A g \in acktopics' : g \in acktopics \/ (g = phase' /\ phase' \in 1 .. MaxPhase)
        BY <3>1
      <4>2. \A g \in acktopics : g \in 1 .. phase'
        BY <1>1, <3>2
      <4>3. QED BY <4>1, <4>2
    <3>5. QED BY <3>2, <3>3, <3>4
  <2>5. QED BY <1>1, <2>1, <2>2, <2>3, <2>4 DEF TypeOK, ksVars
<1>3. CASE SecConnectDone
  <2>1. /\ secmqtt_state' = "KS_CONNECTED" /\ sk_counter' = 0 /\ pc' = caller
        /\ session_key' \in 1 .. MaxKey
        /\ queue' \in [KS -> Seq(Messages)] /\ connected' \in BOOLEAN
        /\ faults' \in 0 .. MaxFaults
        /\ acktopics' \subseteq acktopics
        /\ inbox' = inbox \/ inbox' = <<>>
        /\ UNCHANGED <<recon, caller, phase, boot, verified, checked, retried,
                       published, broker, ksVars>>
    BY <1>3, SecConnectDoneFacts
  <2>2. inbox' \in Seq([ks : KS, phase : 1 .. MaxPhase])
        /\ acktopics' \subseteq 1 .. phase
    BY <1>1, <2>1
  <2>3. session_key' \in 0 .. MaxKey /\ sk_counter' \in 0 .. MAX_SK_USAGE
    BY <2>1
  <2>4. /\ phase' \in 0 .. MaxPhase /\ boot' \in 0 .. phase'
        /\ acktopics' \subseteq 1 .. phase'
    BY <1>1, <2>1, <2>2
  <2>5. caller' \in {"loop", "recon"} /\ pc' \in {"loop", "recon"}
    BY <2>1 DEF TypeOK
  <2>6. QED BY <1>0, <2>1, <2>2, <2>3, <2>4, <2>5 DEF TypeOK, ksVars, States
<1>4. CASE SecPublish
  <2>1. /\ pc' \in {"loop", "recon"}
        /\ published' = [published EXCEPT ![session_key'] = @ + 1]
        /\ queue' \in [KS -> Seq(Messages)] /\ connected' \in BOOLEAN
        /\ faults' \in 0 .. MaxFaults
        /\ acktopics' \subseteq acktopics
        /\ inbox' = inbox \/ inbox' = <<>>
        /\ UNCHANGED <<recon, caller, secmqtt_state, phase, boot, verified,
                       checked, retried, broker, ksVars>>
    BY <1>4, SecPublishFacts
  <2>2. \/ session_key' \in 1 .. MaxKey /\ sk_counter' = 1
        \/ /\ session_key' = session_key
           /\ sk_counter' = sk_counter + 1 /\ sk_counter < MAX_SK_USAGE
    BY <1>4, SecPublishFacts
  <2>3. session_key' \in 0 .. MaxKey /\ sk_counter' \in 0 .. MAX_SK_USAGE
    BY <1>1, <2>2
  <2>4. published' \in [1 .. MaxKey -> Nat]
    <3>1. published \in [1 .. MaxKey -> Nat]
      BY DEF TypeOK
    <3>2. \A k \in 1 .. MaxKey : published[k] + 1 \in Nat
      BY <3>1
    <3>3. published' = [published EXCEPT ![session_key'] = published[session_key'] + 1]
      BY <2>1
    <3> DEFINE new == [published EXCEPT ![session_key'] = published[session_key'] + 1]
    <3>4. new \in [1 .. MaxKey -> Nat]
      <4> QED BY <3>1, <3>2
    <3>5. QED BY <3>3, <3>4
  <2>5. inbox' \in Seq([ks : KS, phase : 1 .. MaxPhase])
        /\ acktopics' \subseteq 1 .. phase
    BY <1>1, <2>1
  <2>6. QED BY <2>1, <2>3, <2>4, <2>5 DEF TypeOK, ksVars
<1>5. CASE SecConnectHangs \/ SecConnectTimeout \/ SecConnectBadNonce
  BY <1>5
  DEF SecConnectHangs, SecConnectTimeout, SecConnectBadNonce, TypeOK, States,
      netVars, ksVars
<1>6. CASE SecCallback
  <2>1. /\ inbox' \in Seq([ks : KS, phase : 1 .. MaxPhase])
        /\ verified' = [verified EXCEPT ![Head(inbox).ks]
                            = (Head(inbox).phase = phase)]
        /\ checked' = [checked EXCEPT ![Head(inbox).ks]
                           = IF Head(inbox).phase = phase THEN phase ELSE @]
        /\ secmqtt_state' \in {"CONNECT_GOOD_NONCE", "CONNECT_BAD_NONCE",
                               secmqtt_state}
        /\ UNCHANGED <<recon, pc, caller, connected, phase, boot, session_key,
                       sk_counter, retried, published, broker, acktopics, queue,
                       ksVars, faults>>
    BY <1>6, SecCallbackFacts
  <2>2. verified' \in [KS -> BOOLEAN] /\ checked' \in [KS -> 0 .. MaxPhase]
    BY <1>1, <2>1 DEF TypeOK
  <2>3. QED BY <2>1, <2>2 DEF TypeOK, States, ksVars
<1>7. CASE SecDisconnect
  BY <1>1, <1>7 DEF SecDisconnect, TypeOK, States, ksVars
<1>8. ASSUME NEW i \in KS, KsValue(i) PROVE TypeOK'
  <2>1. /\ queue' \in [KS -> Seq(Messages)]
        /\ Head(queue[i]).phase \in 1 .. MaxPhase
        /\ inbox' \in {inbox, Append(inbox, [ks |-> i,
                                            phase |-> Head(queue[i]).phase])}
        /\ UNCHANGED <<pubVars, broker, acktopics, listening, faults>>
    BY <1>8, KsValueFacts
  <2>2. [ks |-> i, phase |-> Head(queue[i]).phase] \in [ks : KS, phase : 1 .. MaxPhase]
    BY <2>1
  <2>3. inbox' \in Seq([ks : KS, phase : 1 .. MaxPhase])
    <3>1. Append(inbox, [ks |-> i, phase |-> Head(queue[i]).phase])
              \in Seq([ks : KS, phase : 1 .. MaxPhase])
      BY <1>1, <2>2, AppendFacts
    <3>2. QED BY <1>1, <2>1, <3>1
  <2>4. QED BY <1>0, <2>1, <2>3 DEF TypeOK, pubVars
<1>9. ASSUME NEW i \in KS, KsShare(i) PROVE TypeOK'
  <2>1. queue' \in [KS -> Seq(Messages)]
        /\ UNCHANGED <<pubVars, broker, acktopics, inbox, listening, faults>>
    BY <1>9, KsShareFacts
  <2>2. QED BY <1>0, <2>1 DEF TypeOK, pubVars
<1>10. CASE LinkLost \/ Reboot
  <2>1. faults' \in 0 .. MaxFaults
    BY <1>10, FaultType DEF LinkLost, Reboot
  <2>2. CASE LinkLost
    BY <1>1, <2>1, <2>2 DEF LinkLost, TypeOK, ksVars
  <2>3. CASE Reboot
    <3>1. /\ pc' = "setup" /\ caller' = "loop" /\ connected' = FALSE
          /\ secmqtt_state' = "KS_DISCONNECTED" /\ boot' = phase
          /\ verified' = [i \in KS |-> FALSE] /\ sk_counter' = 0
          /\ acktopics' = {} /\ inbox' = <<>>
          /\ UNCHANGED <<recon, phase, session_key, checked, retried, published,
                         broker, queue, listening, db>>
      BY <2>3 DEF Reboot, ksVars
    <3>2. boot' \in 0 .. phase' /\ sk_counter' \in 0 .. MAX_SK_USAGE
      BY <1>1, <3>1
    <3>3. verified' \in [KS -> BOOLEAN] /\ acktopics' \subseteq 1 .. phase'
          /\ inbox' \in Seq([ks : KS, phase : 1 .. MaxPhase])
      BY <1>1, <3>1
    <3>4. connected' \in BOOLEAN
      BY <3>1
    <3>5. QED BY <2>1, <3>1, <3>2, <3>3, <3>4 DEF TypeOK, States
  <2>4. QED BY <1>10, <2>2, <2>3
<1>11. CASE BrokerRefuses \/ BrokerAccepts
  <2>1. faults' \in 0 .. MaxFaults
    BY <1>11, FaultType DEF BrokerRefuses, BrokerAccepts, TypeOK
  <2>2. QED BY <1>11, <2>1 DEF BrokerRefuses, BrokerAccepts, TypeOK, pubVars, ksVars
<1>12. ASSUME NEW i \in KS, KsDeaf(i) \/ KsRestart(i) PROVE TypeOK'
  <2>1. faults' \in 0 .. MaxFaults
    BY <1>12, FaultType DEF KsDeaf, KsRestart
  <2>2. queue' \in [KS -> Seq(Messages)] /\ listening' \in [KS -> BOOLEAN]
    <3>1. queue \in [KS -> Seq(Messages)] /\ listening \in [KS -> BOOLEAN]
      BY DEF TypeOK
    <3>2. <<>> \in Seq(Messages)
      BY EmptySeq
    <3>3. queue' = [queue EXCEPT ![i] = <<>>]
      BY <1>12 DEF KsDeaf, KsRestart
    <3>4. \/ listening' = [listening EXCEPT ![i] = FALSE]
          \/ listening' = [listening EXCEPT ![i] = TRUE]
      BY <1>12 DEF KsDeaf, KsRestart
    <3>5. QED BY <3>1, <3>2, <3>3, <3>4
  <2>3. UNCHANGED <<pubVars, broker, acktopics, inbox>>
    BY <1>12 DEF KsDeaf, KsRestart
  <2>4. QED BY <1>0, <2>1, <2>2, <2>3 DEF TypeOK, pubVars
<1>13. CASE UNCHANGED vars
  BY <1>13 DEF TypeOK, vars, pubVars, netVars, ksVars
<1>14. QED
  BY <1>2, <1>3, <1>4, <1>5, <1>6, <1>7, <1>8, <1>9, <1>10, <1>11, <1>12, <1>13
  DEF Next, Publisher, SecConnectReturns, KeyStore, Environment

-------------------------------------------------------------------------------
(***************************************************************************)
(* The handshake, and what is encrypted under a topic key.                 *)
(***************************************************************************)
LEMMA NextHandshake == IInv /\ [Next]_vars => Handshake'
<1> SUFFICES ASSUME TypeOK, Tables, Handshake, [Next]_vars PROVE Handshake'
  BY DEF IInv
<1>1. /\ pc = "wait" => phase > boot
      /\ phase = boot => pc \in {"setup", "hung"} /\ \A i \in KS : ~ verified[i]
      /\ secmqtt_state \in {"CONNECT_GOOD_NONCE", "KS_CONNECTED"} =>
             \A i \in KS : verified[i]
      /\ phase <= boot + 1 => \A i \in KS : verified[i] => checked[i] = phase
      /\ ~ retried => phase <= boot + 1
      /\ phase \in Nat /\ boot \in Nat /\ phase >= boot
      /\ verified \in [KS -> BOOLEAN] /\ DOMAIN checked = KS
      /\ caller \in {"loop", "recon"}
  BY Counts DEF Handshake, TypeOK
<1>2. CASE SecConnect
  <2>1. /\ pc \in {"setup", "loop"}
        /\ UNCHANGED <<secmqtt_state, boot, verified, checked>>
        /\ \/ /\ secmqtt_state = "KS_CONNECTED" /\ pc' \in {"loop", "recon"}
              /\ UNCHANGED <<phase, retried>>
           \/ /\ phase' = phase + 1
              /\ retried' = (retried \/ phase > boot) /\ pc' = "wait"
    BY <1>2, SecConnectFacts
  <2>2. CASE secmqtt_state = "KS_CONNECTED" /\ pc' \in {"loop", "recon"}
             /\ UNCHANGED <<phase, retried>>
    BY <1>1, <2>1, <2>2, AllVerified DEF Handshake
  <2>3. CASE phase' = phase + 1 /\ pc' = "wait"
             /\ retried' = (retried \/ phase > boot)
    <3>1. phase' > boot' /\ phase' # boot'
      BY <1>1, <2>1, <2>3
    <3>2. phase' <= boot' + 1 => phase = boot
      BY <1>1, <2>1, <2>3
    <3>3. ~ retried' => phase' <= boot' + 1
      <4>1. ~ retried' => ~ (phase > boot)
        BY <2>3
      <4>2. ~ (phase > boot) => phase' <= boot' + 1
        BY <1>1, <2>1, <2>3
      <4>3. QED BY <4>1, <4>2
    <3>4. QED BY <1>1, <2>1, <3>1, <3>2, <3>3 DEF Handshake
  <2>4. QED BY <2>1, <2>2, <2>3
<1>3. CASE SecConnectDone
  <2>1. /\ pc = "wait" /\ secmqtt_state = "CONNECT_GOOD_NONCE" /\ pc' = caller
        /\ UNCHANGED <<phase, boot, verified, checked, retried>>
    BY <1>3 DEF SecConnectDone
  <2>2. QED BY <1>1, <2>1 DEF Handshake
<1>4. CASE SecPublish
  <2>1. /\ pc = "loop" /\ pc' \in {"loop", "recon"}
        /\ UNCHANGED <<secmqtt_state, phase, boot, verified, checked, retried>>
    BY <1>4 DEF SecPublish, TimerEnd
  <2>2. QED BY <1>1, <2>1 DEF Handshake
<1>5. CASE SecConnectHangs
  BY <1>1, <1>5 DEF SecConnectHangs, Handshake
<1>6. CASE SecConnectTimeout \/ SecConnectBadNonce
  <2>1. /\ pc = "wait" /\ pc' = caller
        /\ secmqtt_state' \in {"CONNECTION_TIMEOUT", "CONNECT_BAD_NONCE"}
        /\ UNCHANGED <<phase, boot, verified, checked, retried>>
    BY <1>6 DEF SecConnectTimeout, SecConnectBadNonce
  <2>2. QED BY <1>1, <2>1 DEF Handshake
<1>7. CASE SecCallback
  <2>1. /\ Head(inbox).ks \in KS /\ pc \in {"loop", "wait"}
        /\ verified' = [verified EXCEPT ![Head(inbox).ks]
                            = (Head(inbox).phase = phase)]
        /\ checked' = [checked EXCEPT ![Head(inbox).ks]
                           = IF Head(inbox).phase = phase THEN phase ELSE @]
        /\ \/ /\ Head(inbox).phase = phase
              /\ \/ /\ secmqtt_state' = "CONNECT_GOOD_NONCE"
                    /\ \A i \in KS : verified'[i]
                 \/ secmqtt_state' = secmqtt_state
           \/ Head(inbox).phase # phase /\ secmqtt_state' = "CONNECT_BAD_NONCE"
        /\ UNCHANGED <<pc, phase, boot, retried>>
    BY <1>7, SecCallbackFacts
  <2>2. phase # boot
    BY <1>1, <2>1
  <2>3. CASE Head(inbox).phase = phase
    <3>1. \A i \in KS : /\ verified[i] => verified'[i]
                        /\ verified'[i] => verified[i] \/ checked'[i] = phase
                        /\ checked'[i] = checked[i] \/ checked'[i] = phase
      BY <1>1, <2>1, <2>3
    <3>2. secmqtt_state' \in {"CONNECT_GOOD_NONCE", "KS_CONNECTED"} =>
              \A i \in KS : verified'[i]
      BY <1>1, <2>1, <2>3, <3>1
    <3>3. phase <= boot + 1 => \A i \in KS : verified'[i] => checked'[i] = phase
      BY <1>1, <3>1
    <3>4. QED BY <1>1, <2>1, <2>2, <3>2, <3>3 DEF Handshake
  <2>4. CASE Head(inbox).phase # phase
    <3>1. \A i \in KS : verified'[i] => verified[i]
      BY <1>1, <2>1, <2>4
    <3>2. \A i \in KS : checked'[i] = checked[i]
      BY <1>1, <2>1, <2>4
    <3>3. secmqtt_state' = "CONNECT_BAD_NONCE"
      BY <2>1, <2>4
    <3>4. QED BY <1>1, <2>1, <2>2, <3>1, <3>2, <3>3 DEF Handshake
  <2>5. QED BY <2>3, <2>4
<1>8. CASE SecDisconnect
  BY <1>1, <1>8 DEF SecDisconnect, Handshake
<1>9. CASE Reboot
  BY <1>1, <1>9 DEF Reboot, Handshake
<1>10. CASE UNCHANGED <<pc, secmqtt_state, phase, boot, verified, checked, retried>>
  BY <1>10 DEF Handshake
<1>11. QED
  <2>1. \/ SecConnect \/ SecConnectHangs \/ SecConnectDone \/ SecConnectTimeout
        \/ SecConnectBadNonce \/ SecCallback \/ SecPublish \/ SecDisconnect
        \/ Reboot
        \/ UNCHANGED <<pc, secmqtt_state, phase, boot, verified, checked, retried>>
    BY DEF Next, Publisher, SecConnectReturns, KeyStore, KsValue, KsShare,
           Environment, LinkLost, BrokerRefuses, BrokerAccepts, KsDeaf, KsRestart,
           vars, pubVars
  <2>2. QED BY <1>2, <1>3, <1>4, <1>5, <1>6, <1>7, <1>8, <1>9, <1>10, <2>1

\* Each step keeps the count of the messages under a topic key.
LEMMA NextUses == IInv /\ [Next]_vars => Uses'
<1> SUFFICES ASSUME TypeOK, Tables, Handshake, Uses, [Next]_vars PROVE Uses'
  BY DEF IInv
<1>1. /\ secmqtt_state = "KS_CONNECTED" =>
             session_key # 0 /\ published[session_key] <= sk_counter
      /\ \A k \in 1 .. MaxKey : k > session_key => published[k] = 0
      /\ \A k \in 1 .. MaxKey : published[k] <= MAX_SK_USAGE
      /\ session_key \in 0 .. MaxKey /\ sk_counter \in 0 .. MAX_SK_USAGE
      /\ published \in [1 .. MaxKey -> Nat]
  BY DEF Uses, KeyUseIsBounded, TypeOK
\* A new key is a key that has encrypted nothing.
<1>2. ASSUME session_key' = session_key + 1, session_key' \in 1 .. MaxKey
      PROVE  /\ published[session_key'] = 0
             /\ \A k \in 1 .. MaxKey : k > session_key' => published[k] = 0
  BY <1>1, <1>2, Counts
<1>3. CASE SecConnect \/ SecConnectDone
  <2>1. /\ published' = published
        /\ \/ /\ session_key' = session_key + 1 /\ session_key' \in 1 .. MaxKey
              /\ sk_counter' = 0
           \/ /\ secmqtt_state' # "KS_CONNECTED"
              /\ UNCHANGED <<session_key, sk_counter>>
    BY <1>3, SecConnectFacts, SecConnectDoneFacts
  <2>2. CASE session_key' = session_key + 1 /\ session_key' \in 1 .. MaxKey
             /\ sk_counter' = 0
    <3>1. session_key' # 0 /\ published'[session_key'] <= sk_counter'
      BY <1>2, <2>1, <2>2
    <3>2. QED BY <1>1, <1>2, <2>1, <2>2, <3>1 DEF Uses, KeyUseIsBounded
  <2>3. CASE secmqtt_state' # "KS_CONNECTED" /\ UNCHANGED <<session_key, sk_counter>>
    BY <1>1, <2>1, <2>3 DEF Uses, KeyUseIsBounded
  <2>4. QED BY <2>1, <2>2, <2>3
<1>4. CASE SecPublish
  <2>1. /\ secmqtt_state = "KS_CONNECTED" /\ UNCHANGED secmqtt_state
        /\ published' = [published EXCEPT ![session_key'] = published[session_key'] + 1]
        /\ \/ /\ session_key' = session_key + 1 /\ session_key' \in 1 .. MaxKey
              /\ sk_counter' = 1
           \/ /\ session_key' = session_key /\ sk_counter' = sk_counter + 1
              /\ sk_counter < MAX_SK_USAGE
    BY <1>4, SecPublishFacts
  <2>2. /\ session_key' \in 1 .. MaxKey /\ session_key' >= session_key
        /\ published[session_key'] + 1 <= sk_counter'
        /\ sk_counter' \in Nat /\ sk_counter' <= MAX_SK_USAGE
        /\ \A k \in 1 .. MaxKey : k > session_key' => published[k] = 0
    <3>1. CASE session_key' = session_key + 1 /\ session_key' \in 1 .. MaxKey
               /\ sk_counter' = 1
      BY <1>1, <1>2, <3>1, Counts
    <3>2. CASE session_key' = session_key /\ sk_counter' = sk_counter + 1
               /\ sk_counter < MAX_SK_USAGE
      BY <1>1, <2>1, <3>2, Counts
    <3>3. QED BY <2>1, <3>1, <3>2
  <2>3. /\ published'[session_key'] = published[session_key'] + 1
        /\ \A k \in 1 .. MaxKey : k # session_key' => published'[k] = published[k]
    BY <1>1, <2>1, <2>2
  <2>4. /\ session_key' # 0 /\ published'[session_key'] <= sk_counter'
    BY <2>2, <2>3
  <2>5. \A k \in 1 .. MaxKey : k > session_key' => published'[k] = 0
    BY <2>2, <2>3
  <2>6. \A k \in 1 .. MaxKey : published'[k] <= MAX_SK_USAGE
    <3>1. published'[session_key'] <= MAX_SK_USAGE
      BY <1>1, <2>2, <2>3, Counts
    <3>2. ASSUME NEW k \in 1 .. MaxKey, k # session_key'
          PROVE  published'[k] <= MAX_SK_USAGE
      <4>1. published'[k] = published[k]
        BY <2>3, <3>2
      <4>2. QED BY <1>1, <4>1
    <3>3. QED BY <3>1, <3>2
  <2>7. QED BY <2>4, <2>5, <2>6 DEF Uses, KeyUseIsBounded
<1>5. CASE UNCHANGED <<session_key, published>>
           /\ \/ secmqtt_state' # "KS_CONNECTED"
              \/ UNCHANGED <<secmqtt_state, sk_counter>>
  BY <1>1, <1>5 DEF Uses, KeyUseIsBounded
<1>6. SecConnect \/ SecConnectDone \/ SecPublish
      \/ (/\ UNCHANGED <<session_key, published>>
          /\ \/ secmqtt_state' # "KS_CONNECTED"
             \/ UNCHANGED <<secmqtt_state, sk_counter>>)
  <2>1. CASE SecCallback
    BY <2>1 DEF SecCallback
  <2>2. CASE SecConnectHangs \/ SecConnectTimeout \/ SecConnectBadNonce
             \/ SecDisconnect \/ Reboot
    BY <2>2 DEF SecConnectHangs, SecConnectTimeout, SecConnectBadNonce,
                SecDisconnect, Reboot
  <2>3. CASE UNCHANGED pubVars \/ LinkLost
    BY <2>3 DEF pubVars, LinkLost
  <2>4. QED
    BY <2>1, <2>2, <2>3
    DEF Next, Publisher, SecConnectReturns, KeyStore, KsValue, KsShare,
        Environment, BrokerRefuses, BrokerAccepts, KsDeaf, KsRestart, vars
<1>7. QED BY <1>3, <1>4, <1>5, <1>6

-------------------------------------------------------------------------------
(***************************************************************************)
(* What a step is for one KeyStore: nothing, a message sent to it, one it  *)
(* has taken, or a break of its connection.                                *)
(***************************************************************************)
Quiet(i) == queue'[i] = queue[i] /\ db'[i] = db[i] /\ Seen(i)' \subseteq Seen(i)

KeySent(i) ==
    /\ db'[i] = db[i] /\ Seen(i)' \subseteq Seen(i)
    /\ phase' = phase + 1
    /\ ~ retried' => phase = boot
    /\ \E m \in Messages : /\ m.type = "value" /\ m.phase = phase'
                           /\ queue'[i] = Append(queue[i], m)

ShareSent(i) ==
    /\ db'[i] = db[i] /\ Seen(i)' \subseteq Seen(i)
    /\ secmqtt_state \in {"CONNECT_GOOD_NONCE", "KS_CONNECTED"}
    /\ session_key' = session_key + 1
    /\ Sk(phase, session_key') \in Messages
    /\ queue'[i] = Append(queue[i], Sk(phase, session_key'))

KeyTaken(i) ==
    /\ queue[i] # <<>> /\ Head(queue[i]).type = "value"
    /\ Head(queue[i]).phase \in 1 .. MaxPhase
    /\ queue'[i] = Tail(queue[i])
    /\ \/ db'[i] = db[i] /\ Seen(i)' \subseteq Seen(i)
       \/ /\ db'[i] = DB!AddsymK(db[i], Me, Head(queue[i]).phase)
          /\ Seen(i)' \subseteq Seen(i) \cup {Head(queue[i]).phase}

ShareTaken(i) ==
    /\ queue[i] # <<>> /\ Head(queue[i]).type = "sk"
    /\ queue'[i] = Tail(queue[i])
    /\ Seen(i)' \subseteq Seen(i)
    /\ \E t \in {1, -1, -2}, s \in -2 .. MaxKey :
           /\ s # 0 /\ (t = 1 => s \in 1 .. MaxKey)
           /\ t = 1 => s = Head(queue[i]).share
           /\ t # 1 => DB!GetSymK(db[i], Me) # Head(queue[i]).phase
           /\ db'[i] = DB!Addshare(db[i], Me, t, s)

Broken(i) ==
    /\ queue'[i] = <<>> /\ db'[i] \in {db[i], DB!Initdb}
    /\ Seen(i)' \subseteq Seen(i)

\* A KeyStore that acknowledges nothing new makes nothing seen.
LEMMA SeenKept ==
    ASSUME TypeOK, NEW i \in KS, checked'[i] = checked[i],
           inbox' = inbox \/ inbox' = <<>>
    PROVE  Seen(i)' \subseteq Seen(i)
<1>1. CASE inbox' = inbox
  BY <1>1 DEF Seen
<1>2. CASE inbox' = <<>>
  <2>1. Len(inbox') = 0
    BY <1>2
  <2>2. ~ \E p \in 1 .. Len(inbox') : TRUE
    BY <2>1
  <2>3. QED BY <2>2 DEF Seen
<1>3. QED BY <1>1, <1>2

\* What SecCallback counts was among the acknowledgements.
LEMMA SeenCounted ==
    ASSUME TypeOK, NEW i \in KS, SecCallback
    PROVE  Seen(i)' \subseteq Seen(i)
<1> DEFINE Acks == [ks : KS, phase : 1 .. MaxPhase]
<1>1. /\ inbox # <<>> /\ inbox' = Tail(inbox) /\ inbox \in Seq(Acks)
      /\ \/ checked'[i] = checked[i]
         \/ checked'[i] = Head(inbox).phase /\ Head(inbox).ks = i
  <2>1. /\ checked' = [checked EXCEPT ![Head(inbox).ks]
                           = IF Head(inbox).phase = phase THEN phase ELSE @]
        /\ inbox # <<>> /\ inbox' = Tail(inbox)
    BY SecCallbackFacts
  <2>2. checked \in [KS -> 0 .. MaxPhase] /\ inbox \in Seq(Acks)
    BY DEF TypeOK
  <2>3. QED BY <2>1, <2>2
<1>2. /\ Head(inbox) = inbox[1] /\ Len(inbox) \in Nat \ {0}
      /\ Len(Tail(inbox)) = Len(inbox) - 1
      /\ \A n \in 1 .. Len(inbox) - 1 : Tail(inbox)[n] = inbox[n + 1]
  <2> HIDE DEF Acks
  <2> QED BY <1>1, TailFacts
<1>3. checked'[i] \in Seen(i)
  <2>1. 1 \in 1 .. Len(inbox)
    BY <1>2
  <2>2. CASE checked'[i] = checked[i]
    BY <2>2 DEF Seen
  <2>3. CASE checked'[i] = inbox[1].phase /\ inbox[1].ks = i
    BY <2>1, <2>3 DEF Seen
  <2>4. QED BY <1>1, <1>2, <2>2, <2>3
<1>4. ASSUME NEW p \in 1 .. Len(inbox'), inbox'[p].ks = i
      PROVE  inbox'[p].phase \in Seen(i)
  <2>1. p \in 1 .. Len(inbox) - 1
    BY <1>1, <1>2
  <2>2. inbox'[p] = inbox[p + 1] /\ p + 1 \in 1 .. Len(inbox)
    BY <1>1, <1>2, <2>1
  <2>3. QED BY <1>4, <2>2 DEF Seen
<1>5. QED BY <1>3, <1>4 DEF Seen

\* An acknowledgement makes its key seen, of the KeyStore that sent it.
LEMMA SeenSent ==
    ASSUME TypeOK, NEW i \in KS, NEW j \in KS, NEW g \in 1 .. MaxPhase,
           checked' = checked, inbox' = Append(inbox, [ks |-> i, phase |-> g])
    PROVE  Seen(j)' \subseteq Seen(j) \cup {k \in {g} : j = i}
<1> DEFINE Acks == [ks : KS, phase : 1 .. MaxPhase]
           ack == [ks |-> i, phase |-> g]
<1>1. ack \in Acks /\ inbox \in Seq(Acks) /\ ack.ks = i /\ ack.phase = g
  BY DEF TypeOK
<1>2. /\ Len(inbox) \in Nat /\ Len(Append(inbox, ack)) = Len(inbox) + 1
      /\ \A n \in 1 .. Len(inbox) + 1 :
             Append(inbox, ack)[n] = IF n = Len(inbox) + 1 THEN ack ELSE inbox[n]
  <2> HIDE DEF Acks, ack
  <2> QED BY <1>1, AppendFacts
<1>3. ASSUME NEW p \in 1 .. Len(inbox'), inbox'[p].ks = j
      PROVE  inbox'[p].phase \in Seen(j) \cup {k \in {g} : j = i}
  <2>1. CASE p = Len(inbox) + 1
    <3>1. inbox'[p] = ack
      BY <1>2, <2>1
    <3>2. QED BY <1>1, <1>3, <3>1
  <2>2. CASE p # Len(inbox) + 1
    <3>1. p \in 1 .. Len(inbox) /\ inbox'[p] = inbox[p]
      BY <1>2, <2>2
    <3>2. QED BY <1>3, <3>1 DEF Seen
  <2>3. QED BY <2>1, <2>2
<1>4. checked'[j] \in Seen(j)
  BY DEF Seen
<1>5. QED BY <1>3, <1>4 DEF Seen

\* What a step is for KeyStore i: one of six things.
LEMMA Steps ==
    ASSUME TypeOK, Tables, Handshake, [Next]_vars, NEW i \in KS
    PROVE  /\ \/ Quiet(i) \/ KeySent(i) \/ ShareSent(i)
              \/ KeyTaken(i) \/ ShareTaken(i) \/ Broken(i)
           /\ phase' \in Nat /\ phase' >= phase
           /\ session_key' \in Nat /\ session_key' >= session_key
           /\ ~ retried' => ~ retried
<1> DEFINE Goal == /\ \/ Quiet(i) \/ KeySent(i) \/ ShareSent(i)
                      \/ KeyTaken(i) \/ ShareTaken(i) \/ Broken(i)
                   /\ phase' \in Nat /\ phase' >= phase
                   /\ session_key' \in Nat /\ session_key' >= session_key
                   /\ ~ retried' => ~ retried
<1> SUFFICES Goal
  OBVIOUS
<1>0. /\ phase \in Nat /\ boot \in Nat /\ phase >= boot /\ session_key \in Nat
      /\ retried \in BOOLEAN
      /\ queue \in [KS -> Seq(Messages)] /\ DOMAIN db = KS
  BY Counts DEF TypeOK
<1>1. ASSUME UNCHANGED <<phase, session_key, retried>>,
             \/ Quiet(i) \/ KeySent(i) \/ ShareSent(i)
             \/ KeyTaken(i) \/ ShareTaken(i) \/ Broken(i)
      PROVE  Goal
  BY <1>0, <1>1
\* The publisher renews the topic key, in Phase II or on the way to a message.
<1>2. ASSUME secmqtt_state \in {"CONNECT_GOOD_NONCE", "KS_CONNECTED"},
             session_key' = session_key + 1, session_key' \in 1 .. MaxKey,
             \/ queue'[i] = queue[i]
             \/ queue'[i] = Append(queue[i], Sk(phase, session_key')),
             inbox' = inbox \/ inbox' = <<>>,
             UNCHANGED <<phase, retried, checked, db>>
      PROVE  Goal
  <2>1. Seen(i)' \subseteq Seen(i)
    BY <1>2, SeenKept
  <2>2. phase \in 1 .. MaxPhase
    BY <1>0, <1>2, AllVerified DEF TypeOK
  <2>3. Sk(phase, session_key') \in Messages
    BY <1>2, <2>2, MessageTypes
  <2>4. Quiet(i) \/ ShareSent(i)
    BY <1>2, <2>1, <2>3 DEF Quiet, ShareSent
  <2>5. session_key' \in Nat /\ session_key' >= session_key
    BY <1>0, <1>2
  <2>6. QED BY <1>0, <1>2, <2>4, <2>5
<1>3. CASE SecConnect
  <2>1. /\ inbox' = inbox \/ inbox' = <<>>
        /\ UNCHANGED <<checked, db, boot>>
        /\ \/ /\ secmqtt_state = "KS_CONNECTED"
              /\ session_key' = session_key + 1 /\ session_key' \in 1 .. MaxKey
              /\ UNCHANGED <<phase, retried>>
              /\ \/ queue'[i] = queue[i]
                 \/ queue'[i] = Append(queue[i], Sk(phase, session_key'))
           \/ /\ phase' = phase + 1 /\ phase' \in 1 .. MaxPhase
              /\ retried' = (retried \/ phase > boot)
              /\ session_key' = session_key
              /\ \/ queue'[i] = queue[i]
                 \/ queue'[i] = Append(queue[i], ibe_encryption(phase'))
    BY <1>3, SecConnectFacts DEF ksVars
  <2>2. CASE /\ secmqtt_state = "KS_CONNECTED"
             /\ session_key' = session_key + 1 /\ session_key' \in 1 .. MaxKey
             /\ UNCHANGED <<phase, retried>>
             /\ \/ queue'[i] = queue[i]
                \/ queue'[i] = Append(queue[i], Sk(phase, session_key'))
    BY <1>2, <2>1, <2>2
  <2>3. CASE /\ phase' = phase + 1 /\ phase' \in 1 .. MaxPhase
             /\ retried' = (retried \/ phase > boot)
             /\ session_key' = session_key
             /\ \/ queue'[i] = queue[i]
                \/ queue'[i] = Append(queue[i], ibe_encryption(phase'))
    <3>1. Seen(i)' \subseteq Seen(i)
      BY <2>1, SeenKept
    <3>2. ibe_encryption(phase') \in Messages
      BY <2>3, MessageTypes
    <3>3. ibe_encryption(phase').type = "value" /\ ibe_encryption(phase').phase = phase'
      BY DEF ibe_encryption
    <3>4. ~ retried' => ~ retried /\ ~ (phase > boot)
      BY <2>3
    <3>5. ~ retried' => phase = boot
      BY <1>0, <3>4
    <3>6. Quiet(i) \/ KeySent(i)
      BY <2>1, <2>3, <3>1, <3>2, <3>3, <3>5 DEF Quiet, KeySent
    <3>7. phase' \in Nat /\ phase' >= phase
      BY <1>0, <2>3
    <3>8. QED BY <1>0, <2>3, <3>4, <3>6, <3>7
  <2>4. QED BY <2>1, <2>2, <2>3
<1>4. CASE SecConnectDone
  <2>1. /\ secmqtt_state = "CONNECT_GOOD_NONCE"
        /\ session_key' = session_key + 1 /\ session_key' \in 1 .. MaxKey
        /\ \/ queue'[i] = queue[i]
           \/ queue'[i] = Append(queue[i], Sk(phase, session_key'))
        /\ inbox' = inbox \/ inbox' = <<>>
        /\ UNCHANGED <<phase, retried, checked, db>>
    BY <1>4, SecConnectDoneFacts DEF ksVars
  <2>2. QED BY <1>2, <2>1
<1>5. CASE SecPublish
  <2>1. /\ secmqtt_state = "KS_CONNECTED"
        /\ inbox' = inbox \/ inbox' = <<>>
        /\ UNCHANGED <<phase, retried, checked, db>>
        /\ \/ /\ session_key' = session_key + 1 /\ session_key' \in 1 .. MaxKey
              /\ \/ queue'[i] = queue[i]
                 \/ queue'[i] = Append(queue[i], Sk(phase, session_key'))
           \/ session_key' = session_key /\ queue' = queue
    BY <1>5, SecPublishFacts DEF ksVars
  <2>2. CASE session_key' = session_key /\ queue' = queue
    BY <1>1, <2>1, <2>2, SeenKept DEF Quiet
  <2>3. QED BY <1>2, <2>1, <2>2
<1>6. CASE SecCallback
  <2>1. UNCHANGED <<phase, session_key, retried, queue, db>>
    BY <1>6 DEF SecCallback, ksVars
  <2>2. QED BY <1>1, <1>6, <2>1, SeenCounted DEF Quiet
<1>7. ASSUME NEW j \in KS, KsValue(j) PROVE Goal
  <2> DEFINE h == Head(queue[j]).phase
  <2>1. /\ queue[j] # <<>> /\ Head(queue[j]).type = "value"
        /\ queue' = [queue EXCEPT ![j] = Tail(@)] /\ h \in 1 .. MaxPhase
        /\ \/ inbox' = inbox /\ db' = db
           \/ /\ inbox' \in {inbox, Append(inbox, [ks |-> j, phase |-> h])}
              /\ db' = [db EXCEPT ![j] = DB!AddsymK(db[j], Me, h)]
        /\ UNCHANGED <<phase, session_key, retried, checked>>
    BY <1>7, KsValueFacts DEF pubVars
  <2> HIDE DEF h
  <2>2. Seen(i)' \subseteq Seen(i) \/ (i = j /\ Seen(i)' \subseteq Seen(i) \cup {h})
    <3>1. CASE inbox' = inbox
      BY <2>1, <3>1, SeenKept
    <3>2. CASE inbox' = Append(inbox, [ks |-> j, phase |-> h])
      <4>1. Seen(i)' \subseteq Seen(i) \cup {k \in {h} : i = j}
        BY <2>1, <3>2, SeenSent
      <4>2. QED BY <4>1
    <3>3. QED BY <2>1, <3>1, <3>2
  <2>3. CASE i # j
    <3>1. queue'[i] = queue[i] /\ db'[i] = db[i]
      BY <1>0, <2>1, <2>3
    <3>2. QED BY <1>1, <2>1, <2>2, <2>3, <3>1 DEF Quiet
  <2>4. CASE i = j
    <3>1. queue'[i] = Tail(queue[i])
      BY <1>0, <2>1, <2>4
    <3>2. \/ inbox' = inbox /\ db'[i] = db[i]
          \/ db'[i] = DB!AddsymK(db[i], Me, h)
      BY <1>0, <2>1, <2>4
    <3>3. inbox' = inbox => Seen(i)' \subseteq Seen(i)
      BY <2>1, SeenKept
    <3>4. KeyTaken(i)
      BY <2>1, <2>2, <2>4, <3>1, <3>2, <3>3 DEF KeyTaken, h
    <3>5. QED BY <1>1, <2>1, <3>4
  <2>5. QED BY <2>3, <2>4
<1>8. ASSUME NEW j \in KS, KsShare(j) PROVE Goal
  <2>1. /\ queue[j] # <<>> /\ Head(queue[j]).type = "sk"
        /\ queue' = [queue EXCEPT ![j] = Tail(@)]
        /\ UNCHANGED <<phase, session_key, retried, checked, inbox>>
    BY <1>8, KsShareFacts DEF pubVars
  <2>2. PICK t \in {1, -1, -2}, s \in -2 .. MaxKey :
            /\ s # 0 /\ (t = 1 => s \in 1 .. MaxKey)
            /\ t = 1 => s = Head(queue[j]).share
            /\ t # 1 => DB!GetSymK(db[j], Me) # Head(queue[j]).phase
            /\ db' = [db EXCEPT ![j] = DB!Addshare(db[j], Me, t, s)]
    BY <1>8, KsShareFacts
  <2>3. Seen(i)' \subseteq Seen(i)
    BY <2>1, SeenKept
  <2>4. CASE i # j
    <3>1. queue'[i] = queue[i] /\ db'[i] = db[i]
      BY <1>0, <2>1, <2>2, <2>4
    <3>2. QED BY <1>1, <2>1, <2>3, <3>1 DEF Quiet
  <2>5. CASE i = j
    <3>1. queue'[i] = Tail(queue[i]) /\ db'[i] = DB!Addshare(db[i], Me, t, s)
      BY <1>0, <2>1, <2>2, <2>5
    <3>2. ShareTaken(i)
      BY <2>1, <2>2, <2>3, <2>5, <3>1 DEF ShareTaken
    <3>3. QED BY <1>1, <2>1, <3>2
  <2>6. QED BY <2>4, <2>5
<1>9. ASSUME NEW j \in KS, KsDeaf(j) \/ KsRestart(j) PROVE Goal
  <2>1. /\ queue' = [queue EXCEPT ![j] = <<>>]
        /\ db' = db \/ db' = [db EXCEPT ![j] = DB!Initdb]
        /\ UNCHANGED <<phase, session_key, retried, checked, inbox>>
    BY <1>9 DEF KsDeaf, KsRestart, pubVars
  <2>2. Seen(i)' \subseteq Seen(i)
    BY <2>1, SeenKept
  <2>3. CASE i # j
    <3>1. queue'[i] = queue[i] /\ db'[i] = db[i]
      BY <1>0, <2>1, <2>3
    <3>2. QED BY <1>1, <2>1, <2>2, <3>1 DEF Quiet
  <2>4. CASE i = j
    <3>1. queue'[i] = <<>> /\ db'[i] \in {db[i], DB!Initdb}
      BY <1>0, <2>1, <2>4
    <3>2. QED BY <1>1, <2>1, <2>2, <3>1 DEF Broken
  <2>5. QED BY <2>3, <2>4
<1>10. ASSUME UNCHANGED <<phase, session_key, retried, checked, queue, db>>,
              inbox' = inbox \/ inbox' = <<>>
       PROVE  Goal
  BY <1>1, <1>10, SeenKept DEF Quiet
<1>11. CASE \/ SecConnectHangs \/ SecConnectTimeout \/ SecConnectBadNonce
            \/ SecDisconnect \/ LinkLost \/ Reboot \/ BrokerRefuses \/ BrokerAccepts
            \/ UNCHANGED vars
  <2>1. /\ UNCHANGED <<phase, session_key, retried, checked, queue, db>>
        /\ inbox' = inbox \/ inbox' = <<>>
    <3>1. CASE SecConnectHangs \/ SecConnectTimeout \/ SecConnectBadNonce
      BY <3>1 DEF SecConnectHangs, SecConnectTimeout, SecConnectBadNonce, netVars,
                  ksVars
    <3>2. CASE SecDisconnect \/ LinkLost \/ Reboot
      BY <3>2 DEF SecDisconnect, LinkLost, Reboot, ksVars
    <3>3. CASE BrokerRefuses \/ BrokerAccepts \/ UNCHANGED vars
      BY <3>3 DEF BrokerRefuses, BrokerAccepts, vars, pubVars, netVars, ksVars
    <3>4. QED BY <1>11, <3>1, <3>2, <3>3
  <2>2. QED BY <1>10, <2>1
<1>12. QED
  <2> HIDE DEF Goal
  <2>1. \/ SecConnect \/ SecConnectDone \/ SecPublish \/ SecCallback
        \/ \/ SecConnectHangs \/ SecConnectTimeout \/ SecConnectBadNonce
           \/ SecDisconnect \/ LinkLost \/ Reboot \/ BrokerRefuses \/ BrokerAccepts
           \/ UNCHANGED vars
        \/ \E j \in KS : KsValue(j) \/ KsShare(j) \/ KsDeaf(j) \/ KsRestart(j)
    BY DEF Next, Publisher, SecConnectReturns, KeyStore, Environment
  <2>2. CASE \E j \in KS : KsValue(j) \/ KsShare(j) \/ KsDeaf(j) \/ KsRestart(j)
    BY <1>7, <1>8, <1>9, <2>2
  <2>3. QED BY <1>3, <1>4, <1>5, <1>6, <1>11, <2>1, <2>2

\* What is on the way to a KeyStore, after it was sent one message more.
LEMMA QueueTypes ==
    ASSUME TypeOK, Tables, NEW i \in KS
    PROVE  /\ queue[i] \in Seq(Messages) /\ Len(queue[i]) \in Nat
           /\ \A n \in 1 .. Len(queue[i]) :
                  /\ queue[i][n].type \in {"value", "sk"}
                  /\ queue[i][n].phase \in 1 .. MaxPhase
                  /\ queue[i][n].type = "sk" => queue[i][n].share \in 1 .. MaxKey
           /\ \A k \in Seen(i) : k \in Nat
           /\ TableOK(db[i])
           /\ \A r \in Used(db[i]) : db[i][r].msymk \in 1 .. MaxPhase
<1> DEFINE Acks == [ks : KS, phase : 1 .. MaxPhase]
<1>1. queue[i] \in Seq(Messages) /\ inbox \in Seq(Acks) /\ checked[i] \in Nat
  BY Counts DEF TypeOK
<1>2. Len(queue[i]) \in Nat /\ \A n \in 1 .. Len(queue[i]) : queue[i][n] \in Messages
  BY <1>1, LenProperties, ElementOfSeq
<1>3. \A p \in 1 .. Len(inbox) : inbox[p] \in Acks
  <2> HIDE DEF Acks
  <2> QED BY <1>1, ElementOfSeq
<1>4. \A p \in 1 .. Len(inbox) : inbox[p].phase \in Nat
  BY <1>3
<1>5. \A k \in Seen(i) : k \in Nat
  BY <1>1, <1>4 DEF Seen
<1>6. TableOK(db[i])
  BY DEF Tables
<1>7. \A r \in Used(db[i]) : db[i][r].msymk \in 1 .. MaxPhase
  BY <1>6 DEF TableOK
<1>8. QED BY <1>1, <1>2, <1>5, <1>6, <1>7, MessageTypes

\* The places of the messages when one is sent.
LEMMA Sent ==
    ASSUME TypeOK, Tables, NEW i \in KS, NEW m \in Messages,
           queue'[i] = Append(queue[i], m)
    PROVE  /\ Len(queue'[i]) = Len(queue[i]) + 1
           /\ queue'[i][Len(queue[i]) + 1] = m
           /\ \A n \in 1 .. Len(queue[i]) : queue'[i][n] = queue[i][n]
           /\ \A n \in 1 .. Len(queue'[i]) :
                  n \in 1 .. Len(queue[i]) \/ n = Len(queue[i]) + 1
<1>1. queue[i] \in Seq(Messages) /\ Len(queue[i]) \in Nat
  BY QueueTypes
<1>2. /\ Len(queue'[i]) = Len(queue[i]) + 1
      /\ \A n \in 1 .. Len(queue[i]) + 1 :
             queue'[i][n] = IF n = Len(queue[i]) + 1 THEN m ELSE queue[i][n]
  BY <1>1, AppendFacts
<1>3. QED BY <1>1, <1>2

\* Their places when the first one is taken.
LEMMA Taken ==
    ASSUME TypeOK, Tables, NEW i \in KS, queue[i] # <<>>, queue'[i] = Tail(queue[i])
    PROVE  /\ Head(queue[i]) = queue[i][1] /\ 1 \in 1 .. Len(queue[i])
           /\ \A n \in 1 .. Len(queue'[i]) :
                  /\ n + 1 \in 1 .. Len(queue[i]) /\ 1 \in 1 .. n + 1
                  /\ queue'[i][n] = queue[i][n + 1]
                  /\ n + 1 # 1
                  /\ \A m \in 1 .. n :
                         /\ m + 1 \in 1 .. n + 1
                         /\ m \in 1 .. Len(queue'[i])
<1>1. queue[i] \in Seq(Messages) /\ Len(queue[i]) \in Nat
  BY QueueTypes
<1>2. /\ Head(queue[i]) = queue[i][1] /\ Len(queue[i]) \in Nat \ {0}
      /\ Len(queue'[i]) = Len(queue[i]) - 1
      /\ \A n \in 1 .. Len(queue[i]) - 1 : queue'[i][n] = queue[i][n + 1]
  BY <1>1, TailFacts
<1>3. QED BY <1>2

\* ShareStored, of the table after Addshare.
LEMMA ShareWritten ==
    ASSUME NEW tab, TableOK(tab), NEW t \in {1, -1, -2}, NEW s \in -2 .. MaxKey,
           t = 1 => s \in 1 .. MaxKey, s # 0,
           NEW new, new = DB!Addshare(tab, Me, t, s)
    PROVE  /\ \A r \in Used(new), q \in Used(tab) : new[r].msymk = tab[q].msymk
           /\ \A r \in Used(new) : \/ r \in Used(tab) /\ new[r] = tab[r]
                                   \/ new[r].htpk = t /\ new[r].shar = s
           /\ Used(tab) = {} => new = tab
           /\ \A r \in TopicRowsOf(tab) :
                  /\ r \in TopicRowsOf(new)
                  /\ new[r] = tab[r] \/ (t = 1 /\ new[r].shar = s)
<1>1. \A r \in Used(new), q \in Used(tab) : new[r].msymk = tab[q].msymk
  BY ShareStored
<1>2. \A r \in Used(new) : \/ r \in Used(tab) /\ new[r] = tab[r]
                           \/ new[r].htpk = t /\ new[r].shar = s
  BY ShareStored, SMTT(30)
<1>3. Used(tab) = {} => new = tab
  BY ShareStored
<1>4. \A r \in TopicRowsOf(tab) :
          /\ r \in TopicRowsOf(new)
          /\ new[r] = tab[r] \/ (t = 1 /\ new[r].shar = s)
  BY ShareStored, SMTT(30)
<1>5. QED BY <1>1, <1>2, <1>3, <1>4

\* What a share that is taken leaves of the table.
LEMMA ShareTakenFacts ==
    ASSUME Tables, NEW i \in KS, ShareTaken(i)
    PROVE  /\ \A r \in Used(db'[i]), q \in Used(db[i]) :
                  db'[i][r].msymk = db[i][q].msymk
           /\ Used(db[i]) = {} => db'[i] = db[i]
           /\ \E t \in {1, -1, -2} :
                  /\ t # 1 => DB!GetSymK(db[i], Me) # Head(queue[i]).phase
                  /\ \A r \in Used(db'[i]) :
                         \/ r \in Used(db[i]) /\ db'[i][r] = db[i][r]
                         \/ /\ db'[i][r].htpk = t
                            /\ t = 1 => db'[i][r].shar = Head(queue[i]).share
                  /\ \A r \in TopicRowsOf(db[i]) :
                         /\ r \in TopicRowsOf(db'[i])
                         /\ \/ db'[i][r] = db[i][r]
                            \/ db'[i][r].shar = Head(queue[i]).share
<1>1. PICK t \in {1, -1, -2}, s \in -2 .. MaxKey :
          /\ s # 0 /\ (t = 1 => s \in 1 .. MaxKey)
          /\ t = 1 => s = Head(queue[i]).share
          /\ t # 1 => DB!GetSymK(db[i], Me) # Head(queue[i]).phase
          /\ db'[i] = DB!Addshare(db[i], Me, t, s)
  BY DEF ShareTaken
<1>2. TableOK(db[i])
  BY DEF Tables
<1>3. PICK tab : tab = db[i] /\ TableOK(tab)
  BY <1>2
<1>4. PICK new : new = DB!Addshare(tab, Me, t, s)
  OBVIOUS
<1>5. /\ \A r \in Used(new), q \in Used(tab) : new[r].msymk = tab[q].msymk
      /\ \A r \in Used(new) : \/ r \in Used(tab) /\ new[r] = tab[r]
                              \/ new[r].htpk = t /\ new[r].shar = s
      /\ Used(tab) = {} => new = tab
      /\ \A r \in TopicRowsOf(tab) :
             /\ r \in TopicRowsOf(new)
             /\ new[r] = tab[r] \/ (t = 1 /\ new[r].shar = s)
  BY <1>1, <1>3, <1>4, ShareWritten
<1>6. db'[i] = new /\ db[i] = tab
  BY <1>1, <1>3, <1>4
<1>7. QED BY <1>1, <1>5, <1>6

-------------------------------------------------------------------------------
\* Each step keeps what the acknowledgements say of the keys held.
LEMMA NextKeys == IInv /\ [Next]_vars => Keys'
<1> SUFFICES ASSUME TypeOK, Tables, Keys, Handshake, [Next]_vars, NEW i \in KS
             PROVE  KeysOf(i)'
  BY DEF IInv, Keys
<1>1. /\ \A k \in Seen(i) :
             /\ k <= phase
             /\ \A r \in Used(db[i]) : db[i][r].msymk >= k
             /\ \A n \in 1 .. Len(queue[i]) :
                    queue[i][n].type = "value" => queue[i][n].phase > k
      /\ \A r \in Used(db[i]) : db[i][r].msymk <= phase
      /\ \A n \in 1 .. Len(queue[i]) : queue[i][n].type = "value" =>
             /\ queue[i][n].phase <= phase
             /\ \A m \in 1 .. n : queue[i][m].type = "value" =>
                    m = n \/ queue[i][m].phase < queue[i][n].phase
      /\ phase \in Nat
  BY Counts DEF Keys, KeysOf, TypeOK
<1>2. phase' \in Nat /\ phase' >= phase
  BY Steps
<1> USE QueueTypes
<1>3. CASE Quiet(i)
  BY <1>1, <1>2, <1>3 DEF Quiet, KeysOf
<1>4. CASE KeySent(i)
  <2>1. PICK m \in Messages : m.type = "value" /\ m.phase = phase'
                              /\ queue'[i] = Append(queue[i], m)
    BY <1>4 DEF KeySent
  <2>2. phase' = phase + 1 /\ db'[i] = db[i] /\ Seen(i)' \subseteq Seen(i)
    BY <1>4 DEF KeySent
  <2> DEFINE last == Len(queue[i]) + 1
  <2>3. /\ Len(queue'[i]) = last /\ queue'[i][last] = m /\ last \in Nat
        /\ \A n \in 1 .. Len(queue[i]) : queue'[i][n] = queue[i][n]
        /\ \A n \in 1 .. Len(queue'[i]) : n \in 1 .. Len(queue[i]) \/ n = last
    BY <2>1, Sent
  <2>4. ASSUME NEW k \in Seen(i)'
        PROVE  /\ k <= phase'
               /\ \A r \in Used(db'[i]) : db'[i][r].msymk >= k
               /\ \A n \in 1 .. Len(queue'[i]) :
                      queue'[i][n].type = "value" => queue'[i][n].phase > k
    <3>1. k \in Seen(i) /\ k <= phase
      BY <1>1, <2>2
    <3>2. k < phase'
      BY <1>1, <2>2, <3>1
    <3>3. QED BY <1>1, <2>1, <2>2, <2>3, <3>1, <3>2
  <2>5. \A r \in Used(db'[i]) : db'[i][r].msymk <= phase'
    BY <1>1, <2>2
  <2>6. ASSUME NEW n \in 1 .. Len(queue'[i]), queue'[i][n].type = "value"
        PROVE  /\ queue'[i][n].phase <= phase'
               /\ \A q \in 1 .. n : queue'[i][q].type = "value" =>
                      q = n \/ queue'[i][q].phase < queue'[i][n].phase
    <3>1. CASE n = last
      <4>1. \A q \in 1 .. n : q = n \/ q \in 1 .. Len(queue[i])
        BY <2>3, <3>1
      <4>2. \A q \in 1 .. Len(queue[i]) :
                queue'[i][q].type = "value" => queue'[i][q].phase < phase'
        BY <1>1, <2>2, <2>3, SMTT(30)
      <4>3. queue'[i][n].phase = phase'
        BY <2>1, <2>3, <3>1
      <4>4. QED BY <1>2, <4>1, <4>2, <4>3
    <3>2. CASE n \in 1 .. Len(queue[i])
      <4>1. \A q \in 1 .. n : q \in 1 .. Len(queue[i])
        BY <3>2
      <4>2. queue'[i][n] = queue[i][n] /\ queue[i][n].phase \in Nat
            /\ \A q \in 1 .. n : queue'[i][q] = queue[i][q]
        <5>1. queue'[i][n] = queue[i][n] /\ \A q \in 1 .. n : queue'[i][q] = queue[i][q]
          BY <2>3, <3>2, <4>1
        <5>2. queue[i][n].phase \in 1 .. MaxPhase
          BY <3>2
        <5>3. QED BY <5>1, <5>2, Counts
      <4>3. queue'[i][n].phase <= phase'
        BY <1>1, <1>2, <2>6, <3>2, <4>2
      <4>4. \A q \in 1 .. n : queue[i][q].type = "value" =>
                q = n \/ queue[i][q].phase < queue[i][n].phase
        BY <1>1, <2>6, <3>2, <4>2
      <4>5. QED BY <4>2, <4>3, <4>4
    <3>3. QED BY <2>3, <3>1, <3>2
  <2>7. QED BY <2>4, <2>5, <2>6 DEF KeysOf
<1>5. CASE ShareSent(i)
  <2> DEFINE m == Sk(phase, session_key')
             last == Len(queue[i]) + 1
  <2>1. m \in Messages /\ m.type = "sk" /\ queue'[i] = Append(queue[i], m)
        /\ db'[i] = db[i] /\ Seen(i)' \subseteq Seen(i)
    BY <1>5 DEF ShareSent, Sk
  <2> HIDE DEF m
  <2>2. /\ Len(queue'[i]) = last /\ queue'[i][last] = m /\ last \in Nat
        /\ \A n \in 1 .. Len(queue[i]) : queue'[i][n] = queue[i][n]
        /\ \A n \in 1 .. Len(queue'[i]) : n \in 1 .. Len(queue[i]) \/ n = last
    BY <2>1, Sent
  <2>3. \A n \in 1 .. Len(queue'[i]) : queue'[i][n].type = "value" =>
            n \in 1 .. Len(queue[i]) /\ queue'[i][n] = queue[i][n]
    BY <2>1, <2>2
  <2>4. \A n \in 1 .. Len(queue'[i]) : queue'[i][n].type = "value" =>
            /\ queue'[i][n].phase <= phase'
            /\ \A q \in 1 .. n : queue'[i][q].type = "value" =>
                   q = n \/ queue'[i][q].phase < queue'[i][n].phase
    <3>1. SUFFICES ASSUME NEW n \in 1 .. Len(queue[i]), queue[i][n].type = "value"
                   PROVE  /\ queue[i][n].phase <= phase'
                          /\ \A q \in 1 .. n : queue'[i][q].type = "value" =>
                                 q = n \/ queue'[i][q].phase < queue[i][n].phase
      BY <2>3
    <3>2. \A q \in 1 .. n : queue'[i][q] = queue[i][q]
      BY <2>2
    <3>3. QED BY <1>1, <1>2, <3>1, <3>2, SMTT(30)
  <2>5. \A k \in Seen(i)' :
            /\ k <= phase'
            /\ \A r \in Used(db'[i]) : db'[i][r].msymk >= k
            /\ \A n \in 1 .. Len(queue'[i]) :
                   queue'[i][n].type = "value" => queue'[i][n].phase > k
    BY <1>1, <1>2, <2>1, <2>3
  <2>6. \A r \in Used(db'[i]) : db'[i][r].msymk <= phase'
    BY <1>1, <1>2, <2>1
  <2>7. QED BY <2>4, <2>5, <2>6 DEF KeysOf
\* What is behind the head of the queue stays as it was.
<1>6. ASSUME queue[i] # <<>>, queue'[i] = Tail(queue[i])
      PROVE  /\ \A n \in 1 .. Len(queue'[i]) : queue'[i][n].type = "value" =>
                    /\ queue'[i][n].phase <= phase'
                    /\ \A q \in 1 .. n : queue'[i][q].type = "value" =>
                           q = n \/ queue'[i][q].phase < queue'[i][n].phase
             /\ \A k \in Seen(i), n \in 1 .. Len(queue'[i]) :
                    queue'[i][n].type = "value" => queue'[i][n].phase > k
             /\ Head(queue[i]).type = "value" =>
                    \A n \in 1 .. Len(queue'[i]) : queue'[i][n].type = "value" =>
                        queue'[i][n].phase > Head(queue[i]).phase
  <2>1. /\ Head(queue[i]) = queue[i][1] /\ 1 \in 1 .. Len(queue[i])
        /\ \A n \in 1 .. Len(queue'[i]) :
               /\ n + 1 \in 1 .. Len(queue[i]) /\ 1 \in 1 .. n + 1
               /\ queue'[i][n] = queue[i][n + 1]
               /\ n + 1 # 1
               /\ \A m \in 1 .. n : m + 1 \in 1 .. n + 1 /\ m \in 1 .. Len(queue'[i])
    BY <1>6, Taken
  <2>2. SUFFICES ASSUME NEW n \in 1 .. Len(queue'[i]), queue'[i][n].type = "value"
                 PROVE  /\ queue'[i][n].phase <= phase'
                        /\ \A q \in 1 .. n : queue'[i][q].type = "value" =>
                               q = n \/ queue'[i][q].phase < queue'[i][n].phase
                        /\ \A k \in Seen(i) : queue'[i][n].phase > k
                        /\ Head(queue[i]).type = "value" =>
                               queue'[i][n].phase > Head(queue[i]).phase
    OBVIOUS
  <2>3. /\ n + 1 \in 1 .. Len(queue[i]) /\ queue'[i][n] = queue[i][n + 1]
        /\ 1 \in 1 .. n + 1 /\ n + 1 # 1
    BY <2>1
  <2>4. queue'[i][n].phase <= phase' /\ \A k \in Seen(i) : queue'[i][n].phase > k
    BY <1>1, <1>2, <2>2, <2>3
  <2>5. ASSUME NEW q \in 1 .. n, queue'[i][q].type = "value", q # n
        PROVE  queue'[i][q].phase < queue'[i][n].phase
    <3>1. q + 1 \in 1 .. n + 1 /\ queue'[i][q] = queue[i][q + 1] /\ q + 1 # n + 1
      BY <2>1, <2>5
    <3>2. QED BY <1>1, <2>2, <2>3, <2>5, <3>1
  <2>6. Head(queue[i]).type = "value" => queue'[i][n].phase > Head(queue[i]).phase
    <3>1. queue[i][1].type = "value" => queue[i][1].phase < queue[i][n + 1].phase
      BY <1>1, <2>2, <2>3
    <3>2. queue[i][1].phase \in Nat /\ queue[i][n + 1].phase \in Nat
      BY <2>1, <2>3, Counts
    <3>3. QED BY <2>1, <2>3, <3>1, <3>2
  <2>7. QED BY <2>4, <2>5, <2>6
<1>7. CASE KeyTaken(i)
  <2> DEFINE h == Head(queue[i]).phase
  <2>1. /\ queue[i] # <<>> /\ Head(queue[i]).type = "value" /\ h \in 1 .. MaxPhase
        /\ queue'[i] = Tail(queue[i])
        /\ \/ db'[i] = db[i] /\ Seen(i)' \subseteq Seen(i)
           \/ db'[i] = DB!AddsymK(db[i], Me, h) /\ Seen(i)' \subseteq Seen(i) \cup {h}
    BY <1>7 DEF KeyTaken
  <2>2. CASE db'[i] = db[i] /\ Seen(i)' \subseteq Seen(i)
    BY <1>1, <1>2, <1>6, <2>1, <2>2 DEF KeysOf
  <2>3. CASE db'[i] = DB!AddsymK(db[i], Me, h) /\ Seen(i)' \subseteq Seen(i) \cup {h}
    <3>1. \A r \in Used(db'[i]) : db'[i][r].msymk = h
      BY <2>1, <2>3, KeyStored
    <3>2. h <= phase /\ \A k \in Seen(i) : h > k
      BY <1>1, <2>1, Taken
    <3>3. h <= phase' /\ \A k \in Seen(i) : k <= h /\ k <= phase'
      BY <1>1, <1>2, <2>1, <3>2, Counts
    <3>4. ASSUME NEW k \in Seen(i)'
          PROVE  /\ k <= phase' /\ h >= k
                 /\ \A n \in 1 .. Len(queue'[i]) :
                        queue'[i][n].type = "value" => queue'[i][n].phase > k
      <4>1. CASE k \in Seen(i)
        BY <1>6, <2>1, <3>3, <4>1, Counts
      <4>2. CASE k = h
        BY <1>6, <2>1, <3>3, <4>2, Counts
      <4>3. QED BY <2>3, <4>1, <4>2
    <3> HIDE DEF h
    <3>5. QED BY <1>6, <2>1, <3>1, <3>3, <3>4 DEF KeysOf
  <2>4. QED BY <2>1, <2>2, <2>3
<1>8. CASE ShareTaken(i)
  <2>1. /\ queue[i] # <<>> /\ queue'[i] = Tail(queue[i])
        /\ Seen(i)' \subseteq Seen(i)
    BY <1>8 DEF ShareTaken
  <2>2. /\ \A r \in Used(db'[i]), q \in Used(db[i]) :
               db'[i][r].msymk = db[i][q].msymk
        /\ Used(db[i]) = {} => Used(db'[i]) = {}
    BY <1>8, ShareTakenFacts
  <2>3. /\ \A r \in Used(db'[i]) : db'[i][r].msymk <= phase'
        /\ \A k \in Seen(i)', r \in Used(db'[i]) : db'[i][r].msymk >= k
    BY <1>1, <1>2, <2>1, <2>2
  <2>4. \A k \in Seen(i)' : k <= phase'
    BY <1>1, <1>2, <2>1
  <2>5. QED BY <1>6, <2>1, <2>3, <2>4 DEF KeysOf
<1>9. CASE Broken(i)
  <2>1. /\ queue'[i] = <<>> /\ db'[i] \in {db[i], DB!Initdb}
        /\ Seen(i)' \subseteq Seen(i)
    BY <1>9 DEF Broken
  <2>2. ~ \E n \in 1 .. Len(queue'[i]) : TRUE
    BY <2>1
  <2>3. /\ \A r \in Used(db'[i]) : db'[i][r].msymk <= phase'
        /\ \A k \in Seen(i)', r \in Used(db'[i]) : db'[i][r].msymk >= k
    BY <1>1, <1>2, <2>1, EmptyTable
  <2>4. \A k \in Seen(i)' : k <= phase'
    BY <1>1, <1>2, <2>1
  <2>5. QED BY <2>2, <2>3, <2>4 DEF KeysOf
<1>10. QED BY <1>3, <1>4, <1>5, <1>7, <1>8, <1>9, Steps

-------------------------------------------------------------------------------
\* Each step keeps the order of the topic keys.
LEMMA NextShares == IInv /\ [Next]_vars => Shares'
<1> SUFFICES ASSUME TypeOK, Tables, Shares, Handshake, [Next]_vars, NEW i \in KS
             PROVE  SharesOf(i)'
  BY DEF IInv, Shares
<1>0. /\ Len(queue[i]) \in Nat /\ TableOK(db[i])
      /\ \A n \in 1 .. Len(queue[i]) :
             /\ queue[i][n].type \in {"value", "sk"}
             /\ queue[i][n].type = "sk" => queue[i][n].share \in Nat
      /\ \A r \in TopicRowsOf(db[i]) : db[i][r].shar \in Nat
  <2>1. /\ Len(queue[i]) \in Nat /\ TableOK(db[i])
        /\ \A n \in 1 .. Len(queue[i]) :
               /\ queue[i][n].type \in {"value", "sk"}
               /\ queue[i][n].type = "sk" => queue[i][n].share \in 1 .. MaxKey
    BY QueueTypes
  <2>2. \A r \in TopicRowsOf(db[i]) : db[i][r].shar \in 1 .. MaxKey
    BY <2>1 DEF TableOK, TopicRowsOf
  <2>3. QED BY <2>1, <2>2, Counts
<1>1. /\ \A r \in TopicRowsOf(db[i]) :
             /\ db[i][r].shar <= session_key
             /\ \A n \in 1 .. Len(queue[i]) :
                    queue[i][n].type = "sk" => queue[i][n].share >= db[i][r].shar
      /\ \A n \in 1 .. Len(queue[i]) : queue[i][n].type = "sk" =>
             /\ queue[i][n].share <= session_key
             /\ \A m \in 1 .. n : queue[i][m].type = "sk" =>
                    queue[i][m].share <= queue[i][n].share
  BY DEF Shares, SharesOf
<1>2. session_key \in Nat /\ session_key' \in Nat /\ session_key' >= session_key
  BY Steps, Counts, SMTT(30) DEF TypeOK
\* The share of a row and the shares of the queue stay known.
<1>3. /\ \A r \in TopicRowsOf(db[i]) : db[i][r].shar <= session_key'
      /\ \A n \in 1 .. Len(queue[i]) :
             queue[i][n].type = "sk" => queue[i][n].share <= session_key'
  BY <1>0, <1>1, <1>2
<1>4. CASE Quiet(i)
  BY <1>1, <1>3, <1>4 DEF Quiet, SharesOf
\* A message that is sent goes to the end of the queue.
<1>5. ASSUME NEW m \in Messages, queue'[i] = Append(queue[i], m), db'[i] = db[i],
             m.type = "sk" => /\ m.share \in Nat /\ m.share <= session_key'
                              /\ m.share >= session_key
      PROVE  SharesOf(i)'
  <2> DEFINE last == Len(queue[i]) + 1
  <2>1. /\ Len(queue'[i]) = last /\ queue'[i][last] = m /\ last \in Nat
        /\ \A n \in 1 .. Len(queue[i]) : queue'[i][n] = queue[i][n]
        /\ \A n \in 1 .. Len(queue'[i]) : n \in 1 .. Len(queue[i]) \/ n = last
    BY <1>0, <1>5, Sent
  <2>2. m.type = "sk" =>
            /\ \A r \in TopicRowsOf(db[i]) : m.share >= db[i][r].shar
            /\ \A n \in 1 .. Len(queue[i]) :
                   queue[i][n].type = "sk" => queue[i][n].share <= m.share
    BY <1>0, <1>1, <1>2, <1>5
  <2>3. \A r \in TopicRowsOf(db'[i]) :
            /\ db'[i][r].shar <= session_key'
            /\ \A n \in 1 .. Len(queue'[i]) :
                   queue'[i][n].type = "sk" => queue'[i][n].share >= db'[i][r].shar
    BY <1>1, <1>3, <1>5, <2>1, <2>2
  <2>4. ASSUME NEW n \in 1 .. Len(queue'[i]), queue'[i][n].type = "sk"
        PROVE  /\ queue'[i][n].share <= session_key'
               /\ \A q \in 1 .. n : queue'[i][q].type = "sk" =>
                      queue'[i][q].share <= queue'[i][n].share
    <3>1. CASE n = last
      <4>1. \A q \in 1 .. n : q = last \/ q \in 1 .. Len(queue[i])
        BY <2>1, <3>1
      <4>2. m.type = "sk" /\ queue'[i][n] = m
        BY <2>1, <2>4, <3>1
      <4>3. m.share <= m.share /\ m.share <= session_key'
        BY <1>5, <4>2
      <4> HIDE DEF last
      <4>4. QED BY <2>1, <2>2, <4>1, <4>2, <4>3
    <3>2. CASE n \in 1 .. Len(queue[i])
      <4>1. \A q \in 1 .. n : q \in 1 .. Len(queue[i])
        BY <3>2
      <4>2. queue'[i][n] = queue[i][n] /\ \A q \in 1 .. n : queue'[i][q] = queue[i][q]
        BY <2>1, <3>2, <4>1
      <4>3. QED BY <1>1, <1>3, <2>4, <3>2, <4>2
    <3>3. QED BY <2>1, <3>1, <3>2
  <2>5. QED BY <2>3, <2>4 DEF SharesOf
<1>6. CASE KeySent(i)
  BY <1>5, <1>6 DEF KeySent
<1>7. CASE ShareSent(i)
  <2>1. /\ Sk(phase, session_key') \in Messages
        /\ queue'[i] = Append(queue[i], Sk(phase, session_key'))
        /\ db'[i] = db[i]
        /\ Sk(phase, session_key').share = session_key'
    BY <1>7 DEF ShareSent, Sk
  <2>2. session_key' <= session_key'
    BY <1>2
  <2>3. QED BY <1>2, <1>5, <2>1, <2>2
\* What is behind the head of the queue stays as it was.
<1>8. ASSUME queue[i] # <<>>, queue'[i] = Tail(queue[i])
      PROVE  /\ \A n \in 1 .. Len(queue'[i]) : queue'[i][n].type = "sk" =>
                    /\ queue'[i][n].share <= session_key'
                    /\ \A q \in 1 .. n : queue'[i][q].type = "sk" =>
                           queue'[i][q].share <= queue'[i][n].share
                    /\ \A r \in TopicRowsOf(db[i]) :
                           queue'[i][n].share >= db[i][r].shar
                    /\ Head(queue[i]).type = "sk" =>
                           queue'[i][n].share >= Head(queue[i]).share
             /\ Head(queue[i]).type = "sk" => Head(queue[i]).share <= session_key'
  <2>1. /\ Head(queue[i]) = queue[i][1] /\ 1 \in 1 .. Len(queue[i])
        /\ \A n \in 1 .. Len(queue'[i]) :
               /\ n + 1 \in 1 .. Len(queue[i]) /\ 1 \in 1 .. n + 1
               /\ queue'[i][n] = queue[i][n + 1]
               /\ \A m \in 1 .. n : m + 1 \in 1 .. n + 1 /\ m \in 1 .. Len(queue'[i])
    BY <1>8, Taken
  <2>2. ASSUME NEW n \in 1 .. Len(queue'[i]), queue'[i][n].type = "sk"
        PROVE  /\ queue'[i][n].share <= session_key'
               /\ \A q \in 1 .. n : queue'[i][q].type = "sk" =>
                      queue'[i][q].share <= queue'[i][n].share
               /\ \A r \in TopicRowsOf(db[i]) :
                      queue'[i][n].share >= db[i][r].shar
               /\ Head(queue[i]).type = "sk" =>
                      queue'[i][n].share >= Head(queue[i]).share
    <3>1. /\ n + 1 \in 1 .. Len(queue[i]) /\ queue'[i][n] = queue[i][n + 1]
          /\ 1 \in 1 .. n + 1 /\ queue[i][n + 1].type = "sk"
      BY <2>1, <2>2
    <3>2. /\ queue'[i][n].share <= session_key'
          /\ \A r \in TopicRowsOf(db[i]) : queue'[i][n].share >= db[i][r].shar
      BY <1>1, <1>3, <3>1
    <3>3. ASSUME NEW q \in 1 .. n, queue'[i][q].type = "sk"
          PROVE  queue'[i][q].share <= queue'[i][n].share
      <4>1. q + 1 \in 1 .. n + 1 /\ queue'[i][q] = queue[i][q + 1]
        BY <2>1
      <4>2. QED BY <1>1, <3>1, <3>3, <4>1
    <3>4. Head(queue[i]).type = "sk" => queue'[i][n].share >= Head(queue[i]).share
      <4>1. queue[i][1].type = "sk" => queue[i][1].share <= queue[i][n + 1].share
        BY <1>1, <3>1
      <4>2. /\ queue[i][1].type = "sk" => queue[i][1].share \in Nat
            /\ queue[i][n + 1].share \in Nat
        BY <1>0, <2>1, <3>1
      <4>3. QED BY <2>1, <3>1, <4>1, <4>2
    <3>5. QED BY <3>2, <3>3, <3>4
  <2>3. Head(queue[i]).type = "sk" => Head(queue[i]).share <= session_key'
    BY <1>3, <2>1
  <2>4. QED BY <2>2, <2>3
<1>9. CASE KeyTaken(i)
  <2>1. /\ queue[i] # <<>> /\ queue'[i] = Tail(queue[i])
        /\ Head(queue[i]).phase \in 1 .. MaxPhase
        /\ \/ db'[i] = db[i]
           \/ db'[i] = DB!AddsymK(db[i], Me, Head(queue[i]).phase)
    BY <1>9 DEF KeyTaken
  <2>2. \A r \in TopicRowsOf(db'[i]) : r \in TopicRowsOf(db[i])
                                       /\ db'[i][r].shar = db[i][r].shar
    <3>1. CASE db'[i] = db[i]
      BY <3>1
    <3>2. CASE db'[i] = DB!AddsymK(db[i], Me, Head(queue[i]).phase)
      BY <1>0, <2>1, <3>2, KeyKeepsTopic
    <3>3. QED BY <2>1, <3>1, <3>2
  <2>3. QED BY <1>3, <1>8, <2>1, <2>2 DEF SharesOf
<1>10. CASE ShareTaken(i)
  <2>1. /\ queue[i] # <<>> /\ queue'[i] = Tail(queue[i])
        /\ Head(queue[i]).type = "sk"
    BY <1>10 DEF ShareTaken
  <2>2. \A r \in TopicRowsOf(db'[i]) :
            \/ r \in TopicRowsOf(db[i]) /\ db'[i][r] = db[i][r]
            \/ db'[i][r].shar = Head(queue[i]).share
    <3>1. PICK t \in {1, -1, -2} :
              \A r \in Used(db'[i]) :
                  \/ r \in Used(db[i]) /\ db'[i][r] = db[i][r]
                  \/ /\ db'[i][r].htpk = t
                     /\ t = 1 => db'[i][r].shar = Head(queue[i]).share
      BY <1>10, ShareTakenFacts
    <3>2. QED BY <3>1, Counts DEF TopicRowsOf
  <2>3. QED BY <1>3, <1>8, <2>1, <2>2 DEF SharesOf
<1>11. CASE Broken(i)
  <2>1. queue'[i] = <<>> /\ db'[i] \in {db[i], DB!Initdb}
    BY <1>11 DEF Broken
  <2>2. ~ \E n \in 1 .. Len(queue'[i]) : TRUE
    BY <2>1
  <2>3. \A r \in TopicRowsOf(db'[i]) : db'[i][r].shar <= session_key'
    BY <1>3, <2>1, EmptyTable
  <2>4. QED BY <2>2, <2>3 DEF SharesOf
<1>12. QED BY <1>4, <1>6, <1>7, <1>9, <1>10, <1>11, Steps

-------------------------------------------------------------------------------
\* A share is sent under the key of the KeyStore that it goes to.
LEMMA ShareIsForKey ==
    ASSUME TypeOK, Tables, Keys, Handshake, NEW i \in KS, ~ retried,
           secmqtt_state \in {"CONNECT_GOOD_NONCE", "KS_CONNECTED"}
    PROVE  /\ \A n \in 1 .. Len(queue[i]) : queue[i][n].type = "sk"
           /\ \A r \in Used(db[i]) : db[i][r].msymk = phase
<1>1. phase = boot + 1 /\ phase \in Nat
  <2>1. phase > boot
    BY AllVerified
  <2>2. phase \in 0 .. MaxPhase /\ boot \in 0 .. phase
    BY DEF TypeOK
  <2>3. phase \in Nat /\ boot \in Nat
    BY <2>2, Counts
  <2>4. phase <= boot + 1
    BY DEF Handshake
  <2>5. QED BY <2>1, <2>3, <2>4
<1>2. checked[i] = phase
  BY <1>1, AllVerified
<1>3. phase \in Seen(i)
  BY <1>2 DEF Seen
<1>4. /\ \A r \in Used(db[i]) : db[i][r].msymk >= phase /\ db[i][r].msymk <= phase
      /\ \A n \in 1 .. Len(queue[i]) : queue[i][n].type = "value" =>
             queue[i][n].phase > phase /\ queue[i][n].phase <= phase
  BY <1>3 DEF Keys, KeysOf
<1>5. /\ \A n \in 1 .. Len(queue[i]) : /\ queue[i][n].type \in {"value", "sk"}
                                     /\ queue[i][n].phase \in Nat
      /\ \A r \in Used(db[i]) : db[i][r].msymk \in Nat
  BY QueueTypes, Counts
<1>6. \A n \in 1 .. Len(queue[i]) : queue[i][n].type # "value"
  BY <1>1, <1>4, <1>5
<1>7. \A r \in Used(db[i]) : db[i][r].msymk = phase
  BY <1>1, <1>4, <1>5
<1>8. QED BY <1>5, <1>6, <1>7

\* Each step keeps the phases in step.
LEMMA NextInStep == IInv /\ [Next]_vars => InStep'
<1> SUFFICES ASSUME TypeOK, Tables, Keys, InStep, Handshake, [Next]_vars,
                    ~ retried', NEW i \in KS
             PROVE  InStepOf(i)'
  BY DEF IInv, InStep
<1>0. Len(queue[i]) \in Nat /\ TableOK(db[i]) /\ ~ retried
  BY QueueTypes, Steps
<1>1. /\ \A r \in Used(db[i]) : ~ (db[i][r].htpk < 0)
      /\ \A n \in 1 .. Len(queue[i]) : queue[i][n].type = "sk" =>
             /\ \A m \in 1 .. n : queue[i][m].type = "sk"
             /\ \A r \in Used(db[i]) : db[i][r].msymk = queue[i][n].phase
  BY <1>0 DEF InStep, InStepOf, NoiseRows, Used
<1>2. ASSUME \A r \in Used(db'[i]) : ~ (db'[i][r].htpk < 0),
             \A n \in 1 .. Len(queue'[i]) : queue'[i][n].type = "sk" =>
                 /\ \A m \in 1 .. n : queue'[i][m].type = "sk"
                 /\ \A r \in Used(db'[i]) : db'[i][r].msymk = queue'[i][n].phase
      PROVE  InStepOf(i)'
  BY <1>2 DEF InStepOf, NoiseRows, Used
<1>3. CASE Quiet(i)
  BY <1>1, <1>2, <1>3 DEF Quiet
<1>4. CASE KeySent(i)
  <2>1. PICK m \in Messages : m.type = "value" /\ queue'[i] = Append(queue[i], m)
    BY <1>4 DEF KeySent
  <2>2. db'[i] = db[i]
    BY <1>4 DEF KeySent
  <2>3. /\ Len(queue'[i]) = Len(queue[i]) + 1
        /\ queue'[i][Len(queue[i]) + 1].type = "value"
        /\ \A n \in 1 .. Len(queue[i]) : queue'[i][n] = queue[i][n]
        /\ \A n \in 1 .. Len(queue'[i]) :
               n \in 1 .. Len(queue[i]) \/ n = Len(queue[i]) + 1
    BY <2>1, Sent
  <2>4. \A n \in 1 .. Len(queue'[i]) : queue'[i][n].type = "sk" =>
            /\ n \in 1 .. Len(queue[i]) /\ queue'[i][n] = queue[i][n]
            /\ \A q \in 1 .. n : q \in 1 .. Len(queue[i])
                                 /\ queue'[i][q] = queue[i][q]
    BY <1>0, <2>3
  <2>5. QED BY <1>1, <1>2, <2>2, <2>4
<1>5. CASE ShareSent(i)
  <2>1. /\ Sk(phase, session_key') \in Messages
        /\ queue'[i] = Append(queue[i], Sk(phase, session_key'))
        /\ db'[i] = db[i]
        /\ secmqtt_state \in {"CONNECT_GOOD_NONCE", "KS_CONNECTED"}
        /\ Sk(phase, session_key').type = "sk"
        /\ Sk(phase, session_key').phase = phase
    BY <1>5 DEF ShareSent, Sk
  <2>2. /\ \A n \in 1 .. Len(queue[i]) : queue[i][n].type = "sk"
        /\ \A r \in Used(db[i]) : db[i][r].msymk = phase
    BY <1>0, <2>1, ShareIsForKey
  <2>3. /\ Len(queue'[i]) = Len(queue[i]) + 1
        /\ queue'[i][Len(queue[i]) + 1] = Sk(phase, session_key')
        /\ \A n \in 1 .. Len(queue[i]) : queue'[i][n] = queue[i][n]
        /\ \A n \in 1 .. Len(queue'[i]) :
               n \in 1 .. Len(queue[i]) \/ n = Len(queue[i]) + 1
    BY <2>1, Sent
  <2>4. \A n \in 1 .. Len(queue'[i]) :
            /\ queue'[i][n].type = "sk"
            /\ \A r \in Used(db[i]) : db[i][r].msymk = queue'[i][n].phase
            /\ \A m \in 1 .. n : m \in 1 .. Len(queue'[i])
    BY <1>0, <1>1, <2>1, <2>2, <2>3
  <2>5. QED BY <1>1, <1>2, <2>1, <2>4
\* What is behind the head of the queue stays as it was.
<1>6. ASSUME queue[i] # <<>>, queue'[i] = Tail(queue[i]),
             NEW n \in 1 .. Len(queue'[i]), queue'[i][n].type = "sk"
      PROVE  /\ Head(queue[i]).type = "sk"
             /\ \A m \in 1 .. n : queue'[i][m].type = "sk"
             /\ \A r \in Used(db[i]) : db[i][r].msymk = queue'[i][n].phase
  <2>1. /\ Head(queue[i]) = queue[i][1]
        /\ n + 1 \in 1 .. Len(queue[i]) /\ 1 \in 1 .. n + 1
        /\ queue'[i][n] = queue[i][n + 1]
        /\ \A m \in 1 .. n : /\ m + 1 \in 1 .. n + 1
                             /\ queue'[i][m] = queue[i][m + 1]
    BY <1>6, Taken
  <2>2. QED BY <1>1, <1>6, <2>1
<1>7. CASE KeyTaken(i)
  <2>1. /\ queue[i] # <<>> /\ queue'[i] = Tail(queue[i])
        /\ Head(queue[i]).type = "value" /\ Head(queue[i]).phase \in 1 .. MaxPhase
        /\ \/ db'[i] = db[i]
           \/ db'[i] = DB!AddsymK(db[i], Me, Head(queue[i]).phase)
    BY <1>7 DEF KeyTaken
  <2>2. \A n \in 1 .. Len(queue'[i]) : queue'[i][n].type # "sk"
    BY <1>6, <2>1
  <2>3. \A r \in Used(db'[i]) : ~ (db'[i][r].htpk < 0)
    <3>1. CASE db'[i] = db[i]
      BY <1>1, <3>1
    <3>2. CASE db'[i] = DB!AddsymK(db[i], Me, Head(queue[i]).phase)
      <4>1. \A r \in Used(db'[i]) : \/ r \in Used(db[i])
                                       /\ db'[i][r].htpk = db[i][r].htpk
                                    \/ db'[i][r].htpk = 0
        BY <1>0, <2>1, <3>2, KeyKeepsTopic
      <4>2. QED BY <1>1, <4>1
    <3>3. QED BY <2>1, <3>1, <3>2
  <2>4. QED BY <1>2, <2>2, <2>3
<1>8. CASE ShareTaken(i)
  <2>1. /\ queue[i] # <<>> /\ queue'[i] = Tail(queue[i])
        /\ Head(queue[i]).type = "sk"
    BY <1>8 DEF ShareTaken
  <2>2. \A r \in Used(db[i]) : db[i][r].msymk = Head(queue[i]).phase
    BY <1>1, <2>1, Taken
  <2>3. /\ \A r \in Used(db'[i]), q \in Used(db[i]) :
               db'[i][r].msymk = db[i][q].msymk
        /\ Used(db[i]) = {} => db'[i] = db[i]
    BY <1>8, ShareTakenFacts
  <2>4. PICK t \in {1, -1, -2} :
            /\ t # 1 => DB!GetSymK(db[i], Me) # Head(queue[i]).phase
            /\ \A r \in Used(db'[i]) :
                   \/ r \in Used(db[i]) /\ db'[i][r] = db[i][r]
                   \/ db'[i][r].htpk = t
    BY <1>8, ShareTakenFacts
  <2>5. t = 1 \/ Used(db[i]) = {}
    BY <1>0, <2>2, <2>4, KeyFound
  <2>6. \A r \in Used(db'[i]) : ~ (db'[i][r].htpk < 0)
    <3>1. CASE Used(db[i]) = {}
      BY <2>3, <3>1
    <3>2. CASE t = 1
      BY <1>1, <2>4, <3>2
    <3>3. QED BY <2>5, <3>1, <3>2
  <2>7. \A n \in 1 .. Len(queue'[i]) : queue'[i][n].type = "sk" =>
            /\ \A m \in 1 .. n : queue'[i][m].type = "sk"
            /\ \A r \in Used(db'[i]) : db'[i][r].msymk = queue'[i][n].phase
    <3>1. CASE Used(db[i]) = {}
      BY <1>6, <2>1, <2>3, <3>1
    <3>2. CASE Used(db[i]) # {}
      BY <1>6, <2>1, <2>3, <3>2
    <3>3. QED BY <3>1, <3>2
  <2>8. QED BY <1>2, <2>6, <2>7
<1>9. CASE Broken(i)
  <2>1. queue'[i] = <<>> /\ db'[i] \in {db[i], DB!Initdb}
    BY <1>9 DEF Broken
  <2>2. ~ \E n \in 1 .. Len(queue'[i]) : TRUE
    BY <2>1
  <2>3. \A r \in Used(db'[i]) : ~ (db'[i][r].htpk < 0)
    BY <1>1, <2>1, EmptyTable
  <2>4. QED BY <1>2, <2>2, <2>3
<1>10. QED BY <1>3, <1>4, <1>5, <1>7, <1>8, <1>9, Steps

-------------------------------------------------------------------------------
\* The invariant holds when everything starts.
LEMMA InitInv == Init => IInv
<1> SUFFICES ASSUME Init PROVE IInv
  OBVIOUS
<1> USE Counts
<1>1. /\ pc = "setup" /\ recon \in RECON /\ caller = "loop"
      /\ connected = FALSE /\ broker = TRUE
      /\ secmqtt_state = "KS_DISCONNECTED" /\ phase = 0 /\ boot = 0
      /\ verified = [i \in KS |-> FALSE] /\ session_key = 0 /\ sk_counter = 0
      /\ acktopics = {} /\ inbox = <<>> /\ queue = [i \in KS |-> <<>>]
      /\ listening = [i \in KS |-> TRUE] /\ db = [i \in KS |-> DB!Initdb]
      /\ checked = [i \in KS |-> 0] /\ retried = FALSE
      /\ published = [k \in 1 .. MaxKey |-> 0] /\ faults = 0
  BY DEF Init
<1>2. DB!Initdb \in [DB!Row -> DB!LIST]
  BY EmptyTable DEF TableOK
<1>3. TypeOK
  <2>1. /\ phase \in 0 .. MaxPhase /\ boot \in 0 .. phase
        /\ session_key \in 0 .. MaxKey /\ sk_counter \in 0 .. MAX_SK_USAGE
        /\ faults \in 0 .. MaxFaults
    BY <1>1
  <2>2. /\ inbox \in Seq([ks : KS, phase : 1 .. MaxPhase])
        /\ queue \in [KS -> Seq(Messages)]
    BY <1>1, EmptySeq
  <2>3. /\ db \in [KS -> [DB!Row -> DB!LIST]]
        /\ checked \in [KS -> 0 .. MaxPhase]
        /\ published \in [1 .. MaxKey -> Nat]
        /\ verified \in [KS -> BOOLEAN] /\ listening \in [KS -> BOOLEAN]
    BY <1>1, <1>2
  <2>4. {connected, broker} \subseteq BOOLEAN
    BY <1>1
  <2>5. QED BY <1>1, <2>1, <2>2, <2>3, <2>4 DEF TypeOK, States
<1>4. Tables
  BY <1>1, EmptyTable DEF Tables
<1>5. ASSUME NEW i \in KS
      PROVE  /\ Seen(i) = {0} /\ db[i] = DB!Initdb /\ queue[i] = <<>>
             /\ ~ \E n \in 1 .. Len(queue[i]) : TRUE
  <2>1. /\ checked[i] = 0 /\ db[i] = DB!Initdb /\ queue[i] = <<>>
        /\ Len(inbox) = 0 /\ Len(queue[i]) = 0
    BY <1>1
  <2>2. (~ \E n \in 1 .. Len(queue[i]) : TRUE) /\ ~ \E n \in 1 .. Len(inbox) : TRUE
    BY <2>1
  <2>3. QED BY <2>1, <2>2 DEF Seen
<1>6. Keys
  BY <1>1, <1>5, EmptyTable DEF Keys, KeysOf
<1>7. Shares
  BY <1>5, EmptyTable DEF Shares, SharesOf
<1>8. InStep
  BY <1>5, EmptyTable DEF InStep, InStepOf, NoiseRows, Used
<1>9. Handshake
  BY <1>1 DEF Handshake
<1>10. Uses
  BY <1>1 DEF Uses, KeyUseIsBounded
<1>11. QED BY <1>3, <1>4, <1>6, <1>7, <1>8, <1>9, <1>10 DEF IInv

(* The conjuncts of IInv together are an inductive invariant of the three  *)
(* phases, of the broker and of the faults.                                *)
\* The inductive invariant of the system of publisher and KeyStores.
THEOREM Inductive == Spec => []IInv
<1>1. IInv /\ [Next]_vars => IInv'
  BY NextType, NextTables, NextKeys, NextShares, NextInStep, NextHandshake, NextUses
  DEF IInv
<1>2. QED BY InitInv, <1>1, PTL DEF Spec

(* The variables of publisher, broker and KeyStores keep their types.      *)
THEOREM TypeCorrect == Spec => []TypeOK
<1>1. IInv => TypeOK
  BY DEF IInv
<1>2. QED BY Inductive, <1>1, PTL

(* secmqtt_check_all_ksn_nonce_stat: an acknowledgement that the publisher *)
(* counted is of a master key that its KeyStore still has, or has replaced *)
(* by a later one, unless it restarted.                                    *)
THEOREM AcknowledgedKeyIsHeld == Spec => []CheckedKeyIsHeld
<1>1. ASSUME IInv, NEW i \in KS, MasterKey(i) # 0
      PROVE  MasterKey(i) >= checked[i]
  <2>1. TypeOK /\ Tables /\ Keys
    BY <1>1 DEF IInv
  <2>2. TableOK(db[i])
    BY <2>1 DEF Tables
  <2>3. PICK r \in Used(db[i]) : MasterKey(i) = db[i][r].msymk
    BY <1>1, <2>2, KeyFound DEF MasterKey
  <2>4. checked[i] \in Seen(i)
    BY DEF Seen
  <2>5. QED BY <2>1, <2>3, <2>4 DEF Keys, KeysOf
<1>2. IInv => CheckedKeyIsHeld
  BY <1>1 DEF CheckedKeyIsHeld
<1>3. QED BY Inductive, <1>2, PTL

(* Phase I and Phase II of the first handshake of a boot: the publisher is *)
(* connected with the acknowledgement of every KeyStore, and no KeyStore   *)
(* decrypts a share with another master key than that it was sent under.   *)
THEOREM PhasesKeepStep == Spec => []InStepUntilRetry
<1>1. ASSUME IInv PROVE FirstHandshakeIsComplete
  <2>1. TypeOK /\ Handshake
    BY <1>1 DEF IInv
  <2>2. QED BY <2>1, AllVerified DEF FirstHandshakeIsComplete
<1>2. ASSUME IInv PROVE NoiseOnlyAfterRetry
  BY <1>2 DEF IInv, InStep, InStepOf, NoiseOnlyAfterRetry
<1>3. IInv => InStepUntilRetry
  BY <1>1, <1>2 DEF InStepUntilRetry
<1>4. QED BY Inductive, <1>3, PTL

(* SecPublish and the ways to a new topic key: none encrypts more than     *)
(* MAX_SK_USAGE messages.                                                  *)
THEOREM KeyUse == Spec => []KeyUseIsBounded
<1>1. IInv => KeyUseIsBounded
  BY DEF IInv, Uses
<1>2. QED BY Inductive, <1>1, PTL

\* The share a KeyStore has of the topic is that of its one row.
ShareIn(tab) == IF TopicRowsOf(tab) = {} THEN 0
                ELSE tab[CHOOSE r \in TopicRowsOf(tab) : TRUE].shar

\* The share of a topic is that in its row.
LEMMA ShareInRow ==
    ASSUME NEW tab, TableOK(tab)
    PROVE  /\ TopicRowsOf(tab) = {} => ShareIn(tab) = 0
           /\ \A r \in TopicRowsOf(tab) : ShareIn(tab) = tab[r].shar
           /\ ShareIn(tab) \in Nat
<1>1. \A r, s \in TopicRowsOf(tab) : r = s
  BY DEF TableOK
<1>2. ASSUME NEW r \in TopicRowsOf(tab)
      PROVE  (CHOOSE q \in TopicRowsOf(tab) : TRUE) = r
  <2>1. (CHOOSE q \in TopicRowsOf(tab) : TRUE) \in TopicRowsOf(tab)
    OBVIOUS
  <2>2. QED BY <1>1, <2>1
<1>3. \A r \in TopicRowsOf(tab) : tab[r].shar \in 1 .. MaxKey
  BY DEF TableOK, TopicRowsOf
<1>4. \A r \in TopicRowsOf(tab) : ShareIn(tab) = tab[r].shar
  BY <1>2 DEF ShareIn
<1>5. ShareIn(tab) \in Nat
  BY <1>3, <1>4, Counts DEF ShareIn
<1>6. QED BY <1>4, <1>5 DEF ShareIn

(* Addsymk, Addshare and the queues between them: what a KeyStore has of   *)
(* the topic is never replaced by an earlier share.                        *)
THEOREM NoShareComesBack == Spec => SharesGoForward
<1>1. ASSUME IInv, [Next]_vars, NEW i \in KS, db'[i] # DB!Initdb
      PROVE  HeldShare(i)' >= HeldShare(i)
  <2>1. TypeOK /\ Tables /\ Shares /\ Handshake
    BY <1>1 DEF IInv
  <2>2. TableOK(db[i]) /\ TableOK(db'[i])
    <3>1. Tables'
      BY <1>1, NextTables
    <3>2. QED BY <2>1, <3>1 DEF Tables
  <2>3. HeldShare(i) = ShareIn(db[i]) /\ HeldShare(i)' = ShareIn(db'[i])
    BY DEF HeldShare, ShareIn, TopicRowsOf, Used
  <2>4. PICK tab : tab = db[i]
    OBVIOUS
  <2>5. PICK new : new = db'[i]
    OBVIOUS
  <2>6. /\ \A r \in TopicRowsOf(tab) : ShareIn(tab) = tab[r].shar
        /\ \A r \in TopicRowsOf(new) : ShareIn(new) = new[r].shar
        /\ TopicRowsOf(tab) = {} => ShareIn(tab) = 0
        /\ ShareIn(tab) \in Nat /\ ShareIn(new) \in Nat
    BY <2>2, <2>4, <2>5, ShareInRow
  <2>7. ASSUME \A r \in TopicRowsOf(tab) : r \in TopicRowsOf(new)
                                           /\ new[r].shar >= tab[r].shar
        PROVE  ShareIn(new) >= ShareIn(tab)
    <3>1. CASE TopicRowsOf(tab) = {}
      BY <2>6, <3>1
    <3>2. CASE TopicRowsOf(tab) # {}
      BY <2>6, <2>7, <3>2
    <3>3. QED BY <3>1, <3>2
  <2>8. CASE new = tab
    BY <2>3, <2>4, <2>5, <2>6, <2>8
  <2>9. CASE KeyTaken(i)
    <3>1. PICK k \in 1 .. MaxPhase : new = tab \/ new = DB!AddsymK(tab, Me, k)
      BY <2>4, <2>5, <2>9 DEF KeyTaken
    <3>2. CASE new = DB!AddsymK(tab, Me, k)
      <4>1. \A r \in TopicRowsOf(tab) : r \in TopicRowsOf(new)
                                        /\ new[r].shar = tab[r].shar
        BY <2>2, <2>4, <3>2, KeyKeepsTopic
      <4>2. \A r \in TopicRowsOf(tab) : new[r].shar >= tab[r].shar
        BY <2>6, <4>1
      <4>3. QED BY <2>3, <2>4, <2>5, <2>7, <4>1, <4>2
    <3>3. QED BY <2>8, <3>1, <3>2
  <2>10. CASE ShareTaken(i)
    <3>1. \A r \in TopicRowsOf(tab) :
              /\ r \in TopicRowsOf(new)
              /\ new[r] = tab[r] \/ new[r].shar = Head(queue[i]).share
      BY <2>1, <2>4, <2>5, <2>10, ShareTakenFacts
    <3>2. Head(queue[i]) = queue[i][1] /\ 1 \in 1 .. Len(queue[i])
          /\ Head(queue[i]).type = "sk"
      BY <2>1, <2>10, Taken DEF ShareTaken
    <3>3. \A r \in TopicRowsOf(tab) : Head(queue[i]).share >= tab[r].shar
      BY <2>1, <2>4, <3>2 DEF Shares, SharesOf
    <3>4. \A r \in TopicRowsOf(tab) : new[r].shar >= tab[r].shar
      BY <2>6, <3>1, <3>3
    <3>5. QED BY <2>3, <2>4, <2>5, <2>7, <3>1, <3>4
  <2>11. \/ new = tab \/ KeyTaken(i) \/ ShareTaken(i)
    <3>1. CASE Broken(i)
      BY <1>1, <2>4, <2>5, <3>1 DEF Broken
    <3>2. CASE Quiet(i) \/ KeySent(i) \/ ShareSent(i)
      BY <2>4, <2>5, <3>2 DEF Quiet, KeySent, ShareSent
    <3>3. QED BY <1>1, <2>1, <3>1, <3>2, Steps
  <2>12. QED BY <2>8, <2>9, <2>10, <2>11
<1>2. IInv /\ [Next]_vars =>
          [\A i \in KS : HeldShare(i)' >= HeldShare(i) \/ db'[i] = DB!Initdb]_vars
  BY <1>1
<1>3. QED BY Inductive, <1>2, PTL DEF Spec, SharesGoForward
===============================================================================
