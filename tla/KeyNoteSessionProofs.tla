-------------------------- MODULE KeyNoteSessionProofs --------------------------
(***************************************************************************)
(* What KeyNoteSession says of the hash table and of the queries, for any  *)
(* number of sessions, assertions, keys and buckets.                       *)
(***************************************************************************)
EXTENDS KeyNoteSession, SequenceTheorems, WellFoundedInduction, TLAPS

In(list) == {list[i] : i \in 1 .. Len(list)}

Assertions == [Bucket -> Seq(AssertionType)]
SessionType ==
    [env : Seq(Key), auths : Seq(Key), counter : 0 .. MaxAssertions,
     values : BOOLEAN, table : Assertions]

\* The assertions of a table have different ids.
Unique(table) ==
    \A b, c \in Bucket : \A i \in 1 .. Len(table[b]), j \in 1 .. Len(table[c]) :
        table[b][i].id = table[c][j].id => b = c /\ i = j

\* What is known of an assertion in bucket b whenever the session is at rest: a
\* query that fails leaves those that it had still to move as they are.
Kept(b, a) ==
    /\ a.needproc => a.sigresult = "untouched"
    /\ ~ a.needproc =>
           /\ a.auth # None /\ a.text.auth # Bad
           /\ a.text.auth # Var => a.auth = a.text.auth /\ b = keyhash[a.auth]
           /\ a.text.sig # Var => a.sig = a.text.sig
           /\ a.text.lics # Var =>
                  a.lics = IF a.text.lics = Bad THEN None ELSE a.text.lics
    /\ ~ a.text.local /\ a.text.auth # Var /\ a.text.sig # Var
       /\ a.sigresult # "untouched"
           => (a.sigresult = "true" <=> Verifies(a))

SessionOK(session) ==
    /\ session \in SessionType
    /\ Unique(session.table)
    /\ \A b \in Bucket : \A a \in In(session.table[b]) :
           a.id < session.counter /\ Kept(b, a)

\* What a query knows of an assertion in bucket b, at a stage of its own and
\* with bucket k to look at next, when the attribute has value v.
Value(field, v) == IF field = Var THEN v ELSE field
Ready(stage, k, v, b, a) ==
    /\ a.text.sig = Var => a.sigresult = "untouched"
    /\ stage = "fix" => ~ a.processed
    /\ stage # "fix" =>
           /\ a.sig = Value(a.text.sig, v)
           /\ a.lics = IF a.text.lics = Bad THEN None ELSE Value(a.text.lics, v)
           /\ a.auth = IF a.text.auth = Bad THEN None ELSE Value(a.text.auth, v)
           /\ ~ HasToMove(a) => a.auth # None /\ b = keyhash[a.auth]
           /\ b < k => ~ HasToMove(a)
    /\ stage = "evaluate" => ~ HasToMove(a)

Rest ==
    /\ sessioncounter \in 0 .. MaxSessions
    /\ Open \subseteq 0 .. sessioncounter - 1
    /\ current \in Open \union {None}
    /\ pc \in {"idle", "fix", "reposition", "evaluate"}
    /\ pc # "idle" => current \in Open
    /\ bucket \in 0 .. Buckets
    /\ sessions = [s \in Open |-> sessions[s]]

SessionsOK == \A s \in Open : SessionOK(sessions[s])

QueryOK ==
    pc # "idle" =>
        \A b \in Bucket : \A a \in In(cur.table[b]) :
            Ready(pc, bucket, Attribute(current), b, a)

IInv == Rest /\ SessionsOK /\ QueryOK

-------------------------------------------------------------------------------
(***************************************************************************)
(* Lists, and the hash table that is made of them.                         *)
(***************************************************************************)

\* A non-empty set of naturals has a least element.
LEMMA LeastNatural ==
    ASSUME NEW S \in SUBSET Nat, S # {}
    PROVE  Min(S) \in S
<1> DEFINE R == {ss \in Nat \X Nat : ss[1] < ss[2]}
<1>1. R = OpToRel(<, Nat)
  BY DEF OpToRel
<1>2. IsWellFoundedOn(R, Nat)
  BY <1>1, NatLessThanWellFounded
<1>3. PICK x \in S : \A y \in S : ~ (<<y, x>> \in R)
  <2> HIDE DEF R
  <2> QED BY <1>2, WFMin
<1>4. ASSUME NEW y \in S PROVE x <= y
  <2>1. x \in Nat /\ y \in Nat
    OBVIOUS
  <2>2. ~ (<<y, x>> \in R)
    BY <1>3
  <2>3. ~ (y < x)
    BY <2>1, <2>2
  <2>4. QED BY <2>1, <2>3
<1>5. QED BY <1>4 DEF Min

\* What RemoveAt leaves of a list.
LEMMA RemoveAtFacts ==
    ASSUME NEW S, NEW s \in Seq(S), NEW p \in 1 .. Len(s)
    PROVE  /\ RemoveAt(s, p) \in Seq(S)
           /\ Len(RemoveAt(s, p)) = Len(s) - 1
           /\ \A i \in 1 .. Len(s) - 1 :
                  RemoveAt(s, p)[i] = s[IF i < p THEN i ELSE i + 1]
<1> DEFINE front == SubSeq(s, 1, p - 1)
           back == SubSeq(s, p + 1, Len(s))
<1>1. Len(s) \in Nat /\ p \in Nat /\ p >= 1 /\ p <= Len(s)
  OBVIOUS
<1>2. /\ front \in Seq(S) /\ Len(front) = p - 1
      /\ \A i \in 1 .. p - 1 : front[i] = s[i]
  <2>1. \A i \in 1 .. p - 1 : s[i] \in S
    BY <1>1
  <2>2. /\ SubSeq(s, 1, p - 1) \in Seq(S)
        /\ Len(SubSeq(s, 1, p - 1)) = IF 1 <= p - 1 THEN (p - 1) - 1 + 1 ELSE 0
        /\ \A i \in 1 .. (p - 1) - 1 + 1 : SubSeq(s, 1, p - 1)[i] = s[1 + i - 1]
    BY <1>1, <2>1, SubSeqProperties
  <2>3. QED BY <1>1, <2>2
<1>3. /\ back \in Seq(S) /\ Len(back) = Len(s) - p
      /\ \A i \in 1 .. Len(s) - p : back[i] = s[p + i]
  <2>1. \A i \in p + 1 .. Len(s) : s[i] \in S
    BY <1>1
  <2>2. /\ SubSeq(s, p + 1, Len(s)) \in Seq(S)
        /\ Len(SubSeq(s, p + 1, Len(s))) =
               IF p + 1 <= Len(s) THEN Len(s) - (p + 1) + 1 ELSE 0
        /\ \A i \in 1 .. Len(s) - (p + 1) + 1 :
               SubSeq(s, p + 1, Len(s))[i] = s[(p + 1) + i - 1]
    BY <1>1, <2>1, SubSeqProperties
  <2>3. QED BY <1>1, <2>2
<1> HIDE DEF front, back
<1>4. /\ front \o back \in Seq(S)
      /\ Len(front \o back) = Len(s) - 1
      /\ \A i \in 1 .. Len(s) - 1 :
             (front \o back)[i] = IF i <= p - 1 THEN front[i]
                                  ELSE back[i - (p - 1)]
  <2>1. /\ front \o back \in Seq(S)
        /\ Len(front \o back) = Len(front) + Len(back)
        /\ \A i \in 1 .. Len(front) + Len(back) :
               (front \o back)[i] = IF i <= Len(front) THEN front[i]
                                    ELSE back[i - Len(front)]
    BY <1>2, <1>3, ConcatProperties
  <2>2. Len(front) = p - 1 /\ Len(front) + Len(back) = Len(s) - 1
    BY <1>1, <1>2, <1>3
  <2>3. QED BY <2>1, <2>2
<1>5. RemoveAt(s, p) = front \o back
  BY DEF RemoveAt, front, back
<1>6. ASSUME NEW i \in 1 .. Len(s) - 1
      PROVE  (front \o back)[i] = s[IF i < p THEN i ELSE i + 1]
  <2>1. CASE i < p
    BY <1>1, <1>2, <1>4, <2>1
  <2>2. CASE ~ (i < p)
    <3>1. i - (p - 1) \in 1 .. Len(s) - p /\ p + (i - (p - 1)) = i + 1
      BY <1>1, <2>2
    <3>2. (front \o back)[i] = back[i - (p - 1)]
      BY <1>1, <1>4, <2>2
    <3>3. back[i - (p - 1)] = s[i + 1]
      BY <1>3, <3>1
    <3>4. QED BY <2>2, <3>2, <3>3
  <2>3. QED BY <2>1, <2>2
<1>7. QED BY <1>4, <1>5, <1>6

\* The first assertion with an id, and the first that has to be moved.
LEMMA PlaceFacts ==
    ASSUME NEW list, Len(list) \in Nat, NEW id
    PROVE  /\ Place(list, id) \in 0 .. Len(list)
           /\ Place(list, id) # 0 => list[Place(list, id)].id = id
           /\ Place(list, id) = 0 => \A a \in In(list) : a.id # id
<1> DEFINE I == {i \in 1 .. Len(list) : list[i].id = id}
<1>1. Place(list, id) = IF I # {} THEN Min(I) ELSE 0
  BY DEF Place, SelectInSeq
<1>2. I \in SUBSET Nat
  OBVIOUS
<1>3. CASE I = {}
  BY <1>1, <1>3 DEF In
<1>4. CASE I # {}
  <2>1. Min(I) \in I
    <3> HIDE DEF I
    <3> QED BY <1>2, <1>4, LeastNatural
  <2>2. Place(list, id) \in I
    BY <1>1, <1>4, <2>1
  <2>3. QED BY <2>2
<1>5. QED BY <1>3, <1>4

Mover(list) == SelectInSeq(list, HasToMove)

\* The first assertion of a list that keynote_fix_fields has to move.
LEMMA MoverFacts ==
    ASSUME NEW list, Len(list) \in Nat
    PROVE  /\ Mover(list) \in 0 .. Len(list)
           /\ Mover(list) # 0
                  => HasToMove(list[Mover(list)])
           /\ Mover(list) = 0
                  => \A a \in In(list) : ~ HasToMove(a)
<1> DEFINE I == {i \in 1 .. Len(list) : HasToMove(list[i])}
<1>1. Mover(list) = IF I # {} THEN Min(I) ELSE 0
  BY DEF Mover, SelectInSeq
<1>2. I \in SUBSET Nat
  OBVIOUS
<1>3. CASE I = {}
  BY <1>1, <1>3 DEF In
<1>4. CASE I # {}
  <2>1. Min(I) \in I
    <3> HIDE DEF I
    <3> QED BY <1>2, <1>4, LeastNatural
  <2>2. Mover(list) \in I
    BY <1>1, <1>4, <2>1
  <2>3. QED BY <2>2
<1>5. QED BY <1>3, <1>4

\* A list of a table.
LEMMA ListFacts ==
    ASSUME NEW table \in Assertions, NEW b \in Bucket
    PROVE  /\ table[b] \in Seq(AssertionType)
           /\ Len(table[b]) \in Nat
           /\ DOMAIN table[b] = 1 .. Len(table[b])
           /\ In(table[b]) \subseteq AssertionType
<1>1. table[b] \in Seq(AssertionType)
  BY DEF Assertions
<1>2. \A i \in 1 .. Len(table[b]) : table[b][i] \in AssertionType
  BY <1>1
<1>3. QED BY <1>1, <1>2 DEF In

\* A table that has some of the assertions of another, and none with an id; and
\* one that has one more, in bucket c.
FewerThan(new, table, id) ==
    \A b \in Bucket : \A a \in In(new[b]) : a \in In(table[b]) /\ a.id # id
OneMoreThan(new, table, c, a) ==
    \A b \in Bucket : \A x \in In(new[b]) :
        x \in In(table[b]) \/ (b = c /\ x = a)

\* The removal of an assertion leaves the others, and none with its id.
LEMMA WithoutFacts ==
    ASSUME NEW table \in Assertions, Unique(table), NEW id,
           NEW new, new = Without(table, id)
    PROVE  /\ new \in Assertions
           /\ Unique(new)
           /\ FewerThan(new, table, id)
<1> DEFINE holders == {b \in Bucket : Place(table[b], id) # 0}
           c == Min(holders)
           p == Place(table[c], id)
<1>1. holders \in SUBSET Nat
  BY SessionAssumption DEF Bucket
<1>2. CASE holders = {}
  <2>1. new = table
    BY <1>2 DEF Without
  <2>2. \A b \in Bucket : Place(table[b], id) = 0
    BY <1>2
  <2>3. \A b \in Bucket : \A a \in In(table[b]) : a.id # id
    <3> TAKE b \in Bucket
    <3>1. Len(table[b]) \in Nat
      BY ListFacts
    <3>2. QED BY <2>2, <3>1, PlaceFacts
  <2>4. QED BY <2>1, <2>3 DEF FewerThan
<1>3. CASE holders # {}
  <2>1. c \in holders
    <3> HIDE DEF holders
    <3> QED BY <1>1, <1>3, LeastNatural
  <2>2. new = [table EXCEPT ![c] = RemoveAt(table[c], p)]
    BY <1>3 DEF Without
  <2> HIDE DEF c
  <2>3. c \in Bucket /\ p # 0
    BY <2>1
  <2>4. Len(table[c]) \in Nat /\ table[c] \in Seq(AssertionType)
    BY <2>3, ListFacts
  <2>5. p \in 1 .. Len(table[c]) /\ table[c][p].id = id
    <3>1. /\ Place(table[c], id) \in 0 .. Len(table[c])
          /\ Place(table[c], id) # 0 => table[c][Place(table[c], id)].id = id
      BY <2>4, PlaceFacts
    <3>2. QED BY <2>3, <2>4, <3>1
  <2> HIDE DEF p, holders
  <2>6. /\ RemoveAt(table[c], p) \in Seq(AssertionType)
        /\ Len(RemoveAt(table[c], p)) = Len(table[c]) - 1
        /\ \A i \in 1 .. Len(table[c]) - 1 :
               RemoveAt(table[c], p)[i] = table[c][IF i < p THEN i ELSE i + 1]
    BY <2>4, <2>5, RemoveAtFacts
  <2>7. new \in Assertions
    BY <2>2, <2>6 DEF Assertions
  <2>8. new[c] = RemoveAt(table[c], p) /\ \A b \in Bucket \ {c} : new[b] = table[b]
    BY <2>2, <2>3 DEF Assertions
  \* Where the assertions of the new table were in the old one.
  <2> DEFINE old(b, i) == IF b = c /\ ~ (i < p) THEN i + 1 ELSE i
  <2>9. ASSUME NEW b \in Bucket, NEW i \in 1 .. Len(new[b])
        PROVE  /\ old(b, i) \in 1 .. Len(table[b])
               /\ new[b][i] = table[b][old(b, i)]
               /\ ~ (b = c /\ old(b, i) = p)
    <3>1. CASE b = c
      <4>1. i \in 1 .. Len(table[c]) - 1 /\ i \in Nat /\ p \in Nat
        BY <2>4, <2>5, <2>6, <2>8, <3>1
      <4>2. new[c][i] = table[c][IF i < p THEN i ELSE i + 1]
        BY <2>6, <2>8, <4>1
      <4>3. (IF i < p THEN i ELSE i + 1) = old(b, i)
        BY <3>1
      <4>4. old(b, i) \in 1 .. Len(table[c]) /\ old(b, i) # p
        BY <2>4, <2>5, <3>1, <4>1
      <4>5. QED BY <3>1, <4>2, <4>3, <4>4
    <3>2. CASE b # c
      BY <2>8, <3>2
    <3>3. QED BY <3>1, <3>2
  <2>10. ASSUME NEW b \in Bucket, NEW i \in 1 .. Len(new[b]),
                NEW d \in Bucket, NEW j \in 1 .. Len(new[d]),
                new[b][i].id = new[d][j].id
         PROVE  b = d /\ i = j
    <3>1. table[b][old(b, i)].id = table[d][old(d, j)].id
      BY <2>9, <2>10
    <3>2. b = d /\ old(b, i) = old(d, j)
      <4>1. old(b, i) \in 1 .. Len(table[b]) /\ old(d, j) \in 1 .. Len(table[d])
        BY <2>9
      <4> HIDE DEF old
      <4>2. QED BY <3>1, <4>1 DEF Unique
    <3>3. i \in Nat /\ j \in Nat /\ p \in Nat
      <4>1. Len(new[b]) \in Nat /\ Len(new[d]) \in Nat
        BY <2>7, ListFacts
      <4>2. QED BY <2>4, <2>5, <4>1
    <3>4. QED BY <3>2, <3>3
  <2>11. Unique(new)
    BY <2>10 DEF Unique
  <2>12. ASSUME NEW b \in Bucket, NEW a \in In(new[b])
         PROVE  a \in In(table[b]) /\ a.id # id
    <3>1. PICK i \in 1 .. Len(new[b]) : a = new[b][i]
      BY DEF In
    <3>2. PICK k : k = old(b, i)
      OBVIOUS
    <3>3. k \in 1 .. Len(table[b]) /\ a = table[b][k] /\ ~ (b = c /\ k = p)
      BY <2>9, <3>1, <3>2
    <3>4. a \in In(table[b])
      BY <3>3 DEF In
    <3>5. a.id # id
      BY <2>3, <2>5, <3>3 DEF Unique
    <3>6. QED BY <3>4, <3>5
  <2>13. QED BY <2>7, <2>11, <2>12 DEF FewerThan
<1>4. QED BY <1>2, <1>3

\* A new assertion comes to the front of its bucket.
LEMMA AddingFacts ==
    ASSUME NEW table \in Assertions, Unique(table),
           NEW c \in Bucket, NEW a \in AssertionType,
           \A b \in Bucket : \A x \in In(table[b]) : x.id # a.id,
           NEW new, new = Adding(table, c, a)
    PROVE  /\ new \in Assertions
           /\ Unique(new)
           /\ OneMoreThan(new, table, c, a)
<1>1. table[c] \in Seq(AssertionType) /\ Len(table[c]) \in Nat
  BY ListFacts
<1>2. <<a>> \in Seq(AssertionType) /\ Len(<<a>>) = 1 /\ <<a>>[1] = a
  OBVIOUS
<1> DEFINE list == <<a>> \o table[c]
<1>3. /\ list \in Seq(AssertionType)
      /\ Len(list) = 1 + Len(table[c])
      /\ \A i \in 1 .. 1 + Len(table[c]) :
             list[i] = IF i <= 1 THEN <<a>>[i] ELSE table[c][i - 1]
  BY <1>1, <1>2, ConcatProperties
<1>4. new = [table EXCEPT ![c] = list]
  BY DEF Adding
<1> HIDE DEF list
<1>5. new \in Assertions
  BY <1>3, <1>4 DEF Assertions
<1>6. new[c] = list /\ \A b \in Bucket \ {c} : new[b] = table[b]
  BY <1>4 DEF Assertions
\* What is in the new table is what comes, or was in the old table.
<1> DEFINE old(b, i) == IF b = c THEN i - 1 ELSE i
<1>7. ASSUME NEW b \in Bucket, NEW i \in 1 .. Len(new[b])
      PROVE  /\ i \in Nat
             /\ b = c /\ i = 1 => new[b][i] = a
             /\ ~ (b = c /\ i = 1) => /\ old(b, i) \in 1 .. Len(table[b])
                                      /\ new[b][i] = table[b][old(b, i)]
  <2>1. CASE b = c
    <3>1. i \in 1 .. 1 + Len(table[c]) /\ i \in Nat
      BY <1>1, <1>3, <1>6, <2>1
    <3>2. new[b][i] = IF i <= 1 THEN <<a>>[i] ELSE table[c][i - 1]
      BY <1>3, <1>6, <2>1, <3>1
    <3>3. i # 1 => i - 1 \in 1 .. Len(table[c]) /\ ~ (i <= 1)
      BY <1>1, <3>1
    <3>4. QED BY <1>2, <2>1, <3>1, <3>2, <3>3
  <2>2. CASE b # c
    <3>1. Len(table[b]) \in Nat
      BY ListFacts
    <3>2. QED BY <1>6, <2>2, <3>1
  <2>3. QED BY <2>1, <2>2
<1>8. ASSUME NEW b \in Bucket, NEW i \in 1 .. Len(new[b]), ~ (b = c /\ i = 1)
      PROVE  new[b][i].id # a.id
  <2>1. PICK k : k = old(b, i)
    OBVIOUS
  <2>2. new[b][i] \in In(table[b])
    BY <1>7, <1>8, <2>1 DEF In
  <2>3. QED BY <2>2
<1>9. ASSUME NEW b \in Bucket, NEW i \in 1 .. Len(new[b]),
             NEW d \in Bucket, NEW j \in 1 .. Len(new[d]),
             new[b][i].id = new[d][j].id
      PROVE  b = d /\ i = j
  <2>1. CASE b = c /\ i = 1
    BY <1>7, <1>8, <1>9, <2>1
  <2>2. CASE d = c /\ j = 1
    BY <1>7, <1>8, <1>9, <2>2
  <2>3. CASE ~ (b = c /\ i = 1) /\ ~ (d = c /\ j = 1)
    <3>1. /\ old(b, i) \in 1 .. Len(table[b]) /\ old(d, j) \in 1 .. Len(table[d])
          /\ table[b][old(b, i)].id = table[d][old(d, j)].id
      BY <1>7, <1>9, <2>3
    <3>2. b = d /\ old(b, i) = old(d, j)
      <4> HIDE DEF old
      <4> QED BY <3>1 DEF Unique
    <3>3. i \in Nat /\ j \in Nat
      BY <1>7
    <3>4. QED BY <3>2, <3>3
  <2>4. QED BY <2>1, <2>2, <2>3
<1>10. Unique(new)
  BY <1>9 DEF Unique
<1>11. ASSUME NEW b \in Bucket, NEW x \in In(new[b])
       PROVE  x \in In(table[b]) \/ (b = c /\ x = a)
  <2>1. PICK i \in 1 .. Len(new[b]) : x = new[b][i]
    BY DEF In
  <2>2. PICK k : k = old(b, i)
    OBVIOUS
  <2>3. \/ b = c /\ x = a
        \/ k \in 1 .. Len(table[b]) /\ x = table[b][k]
    BY <1>7, <2>1, <2>2
  <2>4. QED BY <2>3 DEF In
<1>12. QED BY <1>5, <1>10, <1>11 DEF OneMoreThan

\* What a change f makes of the assertions of a list.
Images(f, list) == {f[a] : a \in In(list)}

\* A change f of every assertion that keeps its id.
LEMMA EachFacts ==
    ASSUME NEW table \in Assertions, Unique(table),
           NEW f \in [AssertionType -> AssertionType],
           \A a \in AssertionType : f[a].id = a.id,
           NEW new,
           new = [b \in Bucket |-> [i \in DOMAIN table[b] |-> f[table[b][i]]]]
    PROVE  /\ new \in Assertions
           /\ Unique(new)
           /\ \A b \in Bucket : In(new[b]) = Images(f, table[b])
<1>1. ASSUME NEW b \in Bucket
      PROVE  /\ new[b] \in Seq(AssertionType)
             /\ Len(new[b]) = Len(table[b])
             /\ \A i \in 1 .. Len(table[b]) :
                    /\ new[b][i] = f[table[b][i]]
                    /\ table[b][i] \in AssertionType
                    /\ table[b][i] \in In(table[b])
  <2>1. /\ table[b] \in Seq(AssertionType) /\ Len(table[b]) \in Nat
        /\ DOMAIN table[b] = 1 .. Len(table[b])
    BY ListFacts
  <2>2. new[b] = [i \in 1 .. Len(table[b]) |-> f[table[b][i]]]
    BY <2>1
  <2>3. \A i \in 1 .. Len(table[b]) :
            table[b][i] \in AssertionType /\ f[table[b][i]] \in AssertionType
    BY <2>1
  <2>4. new[b] \in Seq(AssertionType) /\ Len(new[b]) = Len(table[b])
    BY <2>1, <2>2, <2>3
  <2>5. QED BY <2>2, <2>3, <2>4 DEF In
<1>2. new \in Assertions
  BY <1>1 DEF Assertions
<1>3. ASSUME NEW b \in Bucket, NEW d \in Bucket,
             NEW i \in 1 .. Len(new[b]), NEW j \in 1 .. Len(new[d]),
             new[b][i].id = new[d][j].id
      PROVE  b = d /\ i = j
  <2>1. i \in 1 .. Len(table[b]) /\ j \in 1 .. Len(table[d])
    BY <1>1
  <2>2. new[b][i].id = table[b][i].id /\ new[d][j].id = table[d][j].id
    BY <1>1, <2>1
  <2>3. QED BY <1>3, <2>1, <2>2 DEF Unique
<1>4. ASSUME NEW b \in Bucket
      PROVE  In(new[b]) = Images(f, table[b])
  <2>1. ASSUME NEW x \in In(new[b]) PROVE x \in Images(f, table[b])
    <3>1. PICK i \in 1 .. Len(new[b]) : x = new[b][i]
      BY DEF In
    <3>2. i \in 1 .. Len(table[b])
      BY <1>1
    <3>3. x = f[table[b][i]] /\ table[b][i] \in In(table[b])
      BY <1>1, <3>1, <3>2
    <3>4. QED BY <3>3 DEF Images
  <2>2. ASSUME NEW a \in In(table[b]) PROVE f[a] \in In(new[b])
    <3>1. PICK i \in 1 .. Len(table[b]) : a = table[b][i]
      BY DEF In
    <3>2. f[a] = new[b][i] /\ i \in 1 .. Len(new[b])
      BY <1>1, <3>1
    <3>3. QED BY <3>2 DEF In
  <2>3. QED BY <2>1, <2>2 DEF Images
<1>5. Unique(new)
  BY <1>3 DEF Unique
<1>6. QED BY <1>2, <1>4, <1>5

-------------------------------------------------------------------------------
(***************************************************************************)
(* The calls between the queries.                                          *)
(***************************************************************************)
LEMMA Counts ==
    /\ MaxSessions \in Nat /\ MaxAssertions \in Nat
    /\ Buckets \in Nat /\ Buckets > 0
    /\ Bucket \subseteq Nat
BY SessionAssumption DEF Bucket

\* One session becomes another one that is in order.
LEMMA OneChanges ==
    ASSUME Rest, SessionsOK, NEW s \in Open, NEW new, SessionOK(new),
           Becomes(s, new)
    PROVE  /\ Open' = Open
           /\ SessionsOK'
           /\ sessions'[s] = new
           /\ sessions' = [t \in Open' |-> sessions'[t]]
<1>1. sessions' = [t \in Open |-> IF t = s THEN new ELSE sessions[t]]
  BY DEF Rest, Becomes
<1>2. DOMAIN sessions' = DOMAIN sessions
  BY <1>1 DEF Open
<1>3. \A t \in Open : sessions'[t] = IF t = s THEN new ELSE sessions[t]
  BY <1>1
<1>4. \A t \in Open : SessionOK(sessions'[t])
  BY <1>3 DEF SessionsOK
<1>5. Open' = Open
  BY <1>2 DEF Open
<1>6. SessionsOK'
  <2>1. \A t \in Open' : SessionOK(sessions'[t])
    BY <1>4, <1>5
  <2>2. QED BY <2>1 DEF SessionsOK
<1>7. QED BY <1>1, <1>3, <1>5, <1>6

\* A call that only changes the session which it names.
LEMMA CallKeepsOrder ==
    ASSUME Rest, SessionsOK, NEW s, Switch(s), NEW new, SessionOK(new),
           Becomes(s, new), Quiet
    PROVE  IInv'
<1>1. s \in Open /\ current' = s /\ pc' = "idle" /\ pc' = pc
      /\ sessioncounter' = sessioncounter /\ bucket' = bucket
  BY DEF Switch, Quiet
<1>2. Open' = Open /\ SessionsOK' /\ sessions' = [t \in Open' |-> sessions'[t]]
  BY <1>1, OneChanges
<1>3. Rest'
  BY <1>1, <1>2 DEF Rest
<1>4. QueryOK'
  BY <1>1 DEF QueryOK
<1>5. QED BY <1>2, <1>3, <1>4 DEF IInv

\* A session stays in order when its attributes and keys are others ...
LEMMA OtherAttributes ==
    ASSUME NEW session, SessionOK(session), NEW env \in Seq(Key)
    PROVE  SessionOK([session EXCEPT !.env = env])
<1> DEFINE new == [session EXCEPT !.env = env]
<1>1. new \in SessionType
  BY DEF SessionOK, SessionType
<1>2. new.table = session.table /\ new.counter = session.counter
  BY DEF SessionOK, SessionType
<1> HIDE DEF new
<1>3. SessionOK(new)
  BY <1>1, <1>2 DEF SessionOK
<1>4. QED BY <1>3 DEF new

\* The same for the keys that ask.
LEMMA OtherAuthorizers ==
    ASSUME NEW session, SessionOK(session), NEW auths \in Seq(Key)
    PROVE  SessionOK([session EXCEPT !.auths = auths])
<1> DEFINE new == [session EXCEPT !.auths = auths]
<1>1. new \in SessionType
  BY DEF SessionOK, SessionType
<1>2. new.table = session.table /\ new.counter = session.counter
  BY DEF SessionOK, SessionType
<1> HIDE DEF new
<1>3. SessionOK(new)
  BY <1>1, <1>2 DEF SessionOK
<1>4. QED BY <1>3 DEF new

\* ... and when its table is another one that is in order.
LEMMA OtherTable ==
    ASSUME NEW session, SessionOK(session),
           NEW table \in Assertions, Unique(table),
           \A b \in Bucket : \A a \in In(table[b]) :
               a.id < session.counter /\ Kept(b, a)
    PROVE  /\ SessionOK([session EXCEPT !.table = table])
           /\ [session EXCEPT !.table = table].table = table
           /\ [session EXCEPT !.table = table].env = session.env
<1> DEFINE new == [session EXCEPT !.table = table]
<1>1. new \in SessionType
  BY DEF SessionOK, SessionType
<1>2. /\ new.table = table /\ new.counter = session.counter
      /\ new.env = session.env
  BY DEF SessionOK, SessionType
<1> HIDE DEF new
<1>3. SessionOK(new)
  BY <1>1, <1>2 DEF SessionOK
<1>4. QED BY <1>2, <1>3 DEF new

\* The same for a table from which an assertion is removed.
LEMMA FewerAssertions ==
    ASSUME NEW session, SessionOK(session), NEW id
    PROVE  LET table == Without(session.table, id) IN
           /\ SessionOK([session EXCEPT !.table = table])
           /\ [session EXCEPT !.table = table].table = table
           /\ [session EXCEPT !.table = table].env = session.env
<1> DEFINE table == Without(session.table, id)
<1>1. session.table \in Assertions /\ Unique(session.table)
  BY DEF SessionOK, SessionType
<1>2. /\ table \in Assertions /\ Unique(table)
      /\ FewerThan(table, session.table, id)
  BY <1>1, WithoutFacts
<1>3. \A b \in Bucket : \A a \in In(table[b]) :
          a.id < session.counter /\ Kept(b, a)
  BY <1>2 DEF SessionOK, FewerThan
<1> HIDE DEF table
<1>4. /\ SessionOK([session EXCEPT !.table = table])
      /\ [session EXCEPT !.table = table].table = table
      /\ [session EXCEPT !.table = table].env = session.env
  BY <1>2, <1>3, OtherTable
<1>5. QED BY <1>4 DEF table

\* kn_init adds a session that is empty.
LEMMA Opens ==
    ASSUME IInv, kn_init
    PROVE  IInv'
<1> DEFINE new == [env |-> <<>>, auths |-> <<>>, counter |-> 0, values |-> FALSE,
                   table |-> [b \in Bucket |-> <<>>]]
<1>1. SessionOK(new)
  <2>1. <<>> \in Seq(Key) /\ <<>> \in Seq(AssertionType) /\ Len(<<>>) = 0
    OBVIOUS
  <2>2. new.table = [b \in Bucket |-> <<>>] /\ new.table \in Assertions
    BY <2>1 DEF Assertions
  <2>3. 0 \in 0 .. MaxAssertions
    BY Counts
  <2>4. new \in SessionType
    BY <2>1, <2>2, <2>3 DEF SessionType
  <2>5. \A b \in Bucket : Len(new.table[b]) = 0
    BY <2>1, <2>2
  <2> HIDE DEF new
  <2>6. \A b \in Bucket : In(new.table[b]) = {}
    BY <2>5 DEF In
  <2>7. Unique(new.table)
    BY <2>5 DEF Unique
  <2>8. QED BY <2>4, <2>6, <2>7 DEF SessionOK
<1>2. /\ pc = "idle" /\ pc' = pc /\ bucket' = bucket
      /\ sessioncounter < MaxSessions /\ current' = sessioncounter
      /\ sessioncounter' = sessioncounter + 1
      /\ sessions' = [s \in Open \union {sessioncounter} |->
             IF s = sessioncounter THEN new ELSE sessions[s]]
  BY DEF kn_init
<1> HIDE DEF new
<1>3. Open' = Open \union {sessioncounter}
  <2>1. DOMAIN sessions' = Open \union {sessioncounter}
    BY <1>2
  <2>2. QED BY <2>1 DEF Open
<1>4. /\ sessioncounter \in 0 .. MaxSessions /\ Open \subseteq 0 .. sessioncounter - 1
      /\ MaxSessions \in Nat /\ bucket \in 0 .. Buckets
  BY Counts DEF IInv, Rest
<1>5. sessioncounter' \in 0 .. MaxSessions /\ Open' \subseteq 0 .. sessioncounter' - 1
  BY <1>2, <1>3, <1>4
<1>6. \A t \in Open' : sessions'[t] = IF t = sessioncounter THEN new ELSE sessions[t]
  BY <1>2, <1>3
<1>7. \A t \in Open' : SessionOK(sessions'[t])
  BY <1>1, <1>3, <1>6 DEF IInv, SessionsOK
<1>8. sessions' = [t \in Open' |-> sessions'[t]]
  BY <1>2, <1>3, <1>6
<1>9. Rest'
  BY <1>2, <1>3, <1>4, <1>5, <1>8 DEF Rest
<1>10. QueryOK'
  BY <1>2 DEF QueryOK
<1>11. SessionsOK'
  BY <1>7 DEF SessionsOK
<1>12. QED BY <1>9, <1>10, <1>11 DEF IInv

\* kn_close takes one away, and leaves the others as they are.
LEMMA Closes ==
    ASSUME IInv, NEW s, kn_close(s)
    PROVE  IInv'
<1>1. /\ pc = "idle" /\ pc' = pc /\ bucket' = bucket /\ current' = None
      /\ sessioncounter' = sessioncounter
      /\ sessions' = [t \in Open \ {s} |-> sessions[t]]
  BY DEF kn_close, Quiet
<1>2. DOMAIN sessions' = Open \ {s}
  BY <1>1
<1>3. Open' = Open \ {s}
  BY <1>2 DEF Open
<1>4. \A t \in Open' : sessions'[t] = sessions[t]
  BY <1>1, <1>3
<1>5. \A t \in Open' : SessionOK(sessions'[t])
  BY <1>3, <1>4 DEF IInv, SessionsOK
<1>6. sessions' = [t \in Open' |-> sessions'[t]]
  BY <1>1, <1>3, <1>4
<1>7. Rest'
  BY <1>1, <1>3, <1>6 DEF IInv, Rest
<1>8. QueryOK'
  BY <1>1 DEF QueryOK
<1>9. SessionsOK'
  BY <1>5 DEF SessionsOK
<1>10. QED BY <1>7, <1>8, <1>9 DEF IInv

\* Attributes and keys come and go.
LEMMA AttributesChange ==
    ASSUME IInv, NEW s,
           \/ \E v \in Key : kn_add_action(s, v)
           \/ kn_remove_action(s)
           \/ kn_cleanup_action_environment(s)
    PROVE  IInv'
<1>1. Rest /\ SessionsOK /\ Switch(s) /\ Quiet
  BY DEF IInv, kn_add_action, kn_remove_action, kn_cleanup_action_environment
<1>2. s \in Open /\ SessionOK(sessions[s])
  BY <1>1 DEF Switch, SessionsOK
<1>3. sessions[s].env \in Seq(Key)
  BY <1>2 DEF SessionOK, SessionType
<1>4. ASSUME NEW env \in Seq(Key),
             Becomes(s, [sessions[s] EXCEPT !.env = env])
      PROVE  IInv'
  <2>1. SessionOK([sessions[s] EXCEPT !.env = env])
    BY <1>2, OtherAttributes
  <2>2. QED BY <1>1, <1>4, <2>1, CallKeepsOrder
<1>5. ASSUME NEW v \in Key, kn_add_action(s, v) PROVE IInv'
  <2>1. <<v>> \o sessions[s].env \in Seq(Key)
    BY <1>3
  <2>2. Becomes(s, [sessions[s] EXCEPT !.env = <<v>> \o sessions[s].env])
    BY <1>5 DEF kn_add_action
  <2>3. QED BY <1>4, <2>1, <2>2
<1>6. CASE kn_remove_action(s)
  <2>1. Tail(sessions[s].env) \in Seq(Key)
    BY <1>3, <1>6 DEF kn_remove_action
  <2>2. Becomes(s, [sessions[s] EXCEPT !.env = Tail(sessions[s].env)])
    BY <1>6 DEF kn_remove_action
  <2>3. QED BY <1>4, <2>1, <2>2
<1>7. CASE kn_cleanup_action_environment(s)
  <2>1. <<>> \in Seq(Key) /\ Becomes(s, [sessions[s] EXCEPT !.env = <<>>])
    BY <1>7 DEF kn_cleanup_action_environment
  <2>2. QED BY <1>4, <2>1
<1>8. QED BY <1>5, <1>6, <1>7

\* Keys that ask come and go.
LEMMA AuthorizersChange ==
    ASSUME IInv, NEW s, NEW k \in Key,
           kn_add_authorizer(s, k) \/ kn_remove_authorizer(s, k)
    PROVE  IInv'
<1>1. Rest /\ SessionsOK /\ Switch(s) /\ Quiet
  BY DEF IInv, kn_add_authorizer, kn_remove_authorizer
<1>2. s \in Open /\ SessionOK(sessions[s])
  BY <1>1 DEF Switch, SessionsOK
<1> DEFINE auths == sessions[s].auths
<1>3. auths \in Seq(Key)
  BY <1>2 DEF SessionOK, SessionType
<1>4. ASSUME NEW new \in Seq(Key),
             Becomes(s, [sessions[s] EXCEPT !.auths = new])
      PROVE  IInv'
  <2>1. SessionOK([sessions[s] EXCEPT !.auths = new])
    BY <1>2, OtherAuthorizers
  <2>2. QED BY <1>1, <1>4, <2>1, CallKeepsOrder
<1>5. CASE kn_add_authorizer(s, k)
  <2>1. <<k>> \o auths \in Seq(Key)
    BY <1>3
  <2>2. Becomes(s, [sessions[s] EXCEPT !.auths = <<k>> \o auths])
    BY <1>5 DEF kn_add_authorizer
  <2>3. QED BY <1>4, <2>1, <2>2
<1>6. CASE kn_remove_authorizer(s, k)
  <2> DEFINE I == {i \in 1 .. Len(auths) : auths[i] = k}
             at == IF I # {} THEN Min(I) ELSE 0
             rest == CASE at = 1 -> Tail(auths)
                       [] at > 1 /\ at < Len(auths) -> RemoveAt(auths, at + 1)
                       [] OTHER -> auths
  <2>1. Becomes(s, [sessions[s] EXCEPT !.auths = rest])
    BY <1>6 DEF kn_remove_authorizer, SelectInSeq
  <2>2. at \in 0 .. Len(auths)
    <3>1. I \in SUBSET Nat /\ I \subseteq 1 .. Len(auths)
      OBVIOUS
    <3>2. CASE I # {}
      <4>1. Min(I) \in I
        <5> HIDE DEF I
        <5> QED BY <3>1, <3>2, LeastNatural
      <4>2. QED BY <3>1, <3>2, <4>1
    <3>3. CASE I = {}
      BY <1>3, <3>3
    <3>4. QED BY <3>2, <3>3
  <2> HIDE DEF at, I
  <2>3. CASE at = 1
    <3>1. rest = Tail(auths) /\ auths # <<>>
      BY <1>3, <2>2, <2>3
    <3>2. Tail(auths) \in Seq(Key)
      BY <1>3, <3>1, HeadTailProperties
    <3>3. QED BY <1>4, <2>1, <3>1, <3>2
  <2>4. CASE at # 1 /\ at > 1 /\ at < Len(auths)
    <3>1. rest = RemoveAt(auths, at + 1)
      BY <2>4
    <3>2. at + 1 \in 1 .. Len(auths)
      BY <1>3, <2>2, <2>4
    <3>3. RemoveAt(auths, at + 1) \in Seq(Key)
      BY <1>3, <3>2, RemoveAtFacts
    <3>4. rest \in Seq(Key)
      BY <3>1, <3>3
    <3>5. QED BY <1>4, <2>1, <3>4
  <2>5. CASE at # 1 /\ ~ (at > 1 /\ at < Len(auths))
    <3>1. rest = auths
      BY <2>5
    <3>2. rest \in Seq(Key)
      BY <1>3, <3>1
    <3>3. QED BY <1>4, <2>1, <3>2
  <2>6. QED BY <2>3, <2>4, <2>5
<1>7. QED BY <1>5, <1>6

\* A new assertion has an id that is larger than those of the others.
LEMMA AssertionComes ==
    ASSUME IInv, NEW s, NEW t \in Texts, kn_add_assertion(s, t)
    PROVE  IInv'
<1>1. Rest /\ SessionsOK /\ Switch(s) /\ Quiet
  BY DEF IInv, kn_add_assertion
<1> DEFINE S == sessions[s]
           a == [id |-> S.counter, text |-> t, auth |-> None, lics |-> None,
                 sig |-> None, sigresult |-> "untouched", needproc |-> TRUE,
                 processed |-> FALSE, error |-> FALSE]
<1>2. s \in Open /\ SessionOK(S)
  BY <1>1 DEF Switch, SessionsOK
<1>3. /\ S \in SessionType /\ S.table \in Assertions /\ Unique(S.table)
      /\ S.counter \in 0 .. MaxAssertions
      /\ \A b \in Bucket : \A x \in In(S.table[b]) :
             x.id < S.counter /\ Kept(b, x)
  BY <1>2 DEF SessionOK, SessionType
<1>4. PICK b \in Bucket :
          Becomes(s, [S EXCEPT !.table = Adding(S.table, b, a),
                               !.counter = S.counter + 1])
  BY DEF kn_add_assertion
<1>5. S.counter < MaxAssertions
  BY DEF kn_add_assertion
<1>6. a \in AssertionType
  <2>1. S.counter \in 0 .. MaxAssertions - 1
    BY <1>3, <1>5, Counts
  <2>2. QED BY <2>1 DEF AssertionType
<1>7. a.id = S.counter /\ Kept(b, a)
  BY DEF Kept
<1> DEFINE table == Adding(S.table, b, a)
           new == [S EXCEPT !.table = table, !.counter = S.counter + 1]
<1> HIDE DEF a
<1>8. \A c \in Bucket : \A x \in In(S.table[c]) : x.id # a.id
  <2>1. \A c \in Bucket : \A x \in In(S.table[c]) : x.id \in Nat
    BY <1>3, ListFacts DEF AssertionType
  <2>2. S.counter \in Nat
    BY <1>3
  <2>3. QED BY <1>3, <1>7, <2>1, <2>2
<1>9. /\ table \in Assertions /\ Unique(table)
      /\ \A c \in Bucket : \A x \in In(table[c]) :
             x \in In(S.table[c]) \/ (c = b /\ x = a)
  <2>1. PICK old : old = S.table
    OBVIOUS
  <2>2. PICK now : now = Adding(old, b, a)
    OBVIOUS
  <2>3. old \in Assertions /\ Unique(old)
    BY <1>3, <2>1
  <2>4. \A c \in Bucket : \A x \in In(old[c]) : x.id # a.id
    BY <1>8, <2>1
  <2>5. now \in Assertions
    BY <1>6, <2>2, <2>3, <2>4, AddingFacts
  <2>6. Unique(now)
    BY <1>6, <2>2, <2>3, <2>4, AddingFacts
  <2>7. OneMoreThan(now, old, b, a)
    BY <1>6, <2>2, <2>3, <2>4, AddingFacts
  <2>8. QED BY <2>1, <2>2, <2>5, <2>6, <2>7 DEF OneMoreThan
<1> HIDE DEF table
<1>10. new \in SessionType /\ new.table = table /\ new.counter = S.counter + 1
  <2>1. S.counter + 1 \in 0 .. MaxAssertions
    BY <1>3, <1>5, Counts
  <2>2. QED BY <1>3, <1>9, <2>1 DEF SessionType
<1>11. ASSUME NEW c \in Bucket, NEW x \in In(table[c])
       PROVE  x.id < S.counter + 1 /\ Kept(c, x)
  <2>1. x.id \in Nat /\ S.counter \in Nat
    BY <1>3, <1>9, ListFacts DEF AssertionType
  <2>2. CASE x \in In(S.table[c])
    <3>1. x.id < S.counter /\ Kept(c, x)
      BY <1>3, <2>2
    <3>2. x.id < S.counter + 1
      BY <2>1, <3>1
    <3>3. QED BY <3>1, <3>2
  <2>3. CASE c = b /\ x = a
    <3>1. x.id < S.counter + 1
      BY <1>7, <2>1, <2>3
    <3>2. QED BY <1>7, <2>3, <3>1
  <2>4. QED BY <1>9, <2>2, <2>3
<1> HIDE DEF new
<1>12. SessionOK(new)
  BY <1>9, <1>10, <1>11 DEF SessionOK
<1>13. Becomes(s, new)
  BY <1>4 DEF new, table, a
<1>14. QED BY <1>1, <1>12, <1>13, CallKeepsOrder

\* The assertion that a program names is removed, or one that failed.
LEMMA AssertionGoes ==
    ASSUME IInv, NEW s,
           \/ \E id \in 0 .. MaxAssertions - 1 : kn_remove_assertion(s, id)
           \/ RemoveFailed(s)
    PROVE  IInv'
<1>1. Rest /\ SessionsOK /\ Switch(s) /\ Quiet
  BY DEF IInv, kn_remove_assertion, RemoveFailed
<1>2. s \in Open /\ SessionOK(sessions[s])
  BY <1>1 DEF Switch, SessionsOK
<1>3. PICK id : Becomes(s, [sessions[s] EXCEPT !.table =
                                Without(sessions[s].table, id)])
  BY DEF kn_remove_assertion, RemoveFailed
<1>4. SessionOK([sessions[s] EXCEPT !.table = Without(sessions[s].table, id)])
  BY <1>2, FewerAssertions
<1>5. QED BY <1>1, <1>3, <1>4, CallKeepsOrder

\* What changes no session changes nothing that matters.
LEMMA NothingChanges ==
    ASSUME IInv, UNCHANGED sessions, pc' = "idle", current' \in Open \union {None},
           UNCHANGED <<sessioncounter, bucket>>
    PROVE  IInv'
<1>1. Open' = Open /\ \A s \in Open : sessions'[s] = sessions[s]
  BY DEF Open
<1>2. sessions' = [s \in Open' |-> sessions'[s]]
  BY <1>1 DEF IInv, Rest
<1>3. Rest'
  BY <1>1, <1>2 DEF IInv, Rest
<1>4. SessionsOK'
  BY <1>1 DEF IInv, SessionsOK
<1>5. QueryOK'
  BY DEF QueryOK
<1>6. QED BY <1>3, <1>4, <1>5 DEF IInv

\* A step that changes nothing keeps everything.
LEMMA NothingHappens ==
    ASSUME IInv, UNCHANGED vars
    PROVE  IInv'
<1>1. /\ UNCHANGED sessions /\ UNCHANGED sessioncounter /\ UNCHANGED current
      /\ UNCHANGED pc /\ UNCHANGED bucket
  BY DEF vars
<1>2. QED
  BY <1>1 DEF IInv, Rest, SessionsOK, QueryOK, Open, cur, Attribute

-------------------------------------------------------------------------------
(***************************************************************************)
(* The steps of a query.                                                   *)
(***************************************************************************)

\* A step that changes the table of the session s that the query is about.
LEMMA StepKeepsOrder ==
    ASSUME Rest, SessionsOK, NEW s \in Open, NEW new, SessionOK(new),
           Becomes(s, new), current' = s, UNCHANGED sessioncounter,
           pc' \in {"idle", "fix", "reposition", "evaluate"},
           bucket' \in 0 .. Buckets,
           new.env = sessions[s].env,
           pc' # "idle" => \A b \in Bucket : \A a \in In(new.table[b]) :
                               Ready(pc', bucket', Attribute(s), b, a)
    PROVE  IInv'
<1>1. /\ Open' = Open /\ SessionsOK' /\ sessions'[s] = new
      /\ sessions' = [t \in Open' |-> sessions'[t]]
  BY OneChanges
<1>2. Rest'
  BY <1>1 DEF Rest
<1>3. Attribute(current)' = Attribute(s) /\ cur' = new
  BY <1>1 DEF Attribute, cur
<1>4. QueryOK'
  BY <1>3 DEF QueryOK
<1>5. QED BY <1>1, <1>2, <1>4 DEF IInv

\* The fields have the types that the proofs need.
LEMMA FieldTypes ==
    ASSUME NEW a \in AssertionType
    PROVE  /\ a.text.auth \in Key \union {Var, Bad}
           /\ a.text.lics \in Key \union {Var, Bad}
           /\ a.text.sig \in Key \union {Var}
           /\ a.text.local \in BOOLEAN
           /\ a.auth \in Principal \union {None}
           /\ a.lics \in Principal \union {None}
           /\ a.sig \in Principal \union {None}
           /\ a.sigresult \in {"untouched", "true", "false"}
           /\ a.needproc \in BOOLEAN /\ a.processed \in BOOLEAN
BY SessionAssumption DEF AssertionType, Text

\* The value of an attribute is a principal, if only the empty one.
LEMMA AttributeType ==
    ASSUME NEW s \in Open, SessionOK(sessions[s])
    PROVE  Attribute(s) \in Principal
<1>1. sessions[s].env \in Seq(Key)
  BY DEF SessionOK, SessionType
<1>2. sessions[s].env # <<>> => sessions[s].env[1] \in Key
  BY <1>1
<1>3. QED BY <1>2 DEF Attribute, Principal

\* What kn_do_query makes of an assertion that is at rest.
LEMMA ResetFacts ==
    ASSUME NEW b \in Bucket, NEW a \in AssertionType, Kept(b, a), NEW k, NEW v
    PROVE  /\ Reset(a).id = a.id
           /\ Kept(b, Reset(a))
           /\ Ready("fix", k, v, b, Reset(a))
<1> DEFINE n == Reset(a)
<1>1. /\ n.id = a.id /\ n.text = a.text /\ n.auth = a.auth /\ n.lics = a.lics
      /\ n.sig = a.sig /\ n.needproc = a.needproc /\ n.processed = FALSE
      /\ n.sigresult = IF Weird(a, "sig") THEN "untouched" ELSE a.sigresult
  BY DEF Reset, AssertionType
<1>2. Weird(a, "sig") <=> ~ a.needproc /\ a.text.sig = Var
  BY DEF Weird
<1>3. Verifies(n) <=> Verifies(a)
  BY <1>1 DEF Verifies
<1> HIDE DEF n
<1>4. a.text.sig = Var => n.sigresult = "untouched"
  BY <1>1, <1>2 DEF Kept
<1>5. n.sigresult \in {"untouched", a.sigresult}
  BY <1>1
<1>6. Kept(b, n)
  <2>1. n.needproc => n.sigresult = "untouched"
    BY <1>1, <1>5 DEF Kept
  <2>2. n.text.sig # Var => n.sigresult = a.sigresult
    BY <1>1, <1>2
  <2>3. ~ n.text.local /\ n.text.auth # Var /\ n.text.sig # Var
        /\ n.sigresult # "untouched"
            => (n.sigresult = "true" <=> Verifies(n))
    BY <1>1, <1>3, <2>2 DEF Kept
  <2>4. ~ n.needproc =>
            /\ n.auth # None /\ n.text.auth # Bad
            /\ n.text.auth # Var => n.auth = n.text.auth /\ b = keyhash[n.auth]
            /\ n.text.sig # Var => n.sig = n.text.sig
            /\ n.text.lics # Var =>
                   n.lics = IF n.text.lics = Bad THEN None ELSE n.text.lics
    BY <1>1 DEF Kept
  <2>5. QED BY <2>1, <2>3, <2>4 DEF Kept
<1>7. Ready("fix", k, v, b, n)
  BY <1>1, <1>4 DEF Ready
<1>8. QED BY <1>1, <1>6, <1>7 DEF n

\* The query starts.
LEMMA QueryStarts ==
    ASSUME IInv, NEW s, NEW given \in BOOLEAN, kn_do_query(s, given)
    PROVE  IInv'
<1> DEFINE S == sessions[s]
           f == [a \in AssertionType |-> Reset(a)]
<1>1. /\ Rest /\ SessionsOK /\ s \in Open /\ current' = s /\ pc' = "fix"
      /\ UNCHANGED sessioncounter /\ UNCHANGED bucket
  BY DEF IInv, kn_do_query, Switch
<1>2. /\ SessionOK(S) /\ S \in SessionType
      /\ S.table \in Assertions /\ Unique(S.table)
  BY <1>1 DEF SessionsOK, SessionOK, SessionType
<1>3. PICK table : table = EachAssertion(S.table, Reset)
  OBVIOUS
<1>4. f \in [AssertionType -> AssertionType]
  <2>1. \A a \in AssertionType : Reset(a) \in AssertionType
    BY DEF Reset, AssertionType
  <2>2. QED BY <2>1
<1>5. \A a \in AssertionType : f[a].id = a.id
  BY DEF Reset, AssertionType
<1>6. table = [b \in Bucket |-> [i \in DOMAIN S.table[b] |-> f[S.table[b][i]]]]
  <2>1. \A b \in Bucket : \A i \in DOMAIN S.table[b] :
            S.table[b][i] \in AssertionType
    BY <1>2 DEF Assertions
  <2>2. table = [b \in Bucket |-> [i \in DOMAIN S.table[b] |-> Reset(S.table[b][i])]]
    BY <1>3 DEF EachAssertion
  <2>3. QED BY <2>1, <2>2
<1>7. \A a \in AssertionType : f[a] = Reset(a)
  OBVIOUS
<1> HIDE DEF f
<1>8. /\ table \in Assertions /\ Unique(table)
      /\ \A b \in Bucket : In(table[b]) = Images(f, S.table[b])
  <2>1. PICK old : old = S.table
    OBVIOUS
  <2>2. /\ old \in Assertions /\ Unique(old)
        /\ table = [b \in Bucket |-> [i \in DOMAIN old[b] |-> f[old[b][i]]]]
    BY <1>2, <1>6, <2>1
  <2>3. table \in Assertions
    BY <1>4, <1>5, <2>2, EachFacts
  <2>4. Unique(table)
    BY <1>4, <1>5, <2>2, EachFacts
  <2>5. \A b \in Bucket : In(table[b]) = Images(f, old[b])
    BY <1>4, <1>5, <2>2, EachFacts
  <2>6. QED BY <2>1, <2>3, <2>4, <2>5
<1>9. ASSUME NEW b \in Bucket, NEW n \in In(table[b])
      PROVE  /\ n.id < S.counter /\ Kept(b, n)
             /\ Ready("fix", bucket', Attribute(s), b, n)
  <2>1. PICK a \in In(S.table[b]) : n = f[a]
    BY <1>8 DEF Images
  <2>2. a \in AssertionType /\ a.id < S.counter /\ Kept(b, a)
    BY <1>2, ListFacts DEF SessionOK
  <2>3. QED BY <1>5, <1>7, <2>1, <2>2, ResetFacts
<1> DEFINE now == [S EXCEPT !.values = TRUE]
           new == [now EXCEPT !.table = table]
<1>10. SessionOK(now) /\ now.counter = S.counter /\ now.env = S.env
  BY <1>2 DEF SessionOK, SessionType
<1>11. SessionOK(new) /\ new.table = table /\ new.env = S.env
  <2>1. \A b \in Bucket : \A a \in In(table[b]) : a.id < now.counter /\ Kept(b, a)
    BY <1>9, <1>10
  <2> HIDE DEF now
  <2>2. QED BY <1>8, <1>10, <2>1, OtherTable
<1>12. Becomes(s, new)
  <2>1. new = [S EXCEPT !.values = TRUE, !.table = table]
    OBVIOUS
  <2>2. Becomes(s, [S EXCEPT !.values = TRUE,
                             !.table = EachAssertion(S.table, Reset)])
    BY DEF kn_do_query
  <2>3. QED BY <1>3, <2>1, <2>2
<1> HIDE DEF new, now
<1>13. bucket' \in 0 .. Buckets
  BY <1>1 DEF Rest
<1>14. \A b \in Bucket : \A a \in In(new.table[b]) :
           Ready(pc', bucket', Attribute(s), b, a)
  BY <1>1, <1>9, <1>11
<1>15. QED BY <1>1, <1>11, <1>12, <1>13, <1>14, StepKeepsOrder

\* What keynote_fix_fields makes of it: its fields are those of now.
LEMMA FixedFacts ==
    ASSUME NEW b \in Bucket, NEW a \in AssertionType, Kept(b, a), NEW k,
           Attribute(current) \in Principal,
           Ready("fix", k, Attribute(current), b, a)
    PROVE  /\ Fixed(a) \in AssertionType
           /\ Kept(b, Fixed(a))
           /\ Ready("reposition", 0, Attribute(current), b, Fixed(a))
<1> DEFINE n == Fixed(a)
           v == Attribute(current)
<1>1. /\ n.id = a.id /\ n.text = a.text /\ n.needproc = a.needproc
      /\ n.processed = a.processed /\ n.sigresult = a.sigresult
      /\ n.auth = Parsed(a, "auth") /\ n.lics = Parsed(a, "lics")
      /\ n.sig = Parsed(a, "sig")
      /\ n.error = (a.needproc /\ Bad \in {a.text.auth, a.text.lics})
  BY DEF Fixed, AssertionType
<1>2. /\ a.text.auth \in Key \union {Var, Bad}
      /\ a.text.lics \in Key \union {Var, Bad}
      /\ a.text.sig \in Key \union {Var}
      /\ a.needproc \in BOOLEAN
  BY FieldTypes
<1>3. Bad \notin Key /\ Var \notin Key /\ Var # Bad /\ None \notin Principal
  BY SessionAssumption DEF Principal
<1>4. a.processed = FALSE
  BY FieldTypes DEF Ready
<1>5. n.auth = IF a.text.auth = Bad THEN None ELSE Value(a.text.auth, v)
  <2>1. CASE ~ a.needproc /\ a.text.auth # Var
    BY <1>1, <2>1 DEF Parsed, Value, Kept
  <2>2. CASE ~ (~ a.needproc /\ a.text.auth # Var)
    BY <1>1, <2>2 DEF Parsed, Value, Resolve
  <2>3. QED BY <2>1, <2>2
<1>6. n.lics = IF a.text.lics = Bad THEN None ELSE Value(a.text.lics, v)
  <2>1. CASE ~ a.needproc /\ a.text.lics # Var
    BY <1>1, <2>1 DEF Parsed, Value, Kept
  <2>2. CASE ~ (~ a.needproc /\ a.text.lics # Var)
    BY <1>1, <2>2 DEF Parsed, Value, Resolve
  <2>3. QED BY <2>1, <2>2
<1>7. n.sig = Value(a.text.sig, v)
  <2>1. CASE ~ a.needproc /\ a.text.sig # Var
    BY <1>1, <1>2, <1>3, <2>1 DEF Parsed, Value, Kept
  <2>2. CASE ~ (~ a.needproc /\ a.text.sig # Var)
    BY <1>1, <1>2, <1>3, <2>2 DEF Parsed, Value, Resolve
  <2>3. QED BY <2>1, <2>2
<1>8. n \in AssertionType
  <2>1. /\ n.auth \in Principal \union {None} /\ n.lics \in Principal \union {None}
        /\ n.sig \in Principal \union {None}
    BY <1>2, <1>5, <1>6, <1>7 DEF Value, Principal
  <2>2. n = [a EXCEPT !.sig = n.sig, !.lics = n.lics, !.auth = n.auth,
                      !.error = n.error]
    BY <1>1 DEF Fixed
  <2>3. n.error \in BOOLEAN
    BY <1>1
  <2> HIDE DEF n
  <2>4. QED BY <2>1, <2>2, <2>3 DEF AssertionType
<1>9. HasToMove(n) <=> a.needproc \/ a.text.auth = Var
  BY <1>1, <1>4 DEF HasToMove, Weird
<1> HIDE DEF n, v
\* The fields that are not parsed again are what they were.
<1>10. ~ a.needproc =>
           /\ a.text.auth # Var => n.auth = a.auth
           /\ a.text.sig # Var => n.sig = a.sig
  BY <1>5, <1>7 DEF Kept, Value
<1>11. Kept(b, n)
  <2>1. n.needproc => n.sigresult = "untouched"
    BY <1>1 DEF Kept
  <2>2. ~ n.needproc => n.text.auth # Bad /\ n.auth # None
    <3>1. v \in Principal
      BY DEF v
    <3>2. ~ n.needproc => a.text.auth # Bad
      BY <1>1 DEF Kept
    <3>3. QED BY <1>1, <1>2, <1>3, <1>5, <3>1, <3>2 DEF Value, Principal
  <2>3. ~ n.needproc =>
            /\ n.text.auth # Var => n.auth = n.text.auth /\ b = keyhash[n.auth]
            /\ n.text.sig # Var => n.sig = n.text.sig
    BY <1>1, <1>10 DEF Kept
  <2>4. n.text.lics # Var =>
            n.lics = IF n.text.lics = Bad THEN None ELSE n.text.lics
    BY <1>1, <1>6 DEF Value
  <2>5. ASSUME ~ n.text.local, n.text.auth # Var, n.text.sig # Var,
               n.sigresult # "untouched"
        PROVE  n.sigresult = "true" <=> Verifies(n)
    <3>1. ~ a.needproc
      BY <1>1, <2>5 DEF Kept
    <3>2. Verifies(n) <=> Verifies(a)
      BY <1>1, <1>10, <2>5, <3>1 DEF Verifies
    <3>3. QED BY <1>1, <2>5, <3>2 DEF Kept
  <2>6. QED BY <2>1, <2>2, <2>3, <2>4, <2>5 DEF Kept
<1>12. Ready("reposition", 0, v, b, n)
  <2>1. n.text.sig = Var => n.sigresult = "untouched"
    BY <1>1 DEF Ready
  <2>2. ~ HasToMove(n) => n.auth # None /\ b = keyhash[n.auth]
    BY <1>1, <1>9, <1>11 DEF Kept
  <2>3. ~ (b < 0)
    BY Counts
  <2>4. QED BY <1>1, <1>5, <1>6, <1>7, <2>1, <2>2, <2>3 DEF Ready
<1>13. QED BY <1>8, <1>11, <1>12 DEF n, v

\* What a query under way relies on.
LEMMA UnderWay ==
    ASSUME IInv, pc # "idle"
    PROVE  /\ Rest /\ SessionsOK /\ current \in Open /\ cur = sessions[current]
           /\ SessionOK(cur) /\ cur \in SessionType
           /\ cur.table \in Assertions /\ Unique(cur.table)
           /\ Attribute(current) \in Principal
           /\ bucket \in 0 .. Buckets
           /\ \A b \in Bucket : \A a \in In(cur.table[b]) :
                  /\ a \in AssertionType /\ a.id < cur.counter /\ Kept(b, a)
                  /\ Ready(pc, bucket, Attribute(current), b, a)
<1>1. /\ Rest /\ SessionsOK /\ current \in Open /\ cur = sessions[current]
      /\ bucket \in 0 .. Buckets
  BY DEF IInv, Rest, cur
<1>2. SessionOK(cur)
  BY <1>1 DEF SessionsOK
<1>3. cur \in SessionType /\ cur.table \in Assertions /\ Unique(cur.table)
  BY <1>2 DEF SessionOK, SessionType
<1>4. Attribute(current) \in Principal
  BY <1>1, <1>2, AttributeType
<1>5. ASSUME NEW b \in Bucket, NEW a \in In(cur.table[b])
      PROVE  /\ a \in AssertionType /\ a.id < cur.counter /\ Kept(b, a)
             /\ Ready(pc, bucket, Attribute(current), b, a)
  <2>1. a \in AssertionType
    BY <1>3, ListFacts
  <2>2. a.id < cur.counter /\ Kept(b, a)
    BY <1>2 DEF SessionOK
  <2>3. Ready(pc, bucket, Attribute(current), b, a)
    BY DEF IInv, QueryOK
  <2>4. QED BY <2>1, <2>2, <2>3
<1>6. QED BY <1>1, <1>2, <1>3, <1>4, <1>5

\* All fields are parsed that have to be.
LEMMA FieldsAreFixed ==
    ASSUME IInv, keynote_fix_fields
    PROVE  IInv'
<1> DEFINE f == [a \in AssertionType |->
                    IF Fixed(a) \in AssertionType THEN Fixed(a) ELSE a]
           v == Attribute(current)
<1>1. /\ pc = "fix" /\ pc' = "reposition" /\ bucket' = 0
      /\ UNCHANGED sessioncounter /\ current' = current
  BY DEF keynote_fix_fields
<1>2. /\ Rest /\ SessionsOK /\ current \in Open /\ cur = sessions[current]
      /\ SessionOK(cur) /\ cur \in SessionType
      /\ cur.table \in Assertions /\ Unique(cur.table)
      /\ v \in Principal
      /\ \A b \in Bucket : \A a \in In(cur.table[b]) :
             /\ a \in AssertionType /\ a.id < cur.counter /\ Kept(b, a)
             /\ Ready("fix", bucket, v, b, a)
  BY <1>1, UnderWay
<1>3. PICK table : table = EachAssertion(cur.table, Fixed)
  OBVIOUS
<1>4. f \in [AssertionType -> AssertionType]
  OBVIOUS
<1>5. \A a \in AssertionType : f[a].id = a.id
  BY DEF Fixed, AssertionType
<1>6. ASSUME NEW b \in Bucket, NEW a \in In(cur.table[b])
      PROVE  /\ f[a] = Fixed(a) /\ Kept(b, f[a])
             /\ Ready("reposition", 0, v, b, f[a])
  <2>1. /\ Fixed(a) \in AssertionType /\ Kept(b, Fixed(a))
        /\ Ready("reposition", 0, v, b, Fixed(a))
    BY <1>2, FixedFacts
  <2>2. f[a] = Fixed(a)
    BY <1>2, <2>1
  <2>3. QED BY <2>1, <2>2
<1> HIDE DEF f
<1>7. table = [b \in Bucket |-> [i \in DOMAIN cur.table[b] |-> f[cur.table[b][i]]]]
  <2>1. \A b \in Bucket : \A i \in DOMAIN cur.table[b] :
            f[cur.table[b][i]] = Fixed(cur.table[b][i])
    <3>1. ASSUME NEW b \in Bucket, NEW i \in DOMAIN cur.table[b]
          PROVE  f[cur.table[b][i]] = Fixed(cur.table[b][i])
      <4>1. i \in 1 .. Len(cur.table[b])
        BY <1>2, ListFacts
      <4>2. cur.table[b][i] \in In(cur.table[b])
        BY <4>1 DEF In
      <4>3. QED BY <1>6, <4>2
    <3>2. QED BY <3>1
  <2>2. table = [b \in Bucket |->
                    [i \in DOMAIN cur.table[b] |-> Fixed(cur.table[b][i])]]
    BY <1>3 DEF EachAssertion
  <2>3. QED BY <2>1, <2>2
<1>8. /\ table \in Assertions /\ Unique(table)
      /\ \A b \in Bucket : In(table[b]) = Images(f, cur.table[b])
  <2>1. PICK old : old = cur.table
    OBVIOUS
  <2>2. /\ old \in Assertions /\ Unique(old)
        /\ table = [b \in Bucket |-> [i \in DOMAIN old[b] |-> f[old[b][i]]]]
    BY <1>2, <1>7, <2>1
  <2>3. table \in Assertions
    BY <1>4, <1>5, <2>2, EachFacts
  <2>4. Unique(table)
    BY <1>4, <1>5, <2>2, EachFacts
  <2>5. \A b \in Bucket : In(table[b]) = Images(f, old[b])
    BY <1>4, <1>5, <2>2, EachFacts
  <2>6. QED BY <2>1, <2>3, <2>4, <2>5
<1>9. ASSUME NEW b \in Bucket, NEW n \in In(table[b])
      PROVE  /\ n.id < cur.counter /\ Kept(b, n)
             /\ Ready("reposition", 0, v, b, n)
  <2>1. PICK a \in In(cur.table[b]) : n = f[a]
    BY <1>8 DEF Images
  <2>2. QED BY <1>2, <1>5, <1>6, <2>1
<1> DEFINE new == [cur EXCEPT !.table = table]
<1>10. SessionOK(new) /\ new.table = table /\ new.env = cur.env
  BY <1>2, <1>8, <1>9, OtherTable
<1>11. Becomes(current, new)
  BY <1>3 DEF keynote_fix_fields
<1> HIDE DEF new
<1>12. bucket' \in 0 .. Buckets
  BY <1>1, Counts
<1>13. \A b \in Bucket : \A a \in In(new.table[b]) :
           Ready(pc', bucket', Attribute(current), b, a)
  BY <1>1, <1>9, <1>10
<1>14. QED
  BY <1>1, <1>2, <1>10, <1>11, <1>12, <1>13, StepKeepsOrder

\* The assertion that is moved, and what the move makes of it.
LEMMA MovedFacts ==
    ASSUME NEW b \in Bucket, NEW a \in AssertionType, Kept(b, a), NEW k, NEW v,
           Ready("reposition", k, v, b, a), a.auth # None,
           NEW n, n = [a EXCEPT !.needproc = FALSE, !.processed = TRUE]
    PROVE  /\ keyhash[a.auth] \in Bucket
           /\ Kept(keyhash[a.auth], n)
           /\ Ready("reposition", k, v, keyhash[a.auth], n)
<1>1. /\ n \in AssertionType
      /\ n.id = a.id /\ n.text = a.text /\ n.auth = a.auth /\ n.lics = a.lics
      /\ n.sig = a.sig /\ n.sigresult = a.sigresult
      /\ n.needproc = FALSE /\ n.processed = TRUE
  BY DEF AssertionType
<1>2. keyhash[a.auth] \in Bucket
  BY FieldTypes, SessionAssumption
<1>3. ~ HasToMove(n)
  BY <1>1 DEF HasToMove
<1>4. /\ a.auth = Value(a.text.auth, v) /\ a.text.auth # Bad
      /\ a.sig = Value(a.text.sig, v)
      /\ a.lics = IF a.text.lics = Bad THEN None ELSE Value(a.text.lics, v)
      /\ a.text.sig = Var => a.sigresult = "untouched"
  BY DEF Ready
<1>5. Verifies(n) <=> Verifies(a)
  BY <1>1 DEF Verifies
<1>6. Kept(keyhash[a.auth], n)
  <2>1. /\ n.auth # None /\ n.text.auth # Bad
        /\ n.text.auth # Var =>
               n.auth = n.text.auth /\ keyhash[a.auth] = keyhash[n.auth]
        /\ n.text.sig # Var => n.sig = n.text.sig
        /\ n.text.lics # Var =>
               n.lics = IF n.text.lics = Bad THEN None ELSE n.text.lics
    BY <1>1, <1>4 DEF Value
  <2>2. ~ n.text.local /\ n.text.auth # Var /\ n.text.sig # Var
        /\ n.sigresult # "untouched"
            => (n.sigresult = "true" <=> Verifies(n))
    BY <1>1, <1>5 DEF Kept
  <2>3. QED BY <1>1, <2>1, <2>2 DEF Kept
<1>7. Ready("reposition", k, v, keyhash[a.auth], n)
  BY <1>1, <1>3, <1>4 DEF Ready
<1>8. QED BY <1>1, <1>2, <1>6, <1>7

\* mover, as an operator of the list that it is of.
LEMMA MoverIsIn ==
    ASSUME IInv, pc = "reposition", bucket < Buckets
    PROVE  /\ bucket \in Bucket
           /\ mover # 0 => /\ cur.table[bucket][mover] \in In(cur.table[bucket])
                           /\ HasToMove(cur.table[bucket][mover])
           /\ mover = 0 => \A a \in In(cur.table[bucket]) : ~ HasToMove(a)
<1>1. bucket \in 0 .. Buckets /\ cur.table \in Assertions
  BY UnderWay
<1>2. bucket \in Bucket
  BY <1>1, Counts DEF Bucket
<1>3. PICK list : list = cur.table[bucket]
  OBVIOUS
<1>4. Len(list) \in Nat
  BY <1>1, <1>2, <1>3, ListFacts
<1>5. PICK m : m = Mover(list)
  OBVIOUS
<1>6. mover = m
  BY <1>3, <1>5, Zenon DEF mover, Mover
<1>7. /\ m \in 0 .. Len(list)
      /\ m # 0 => HasToMove(list[m])
      /\ m = 0 => \A a \in In(list) : ~ HasToMove(a)
  BY <1>4, <1>5, MoverFacts
<1>8. m # 0 => list[m] \in In(list)
  BY <1>4, <1>7 DEF In
<1>9. QED BY <1>2, <1>3, <1>6, <1>7, <1>8

\* keynote_fix_fields moves an assertion to the bucket of its authorizer.
LEMMA Moves ==
    ASSUME IInv, Move
    PROVE  IInv'
<1> DEFINE v == Attribute(current)
           a == cur.table[bucket][mover]
           n == [a EXCEPT !.needproc = FALSE, !.processed = TRUE]
<1>1. /\ pc = "reposition" /\ pc' = pc /\ bucket < Buckets /\ bucket' = bucket
      /\ mover # 0 /\ n.auth # None
      /\ UNCHANGED sessioncounter /\ current' = current
      /\ Becomes(current, [cur EXCEPT !.table =
                     Adding(Without(cur.table, n.id), keyhash[n.auth], n)])
  BY DEF Move
<1>2. /\ Rest /\ SessionsOK /\ current \in Open /\ cur = sessions[current]
      /\ SessionOK(cur) /\ cur \in SessionType
      /\ cur.table \in Assertions /\ Unique(cur.table)
      /\ v \in Principal /\ bucket \in 0 .. Buckets
      /\ \A b \in Bucket : \A x \in In(cur.table[b]) :
             /\ x \in AssertionType /\ x.id < cur.counter /\ Kept(b, x)
             /\ Ready("reposition", bucket, v, b, x)
  BY <1>1, UnderWay
<1>3. bucket \in Bucket /\ a \in In(cur.table[bucket])
  BY <1>1, MoverIsIn
<1> HIDE DEF a
<1>4. /\ a \in AssertionType /\ a.id < cur.counter /\ Kept(bucket, a)
      /\ Ready("reposition", bucket, v, bucket, a)
  BY <1>2, <1>3
<1>5. a.auth # None
  BY <1>1, <1>4 DEF AssertionType
<1> HIDE DEF v
<1>6. PICK c : c = keyhash[a.auth]
  OBVIOUS
<1>21. PICK m : m = [a EXCEPT !.needproc = FALSE, !.processed = TRUE]
  OBVIOUS
<1> HIDE DEF n
<1>7. /\ m \in AssertionType /\ m.id = a.id /\ m.auth = a.auth
      /\ c \in Bucket /\ Kept(c, m) /\ Ready("reposition", bucket, v, c, m)
  <2>1. m \in AssertionType /\ m.id = a.id /\ m.auth = a.auth
    BY <1>4, <1>21 DEF AssertionType
  <2>2. keyhash[a.auth] \in Bucket /\ Kept(keyhash[a.auth], m)
    BY <1>3, <1>4, <1>5, <1>21, MovedFacts
  <2>3. Ready("reposition", bucket, v, keyhash[a.auth], m)
    BY <1>3, <1>4, <1>5, <1>21, MovedFacts
  <2>4. QED BY <1>6, <2>1, <2>2, <2>3
<1>8. PICK old, rest, table : /\ old = cur.table /\ rest = Without(old, m.id)
                              /\ table = Adding(rest, c, m)
  OBVIOUS
<1>9. old \in Assertions /\ Unique(old)
  BY <1>2, <1>8
<1>10. rest \in Assertions /\ Unique(rest)
  BY <1>8, <1>9, WithoutFacts
<1>11. FewerThan(rest, old, m.id)
  BY <1>8, <1>9, WithoutFacts
<1>12. \A b \in Bucket : \A x \in In(rest[b]) : x.id # m.id
  BY <1>11 DEF FewerThan
<1>13. table \in Assertions
  BY <1>7, <1>8, <1>10, <1>12, AddingFacts
<1>14. Unique(table)
  BY <1>7, <1>8, <1>10, <1>12, AddingFacts
<1>15. OneMoreThan(table, rest, c, m)
  BY <1>7, <1>8, <1>10, <1>12, AddingFacts
<1>16. ASSUME NEW b \in Bucket, NEW x \in In(table[b])
       PROVE  /\ x.id < cur.counter /\ Kept(b, x)
              /\ Ready("reposition", bucket, v, b, x)
  <2>1. CASE x \in In(rest[b])
    BY <1>2, <1>8, <1>11, <2>1 DEF v, FewerThan
  <2>2. CASE b = c /\ x = m
    BY <1>4, <1>7, <2>2
  <2>3. QED BY <1>15, <2>1, <2>2 DEF OneMoreThan
<1> DEFINE new == [cur EXCEPT !.table = table]
<1>17. SessionOK(new) /\ new.table = table /\ new.env = cur.env
  BY <1>2, <1>13, <1>14, <1>16, OtherTable
<1>18. Becomes(current, new)
  BY <1>1, <1>6, <1>7, <1>8, <1>21 DEF n
<1> HIDE DEF new
<1>19. \A b \in Bucket : \A x \in In(new.table[b]) :
           Ready(pc', bucket', Attribute(current), b, x)
  BY <1>1, <1>16, <1>17 DEF v
<1>20. QED
  BY <1>1, <1>2, <1>17, <1>18, <1>19, StepKeepsOrder

\* It finds one without an authorizer, and the query fails.
LEMMA MovesNot ==
    ASSUME IInv, MoveFails
    PROVE  IInv'
<1>1. /\ pc = "reposition" /\ pc' = "idle" /\ bucket' = bucket
      /\ UNCHANGED sessioncounter /\ current' = current
  BY DEF MoveFails
<1>2. PICK id : Becomes(current, [cur EXCEPT !.table = Without(cur.table, id)])
  BY DEF MoveFails
<1>3. /\ Rest /\ SessionsOK /\ current \in Open /\ cur = sessions[current]
      /\ SessionOK(cur) /\ bucket \in 0 .. Buckets
  BY <1>1, UnderWay
<1> DEFINE new == [cur EXCEPT !.table = Without(cur.table, id)]
<1>4. SessionOK(new) /\ new.env = cur.env
  BY <1>3, FewerAssertions
<1>5. Becomes(current, new)
  BY <1>2
<1> HIDE DEF new
<1>6. QED BY <1>1, <1>3, <1>4, <1>5, StepKeepsOrder

\* The loop over the buckets comes on: what it leaves behind is in its place.
LEMMA LoopComesOn ==
    ASSUME IInv, NextBucket \/ AllInPlace
    PROVE  IInv'
<1> DEFINE v == Attribute(current)
<1>1. /\ pc = "reposition" /\ UNCHANGED sessions /\ UNCHANGED sessioncounter
      /\ current' = current
  BY DEF NextBucket, AllInPlace
<1>2. /\ Rest /\ SessionsOK /\ current \in Open
      /\ bucket \in 0 .. Buckets /\ bucket \in Nat
      /\ \A b \in Bucket : \A x \in In(cur.table[b]) :
             Ready("reposition", bucket, v, b, x)
  BY <1>1, UnderWay
<1>3. /\ pc' \in {"reposition", "evaluate"} /\ bucket' \in 0 .. Buckets
      /\ \A b \in Bucket : \A x \in In(cur.table[b]) : Ready(pc', bucket', v, b, x)
  <2>1. CASE NextBucket
    <3>1. /\ pc' = "reposition" /\ bucket < Buckets /\ mover = 0
          /\ bucket' = bucket + 1
      BY <1>1, <2>1 DEF NextBucket
    <3>2. \A x \in In(cur.table[bucket]) : ~ HasToMove(x)
      BY <1>1, <3>1, MoverIsIn
    <3>3. ASSUME NEW b \in Bucket, NEW x \in In(cur.table[b])
          PROVE  Ready("reposition", bucket + 1, v, b, x)
      <4>1. Ready("reposition", bucket, v, b, x)
        BY <1>2
      <4>2. b < bucket + 1 => b = bucket \/ b < bucket
        BY <1>2, Counts
      <4>3. b < bucket + 1 => ~ HasToMove(x)
        BY <3>2, <4>1, <4>2 DEF Ready
      <4>4. QED BY <4>1, <4>3 DEF Ready
    <3>4. bucket + 1 \in 0 .. Buckets
      BY <1>2, <3>1, Counts
    <3>5. QED BY <3>1, <3>3, <3>4
  <2>2. CASE AllInPlace
    <3>1. pc' = "evaluate" /\ bucket = Buckets /\ bucket' = 0
      BY <2>2 DEF AllInPlace
    <3>2. ASSUME NEW b \in Bucket, NEW x \in In(cur.table[b])
          PROVE  Ready("evaluate", 0, v, b, x)
      <4>1. Ready("reposition", bucket, v, b, x)
        BY <1>2
      <4>2. b < bucket
        BY <3>1, Counts DEF Bucket
      <4>3. ~ HasToMove(x)
        BY <4>1, <4>2 DEF Ready
      <4>4. QED BY <4>1, <4>3 DEF Ready
    <3>3. 0 \in 0 .. Buckets
      BY Counts
    <3>4. QED BY <3>1, <3>2, <3>3
  <2>3. QED BY <2>1, <2>2
<1>4. Open' = Open /\ cur' = cur /\ Attribute(current)' = v
  BY <1>1 DEF Open, cur, Attribute
<1>5. \A s \in Open : sessions'[s] = sessions[s]
  BY <1>1
<1>6. sessions' = [s \in Open' |-> sessions'[s]]
  BY <1>1, <1>2, <1>4 DEF Rest
<1> HIDE DEF v
<1>7. Rest'
  BY <1>1, <1>2, <1>3, <1>4, <1>6 DEF Rest
<1>8. SessionsOK'
  BY <1>2, <1>4, <1>5 DEF SessionsOK
<1>9. QueryOK'
  BY <1>3, <1>4 DEF QueryOK
<1>10. QED BY <1>7, <1>8, <1>9 DEF IInv

\* What a verdict makes of an assertion whose fields are those of now.
Verdict(a) == IF a.text.local \/ Verifies(a) THEN "true" ELSE "false"
\* Such a verdict is on the signature of now.
LEMMA JudgedFacts ==
    ASSUME NEW b \in Bucket, NEW a \in AssertionType, Kept(b, a), NEW k, NEW v,
           Ready("evaluate", k, v, b, a), a.sigresult = "untouched",
           NEW n, n = [a EXCEPT !.sigresult = Verdict(a)]
    PROVE  n \in AssertionType /\ n.id = a.id /\ Kept(b, n)
<1>1. /\ n \in AssertionType
      /\ n.id = a.id /\ n.text = a.text /\ n.auth = a.auth /\ n.lics = a.lics
      /\ n.sig = a.sig /\ n.needproc = a.needproc /\ n.sigresult = Verdict(a)
  BY DEF AssertionType, Verdict
<1>2. ~ n.needproc
  BY <1>1 DEF Ready, HasToMove
<1>3. Verifies(n) <=> Verifies(a)
  BY <1>1 DEF Verifies
<1>4. ~ n.text.local => (n.sigresult = "true" <=> Verifies(n))
  BY <1>1, <1>3 DEF Verdict
<1>5. /\ n.auth # None /\ n.text.auth # Bad
      /\ n.text.auth # Var => n.auth = n.text.auth /\ b = keyhash[n.auth]
      /\ n.text.sig # Var => n.sig = n.text.sig
      /\ n.text.lics # Var =>
             n.lics = IF n.text.lics = Bad THEN None ELSE n.text.lics
  BY <1>1, <1>2 DEF Kept
<1>6. Kept(b, n)
  BY <1>2, <1>4, <1>5 DEF Kept
<1>7. QED BY <1>1, <1>6

\* The search judges some of the assertions that have no verdict yet.
LEMMA QueryIsEvaluated ==
    ASSUME IInv, keynote_evaluate_query
    PROVE  IInv'
<1> DEFINE v == Attribute(current)
<1>1. /\ pc = "evaluate" /\ pc' = "idle" /\ bucket' = bucket
      /\ UNCHANGED sessioncounter /\ current' = current
  BY DEF keynote_evaluate_query
<1>2. /\ Rest /\ SessionsOK /\ current \in Open /\ cur = sessions[current]
      /\ SessionOK(cur) /\ cur \in SessionType
      /\ cur.table \in Assertions /\ Unique(cur.table)
      /\ bucket \in 0 .. Buckets
      /\ \A b \in Bucket : \A a \in In(cur.table[b]) :
             /\ a \in AssertionType /\ a.id < cur.counter /\ Kept(b, a)
             /\ Ready("evaluate", bucket, v, b, a)
  BY <1>1, UnderWay
<1>3. PICK ids : Becomes(current, [cur EXCEPT !.table =
          [b \in Bucket |-> [i \in DOMAIN cur.table[b] |->
          IF /\ cur.table[b][i].id \in ids
             /\ cur.table[b][i].sigresult = "untouched"
          THEN [cur.table[b][i] EXCEPT !.sigresult =
                   IF cur.table[b][i].text.local \/ Verifies(cur.table[b][i])
                   THEN "true" ELSE "false"]
          ELSE cur.table[b][i]]]])
  BY DEF keynote_evaluate_query, EachAssertion
<1> DEFINE f == [a \in AssertionType |->
                    IF a.id \in ids /\ a.sigresult = "untouched"
                    THEN [a EXCEPT !.sigresult = Verdict(a)] ELSE a]
<1>4. PICK table : table =
          [b \in Bucket |-> [i \in DOMAIN cur.table[b] |->
          IF /\ cur.table[b][i].id \in ids
             /\ cur.table[b][i].sigresult = "untouched"
          THEN [cur.table[b][i] EXCEPT !.sigresult =
                   IF cur.table[b][i].text.local \/ Verifies(cur.table[b][i])
                   THEN "true" ELSE "false"]
          ELSE cur.table[b][i]]]
  OBVIOUS
<1>5. f \in [AssertionType -> AssertionType]
  <2>1. \A a \in AssertionType : [a EXCEPT !.sigresult = Verdict(a)] \in AssertionType
    BY DEF AssertionType, Verdict
  <2>2. QED BY <2>1
<1>6. \A a \in AssertionType : f[a].id = a.id
  BY DEF AssertionType
<1>7. table = [b \in Bucket |-> [i \in DOMAIN cur.table[b] |-> f[cur.table[b][i]]]]
  <2>1. \A b \in Bucket : \A i \in DOMAIN cur.table[b] :
            cur.table[b][i] \in AssertionType
    BY <1>2 DEF Assertions
  <2>2. table = [b \in Bucket |-> [i \in DOMAIN cur.table[b] |->
                     IF /\ cur.table[b][i].id \in ids
                        /\ cur.table[b][i].sigresult = "untouched"
                     THEN [cur.table[b][i] EXCEPT
                              !.sigresult = Verdict(cur.table[b][i])]
                     ELSE cur.table[b][i]]]
    BY <1>4 DEF Verdict
  <2>3. QED BY <2>1, <2>2
<1>8. ASSUME NEW b \in Bucket, NEW a \in In(cur.table[b])
      PROVE  Kept(b, f[a])
  <2>1. /\ a \in AssertionType /\ Kept(b, a)
        /\ Ready("evaluate", bucket, v, b, a)
    BY <1>2
  <2>2. CASE a.id \in ids /\ a.sigresult = "untouched"
    <3>1. f[a] = [a EXCEPT !.sigresult = Verdict(a)]
      BY <2>1, <2>2
    <3> HIDE DEF f, v
    <3>2. PICK n : n = [a EXCEPT !.sigresult = Verdict(a)]
      OBVIOUS
    <3>3. Kept(b, n)
      BY <2>1, <2>2, <3>2, JudgedFacts
    <3>4. QED BY <3>1, <3>2, <3>3
  <2>3. CASE ~ (a.id \in ids /\ a.sigresult = "untouched")
    BY <2>1, <2>3
  <2>4. QED BY <2>2, <2>3
<1> HIDE DEF f
<1>9. /\ table \in Assertions /\ Unique(table)
      /\ \A b \in Bucket : In(table[b]) = Images(f, cur.table[b])
  <2>1. PICK old : old = cur.table
    OBVIOUS
  <2>2. /\ old \in Assertions /\ Unique(old)
        /\ table = [b \in Bucket |-> [i \in DOMAIN old[b] |-> f[old[b][i]]]]
    BY <1>2, <1>7, <2>1
  <2>3. table \in Assertions
    BY <1>5, <1>6, <2>2, EachFacts
  <2>4. Unique(table)
    BY <1>5, <1>6, <2>2, EachFacts
  <2>5. \A b \in Bucket : In(table[b]) = Images(f, old[b])
    BY <1>5, <1>6, <2>2, EachFacts
  <2>6. QED BY <2>1, <2>3, <2>4, <2>5
<1>10. ASSUME NEW b \in Bucket, NEW n \in In(table[b])
       PROVE  n.id < cur.counter /\ Kept(b, n)
  <2>1. PICK a \in In(cur.table[b]) : n = f[a]
    BY <1>9 DEF Images
  <2>2. QED BY <1>2, <1>6, <1>8, <2>1
<1> DEFINE new == [cur EXCEPT !.table = table]
<1>11. SessionOK(new) /\ new.env = cur.env
  BY <1>2, <1>9, <1>10, OtherTable
<1>12. Becomes(current, new)
  BY <1>3, <1>4
<1> HIDE DEF new
<1>13. QED
  BY <1>1, <1>2, <1>11, <1>12, StepKeepsOrder

-------------------------------------------------------------------------------
(***************************************************************************)
(* The theorems.                                                           *)
(***************************************************************************)
\* The inductive invariant: every session is in order, and so is the query.
THEOREM Inductive == Spec => []IInv
<1>1. Init => IInv
  <2> SUFFICES ASSUME Init PROVE IInv
    OBVIOUS
  <2>1. Open = {}
    BY DEF Init, Open
  <2>2. Rest
    BY <2>1, Counts DEF Init, Rest
  <2>3. QED BY <2>1, <2>2 DEF Init, IInv, SessionsOK, QueryOK
<1>2. IInv /\ [Next]_vars => IInv'
  <2> SUFFICES ASSUME IInv, [Next]_vars PROVE IInv'
    OBVIOUS
  <2>1. CASE kn_init
    BY <2>1, Opens
  <2>2. CASE NotFound
    <3>1. /\ UNCHANGED sessions /\ pc' = "idle" /\ current' = None
          /\ UNCHANGED <<sessioncounter, bucket>>
      BY <2>2 DEF NotFound, Quiet
    <3>2. QED BY <3>1, NothingChanges
  <2>3. ASSUME NEW s \in Open, Call(s) PROVE IInv'
    <3>1. CASE kn_close(s)
      BY <3>1, Closes
    <3>2. CASE \/ \E v \in Key : kn_add_action(s, v)
               \/ kn_remove_action(s) \/ kn_cleanup_action_environment(s)
      BY <3>2, AttributesChange
    <3>3. CASE \E k \in Key : kn_add_authorizer(s, k) \/ kn_remove_authorizer(s, k)
      BY <3>3, AuthorizersChange
    <3>4. CASE \E t \in Texts : kn_add_assertion(s, t)
      BY <3>4, AssertionComes
    <3>5. CASE \/ \E id \in 0 .. MaxAssertions - 1 : kn_remove_assertion(s, id)
               \/ RemoveFailed(s)
      BY <3>5, AssertionGoes
    <3>6. ASSUME NEW given \in BOOLEAN, kn_do_query(s, given) PROVE IInv'
      BY <3>6, QueryStarts
    <3>7. ASSUME NEW given \in BOOLEAN, QueryRefused(s, given) PROVE IInv'
      <4>1. /\ UNCHANGED sessions /\ pc' = "idle" /\ current' \in Open
            /\ UNCHANGED <<sessioncounter, bucket>>
        BY <3>7 DEF QueryRefused, Switch, Quiet
      <4>2. QED BY <4>1, NothingChanges
    <3>8. QED
      BY <2>3, <3>1, <3>2, <3>3, <3>4, <3>5, <3>6, <3>7 DEF Call
  <2>4. CASE QueryStep
    <3>1. CASE keynote_fix_fields
      BY <3>1, FieldsAreFixed
    <3>2. CASE Move
      BY <3>2, Moves
    <3>3. CASE MoveFails
      BY <3>3, MovesNot
    <3>4. CASE NextBucket \/ AllInPlace
      BY <3>4, LoopComesOn
    <3>5. CASE keynote_evaluate_query
      BY <3>5, QueryIsEvaluated
    <3>6. QED BY <2>4, <3>1, <3>2, <3>3, <3>4, <3>5 DEF QueryStep
  <2>5. CASE UNCHANGED vars
    BY <2>5, NothingHappens
  <2>6. QED BY <2>1, <2>2, <2>3, <2>4, <2>5 DEF Next
<1>3. QED BY <1>1, <1>2, PTL DEF Spec

\* What is in a bucket of a table is one of its entries.
LEMMA EntryFacts ==
    ASSUME NEW table \in Assertions, NEW e \in Entries(table)
    PROVE  /\ e = <<e[1], e[2]>> /\ e[1] \in Bucket
           /\ e[2] \in 1 .. Len(table[e[1]])
           /\ table[e[1]][e[2]] \in In(table[e[1]])
<1>1. PICK b \in Bucket : e \in {<<b, i>> : i \in DOMAIN table[b]}
  BY DEF Entries
<1>2. PICK i \in DOMAIN table[b] : e = <<b, i>>
  BY <1>1
<1>3. i \in 1 .. Len(table[b])
  BY ListFacts
<1>4. QED BY <1>2, <1>3 DEF In

\* The variables keep their types, and a query is under way only in a session.
THEOREM TypeCorrect == Spec => []TypeOK
<1>1. IInv => TypeOK
  <2> SUFFICES ASSUME IInv PROVE TypeOK
    OBVIOUS
  <2>1. ASSUME NEW s \in Open
        PROVE  /\ sessions[s].env \in Seq(Key) /\ sessions[s].auths \in Seq(Key)
               /\ sessions[s].counter \in 0 .. MaxAssertions
               /\ sessions[s].values \in BOOLEAN
               /\ DOMAIN sessions[s].table = Bucket
               /\ \A b \in Bucket : \A i \in DOMAIN sessions[s].table[b] :
                      sessions[s].table[b][i] \in AssertionType
    <3>1. sessions[s] \in SessionType
      BY DEF IInv, SessionsOK, SessionOK
    <3>2. sessions[s].table \in Assertions
      BY <3>1 DEF SessionType
    <3>3. QED BY <3>1, <3>2 DEF SessionType, Assertions
  <2>2. pc # "idle" => current # None
    <3>1. \A s \in Open : s # None
      BY SessionAssumption DEF IInv, Rest
    <3>2. QED BY <3>1 DEF IInv, Rest
  <2>3. QED BY <2>1, <2>2 DEF IInv, Rest, TypeOK
<1>2. QED BY <1>1, Inductive, PTL

\* An assertion is in the hash table once, whatever was moved between its
\* buckets by the queries and removed between them (keynote_fix_fields,
\* keynote_remove_assertion).
THEOREM AssertionsHaveOnePlace == Spec => []UniquePlace
<1>1. IInv /\ TypeOK => UniquePlace
  <2> SUFFICES ASSUME IInv, TypeOK, NEW s \in Open,
                      NEW e \in Entries(sessions[s].table),
                      NEW f \in Entries(sessions[s].table),
                      sessions[s].table[e[1]][e[2]].id
                          = sessions[s].table[f[1]][f[2]].id
               PROVE  e = f
    BY DEF UniquePlace
  <2>1. PICK table : table = sessions[s].table
    OBVIOUS
  <2>2. table \in Assertions /\ Unique(table)
    BY <2>1 DEF IInv, SessionsOK, SessionOK, SessionType
  <2>3. /\ e = <<e[1], e[2]>> /\ e[1] \in Bucket /\ e[2] \in 1 .. Len(table[e[1]])
        /\ f = <<f[1], f[2]>> /\ f[1] \in Bucket /\ f[2] \in 1 .. Len(table[f[1]])
    BY <2>1, <2>2, EntryFacts
  <2>4. e[1] = f[1] /\ e[2] = f[2]
    BY <2>1, <2>2, <2>3 DEF Unique
  <2>5. QED BY <2>3, <2>4
<1>2. QED BY <1>1, Inductive, TypeCorrect, PTL

\* What a query evaluates are the texts under the attributes of now, whatever
\* the queries before it left (keynote_fix_fields), and each assertion is where
\* keynote_find_assertion looks for it.
THEOREM QueriesSeeThePresent == Spec => []QuerySeesPresent
<1>1. IInv => QuerySeesPresent
  <2> SUFFICES ASSUME IInv, pc = "evaluate", NEW e \in Entries(cur.table),
                      NEW a, a = cur.table[e[1]][e[2]]
               PROVE  /\ ~ a.needproc
                      /\ a.auth = Resolve(a.text.auth, current)
                      /\ a.sig = Resolve(a.text.sig, current)
                      /\ a.lics = IF a.text.lics = Bad THEN None
                                  ELSE Resolve(a.text.lics, current)
                      /\ e[1] = keyhash[a.auth]
    BY DEF QuerySeesPresent
  <2>1. /\ cur.table \in Assertions
        /\ \A b \in Bucket : \A x \in In(cur.table[b]) :
               /\ x \in AssertionType /\ Kept(b, x)
               /\ Ready("evaluate", bucket, Attribute(current), b, x)
    BY UnderWay
  <2>2. e[1] \in Bucket /\ a \in In(cur.table[e[1]])
    BY <2>1, EntryFacts
  <2>3. /\ Kept(e[1], a)
        /\ Ready("evaluate", bucket, Attribute(current), e[1], a)
    BY <2>1, <2>2
  <2>4. ~ HasToMove(a) /\ ~ a.needproc
    BY <2>3 DEF Ready, HasToMove
  <2>5. a.text.auth # Bad /\ e[1] = keyhash[a.auth]
    BY <2>3, <2>4 DEF Ready, Kept
  <2>6. QED BY <2>3, <2>4, <2>5 DEF Ready, Value, Resolve
<1>2. QED BY <1>1, Inductive, PTL

\* A verdict that is kept from an earlier query is that on the signature of now
\* (kn_do_query, keynote_evaluate_query).
THEOREM VerdictsAreOfNow == Spec => []SignaturesAreCurrent
<1>1. IInv => SignaturesAreCurrent
  <2> SUFFICES ASSUME IInv, pc = "evaluate", NEW a \in InTable(current),
                      ~ a.text.local, a.text.auth # Var,
                      a.sigresult # "untouched"
               PROVE  a.sigresult = "true" <=> Verifies(a)
    BY DEF SignaturesAreCurrent
  <2>1. /\ cur = sessions[current] /\ cur.table \in Assertions
        /\ \A b \in Bucket : \A x \in In(cur.table[b]) :
               /\ Kept(b, x)
               /\ Ready("evaluate", bucket, Attribute(current), b, x)
    BY UnderWay
  <2>2. PICK e \in Entries(cur.table) : a = cur.table[e[1]][e[2]]
    BY <2>1 DEF InTable
  <2>3. e[1] \in Bucket /\ a \in In(cur.table[e[1]])
    BY <2>1, <2>2, EntryFacts
  <2>4. /\ Kept(e[1], a)
        /\ Ready("evaluate", bucket, Attribute(current), e[1], a)
    BY <2>1, <2>3
  <2>5. a.text.sig # Var
    BY <2>4 DEF Ready
  <2>6. QED BY <2>4, <2>5 DEF Kept
<1>2. QED BY <1>1, Inductive, PTL
===============================================================================
