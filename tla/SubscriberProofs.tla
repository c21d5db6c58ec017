--------------------------- MODULE SubscriberProofs ---------------------------
(***************************************************************************)
(* What Subscriber says of a subscriber and the policy modules, for any    *)
(* number of KeyStores, any threshold and any number of faults.            *)
(***************************************************************************)
EXTENDS Subscriber, FiniteSets, SequenceTheorems, FiniteSetTheorems, TLAPS

\* Nobody has a share, and the subscriber no credential message, that the
\* publisher has not made.
KnownTo(i) ==
    /\ file[i] <= topic_key /\ saving[i] <= topic_key
    /\ \A n \in 1 .. Len(queue[i]) : queue[i][n] <= topic_key
Known ==
    /\ cr <= topic_key /\ newest <= topic_key /\ reply <= topic_key
    /\ \A p \in 1 .. Len(strshares) : strshares[p] <= topic_key
    /\ \A i \in KS : KnownTo(i)

\* KeyStore i has no share older than k any more, and will not get one: not in
\* its file, nor from what it is saving or from its queue.
Newer(f, s, q, k) ==
    /\ f > 0 => f >= k
    /\ s > 0 => s >= k
    /\ \A n \in 1 .. Len(q) : q[n] >= k

AtLeast(i, k) == Newer(file[i], saving[i], queue[i], k)

\* The shares of a KeyStore are in the order in which they were sent.
OrderOf(i) ==
    /\ AtLeast(i, file[i])
    /\ \A n \in 1 .. Len(queue[i]) :
           /\ saving[i] > 0 => queue[i][n] >= saving[i]
           /\ \A m \in 1 .. n : queue[i][m] <= queue[i][n]
InOrder == \A i \in KS : OrderOf(i)

\* ComShare and the connections: the only one that the subscriber can get an
\* answer from is that to the policy module it is at.
Asking ==
    /\ pc = "loop" => strshares = <<>>
    /\ pc = "GetShare" => ksid <= KSN_NUM /\ Len(strshares) < SSS_T
    /\ pc # "GetShare" => reply = NULL
    /\ \A i \in KS : \A n \in 1 .. Len(backlog[i]) : backlog[i][n] = "live" =>
           /\ pc = "GetShare" /\ i = ksid /\ reply = NULL
           /\ \A m \in 1 .. Len(backlog[i]) : backlog[i][m] = "live" => m = n

\* The KeyStores in A had a share of the newest topic key that the subscriber
\* has joined, and src[p] is the one that gave it its p-th answer.
Backed(A, src) ==
    /\ newest > 0 => Cardinality(A) >= SSS_T
    /\ \A i \in A : AtLeast(i, newest)
    /\ \A p \in 1 .. Len(strshares) :
           /\ src[p] < ksid
           /\ \A q \in 1 .. Len(strshares) : src[p] = src[q] => p = q
           /\ strshares[p] > 0 =>
                  /\ AtLeast(src[p], strshares[p])
                  /\ src[p] \in A => strshares[p] >= newest
    /\ reply > 0 => /\ AtLeast(ksid, reply)
                    /\ ksid \in A => reply >= newest

Quorate ==
    /\ \E A \in SUBSET KS : \E src \in [1 .. Len(strshares) -> KS] :
           Backed(A, src)
    /\ 2 * SSS_T > KSN_NUM /\ session_key > 0 => session_key >= newest

\* Each crash leaves at most one verdict behind: it has judged a request, or
\* still waits in the output file.
LeftBehind ==
    \A i \in KS : stale[i] + (IF output[i] = "none" THEN 0 ELSE 1) <= crashed[i]

NeverCrashed == \A i \in KS : crashed[i] = 0

\* The last share on its way to a file.
LastShare(i) ==
    IF queue[i] # <<>> THEN queue[i][Len(queue[i])]
    ELSE IF saving[i] # NULL THEN saving[i] ELSE file[i]

\* Without a fault or a crash: every KeyStore gets the latest share, every
\* policy module answers, and all the answers are shares of it when the last
\* credential message has come.
Serving(i) ==
    /\ pem[i] = "accept"
    /\ \A n \in 1 .. Len(backlog[i]) : backlog[i][n] = "live"
    /\ LastShare(i) = topic_key
UpToDate ==
    /\ Len(strshares) = ksid - 1
    /\ pc = "loop" /\ cr = 0 => session_key = topic_key
    /\ pc # "loop" => topic_key > 0
    /\ pc = "GetShare" /\ reply = NULL =>
           \E n \in 1 .. Len(backlog[ksid]) : backlog[ksid][n] = "live"
    /\ pc # "loop" /\ cr = 0 =>
           /\ KeyStoresAreDone
           /\ \A p \in 1 .. Len(strshares) : strshares[p] = topic_key
           /\ reply \in {NULL, topic_key}
Undisturbed ==
    faults = 0 /\ NeverCrashed => (\A i \in KS : Serving(i)) /\ UpToDate

IInv ==
    /\ TypeOK /\ Known /\ InOrder /\ Asking
    /\ Quorate /\ LeftBehind /\ Undisturbed

-------------------------------------------------------------------------------
(***************************************************************************)
(* The types.                                                              *)
(***************************************************************************)
LEMMA AppendFacts ==
    ASSUME NEW S, NEW s \in Seq(S), NEW e \in S
    PROVE  /\ Append(s, e) \in Seq(S) /\ Len(s) \in Nat
           /\ Len(Append(s, e)) = Len(s) + 1
           /\ \A n \in 1 .. Len(s) + 1 :
                  Append(s, e)[n] = IF n = Len(s) + 1 THEN e ELSE s[n]
           /\ \A n \in 1 .. Len(s) : s[n] \in S
<1>1. Len(s) \in Nat /\ \A n \in 1 .. Len(s) : s[n] \in S
  BY LenProperties, ElementOfSeq
<1>2. Append(s, e) \in Seq(S) /\ Len(Append(s, e)) = Len(s) + 1
  BY AppendProperties
<1>3. \A n \in 1 .. Len(s) + 1 :
          Append(s, e)[n] = IF n = Len(s) + 1 THEN e ELSE s[n]
  BY <1>1, AppendProperties
<1>4. QED BY <1>1, <1>2, <1>3

\* A queue without its first message.
LEMMA TailFacts ==
    ASSUME NEW S, NEW s \in Seq(S), s # <<>>
    PROVE  /\ Head(s) = s[1] /\ Head(s) \in S
           /\ Len(s) \in Nat \ {0}
           /\ Tail(s) \in Seq(S) /\ Len(Tail(s)) = Len(s) - 1
           /\ \A n \in 1 .. Len(s) - 1 : Tail(s)[n] = s[n + 1]
           /\ \A n \in 1 .. Len(s) : s[n] \in S
<1>1. Len(s) \in Nat \ {0} /\ \A n \in 1 .. Len(s) : s[n] \in S
  BY EmptySeq, LenProperties, ElementOfSeq
<1>2. /\ Head(s) = s[1] /\ Tail(s) \in Seq(S) /\ Len(Tail(s)) = Len(s) - 1
      /\ \A n \in 1 .. Len(s) - 1 : Tail(s)[n] = s[n + 1]
  BY <1>1, HeadTailProperties
<1>3. s[1] \in S
  BY <1>1
<1>4. QED BY <1>1, <1>2, <1>3

\* The bounds are numbers.
LEMMA Counts ==
    /\ KSN_NUM \in Nat /\ SSS_T \in Nat \ {0} /\ SSS_T <= KSN_NUM
    /\ MaxFaults \in Nat /\ MaxKey \in Nat
    /\ KS \in SUBSET Nat
    /\ NULL = 0 /\ Garbage = -1 /\ Refusal = -2 /\ Empty = -3
BY QuorumAssumption DEF KS, NULL, Garbage, Refusal, Empty

\* A fault is counted.
LEMMA FaultType ==
    ASSUME TypeOK, (\E kind : Fault(kind)) \/ NoFault
    PROVE  faults' \in 0 .. MaxFaults /\ (faults' = 0 => faults = 0 /\ NoFault)
BY Counts DEF TypeOK, Fault, NoFault

\* What the answers are joined to is a key, or garbage, and it is a key only
\* if all the answers are shares of it.
LEMMA JoinedFacts ==
    ASSUME TypeOK
    PROVE  /\ Combined \in Garbage .. MaxKey
           /\ Combined > 0 =>
                  /\ Len(strshares) >= SSS_T
                  /\ \A p \in 1 .. Len(strshares) : strshares[p] = Combined
<1>1. CASE Len(strshares) < SSS_T
  <2>1. Combined = NULL
    BY <1>1 DEF Combined
  <2>2. QED BY <2>1, Counts
<1>2. CASE ~ (Len(strshares) < SSS_T)
  <2>1. Combined = Joined
    BY <1>2 DEF Combined
  <2>2. Len(strshares) \in Nat /\ Len(strshares) >= SSS_T /\ 1 \in 1 .. Len(strshares)
    BY <1>2, LenProperties, Counts DEF TypeOK
  <2>3. strshares[1] \in Refusal .. MaxKey
    BY <2>2, ElementOfSeq DEF TypeOK
  <2>4. CASE /\ strshares[1] > 0
             /\ \A p \in 1 .. Len(strshares) : strshares[p] = strshares[1]
    <3>1. Joined = strshares[1]
      BY <2>4 DEF Joined
    <3>2. QED BY <2>1, <2>2, <2>3, <2>4, <3>1, Counts
  <2>5. CASE ~ /\ strshares[1] > 0
               /\ \A p \in 1 .. Len(strshares) : strshares[p] = strshares[1]
    <3>1. Joined = Garbage
      BY <2>5 DEF Joined
    <3>2. QED BY <2>1, <3>1, Counts
  <2>6. QED BY <2>4, <2>5
<1>3. QED BY <1>1, <1>2

\* A count that goes up by one, or stays.
LEMMA CountedUp ==
    ASSUME NEW f \in [KS -> Nat], NEW i \in KS, NEW g,
           g = f \/ g = [f EXCEPT ![i] = @ + 1]
    PROVE  /\ g \in [KS -> Nat]
           /\ \A j \in KS : g[j] >= f[j] /\ (j # i => g[j] = f[j])
<1>1. \A j \in KS : f[j] \in Nat /\ f[j] + 1 \in Nat
  OBVIOUS
<1>2. CASE g = f
  BY <1>1, <1>2
<1>3. CASE g = [f EXCEPT ![i] = @ + 1]
  <2>1. g = [j \in KS |-> IF j = i THEN f[i] + 1 ELSE f[j]]
    BY <1>3
  <2>2. QED BY <1>1, <2>1
<1>4. QED BY <1>2, <1>3

\* What a request does to policy module i and to the answer.
LEMMA EvaluateFacts ==
    ASSUME TypeOK, NEW i \in KS, Evaluate(i)
    PROVE  /\ backlog[i] # <<>> /\ pem[i] = "accept"
           /\ \/ /\ pem' = pem /\ crashed' = crashed
                 /\ backlog' = [backlog EXCEPT ![i] = Tail(@)]
                 /\ \/ reply' = reply /\ Head(backlog[i]) # "live"
                    \/ /\ reply' \in {file[i], Garbage, Refusal}
                       /\ reply' \in Refusal .. MaxKey \ {NULL}
                       /\ Head(backlog[i]) = "live"
              \/ /\ pem' = [pem EXCEPT ![i] = "down"]
                 /\ backlog' = [backlog EXCEPT ![i] = <<>>]
                 /\ crashed' = [crashed EXCEPT ![i] = @ + 1] /\ reply' = reply
           /\ UNCHANGED <<keyVars, cr, pc, ksid, strshares, session_key, newest>>
           /\ (\E kind : Fault(kind)) \/ NoFault
<1>1. file[i] \in (Garbage .. MaxKey) \cup {Empty}
  BY DEF TypeOK
<1>2. PICK verdict \in {"authorized", "unauthorixed"} :
          /\ IF verdict = "authorized" THEN NoFault ELSE Fault("refuse")
          /\ IF IsAuthorized(i, verdict) = "authorized"
             THEN ReadShare(i) ELSE Answer(i, Refusal)
  BY DEF Evaluate
<1>3. \/ \E a \in {file[i], Garbage, Refusal} :
              a \in Refusal .. MaxKey \ {NULL} /\ Answer(i, a)
      \/ Crash(i)
  <2>1. CASE Answer(i, Refusal)
    BY <2>1, Counts
  <2>2. CASE ReadShare(i)
    <3>1. CASE file[i] \notin {NULL, Empty} /\ Answer(i, file[i])
      <4>1. file[i] \in Refusal .. MaxKey \ {NULL}
        BY <1>1, <3>1, Counts
      <4>2. QED BY <3>1, <4>1
    <3>2. CASE Answer(i, Garbage)
      BY <3>2, Counts
    <3>3. QED BY <2>2, <3>1, <3>2 DEF ReadShare
  <2>3. QED BY <1>2, <2>1, <2>2
<1>4. /\ backlog[i] # <<>> /\ pem[i] = "accept"
      /\ UNCHANGED <<keyVars, cr, pc, ksid, strshares, session_key, newest>>
  BY DEF Evaluate
<1>5. (\E kind : Fault(kind)) \/ NoFault
  BY <1>2
<1>6. CASE Crash(i)
  BY <1>4, <1>5, <1>6 DEF Crash
<1>7. ASSUME NEW a \in {file[i], Garbage, Refusal},
             a \in Refusal .. MaxKey \ {NULL}, Answer(i, a)
      PROVE  /\ pem' = pem /\ crashed' = crashed
             /\ backlog' = [backlog EXCEPT ![i] = Tail(@)]
             /\ \/ reply' = reply /\ Head(backlog[i]) # "live"
                \/ /\ reply' \in {file[i], Garbage, Refusal}
                   /\ reply' \in Refusal .. MaxKey \ {NULL}
                   /\ Head(backlog[i]) = "live"
  BY <1>7 DEF Answer
<1>8. QED BY <1>3, <1>4, <1>5, <1>6, <1>7

\* What Send and a KeyStore do to the queues.
LEMMA SendFacts ==
    ASSUME TypeOK, topic_key < MaxKey, topic_key' = topic_key + 1, NEW m,
           queue' = Send(m)
    PROVE  /\ topic_key' \in 1 .. MaxKey
           /\ queue' \in [KS -> Seq(1 .. MaxKey)]
           /\ \A i \in KS :
                  \/ i <= m /\ queue'[i] = Append(queue[i], topic_key')
                  \/ ~ (i <= m) /\ queue'[i] = queue[i]
<1>1. topic_key' \in 1 .. MaxKey
  BY Counts DEF TypeOK
<1>2. \A i \in KS : queue[i] \in Seq(1 .. MaxKey)
  BY DEF TypeOK
<1>3. \A i \in KS : Append(queue[i], topic_key') \in Seq(1 .. MaxKey)
  BY <1>1, <1>2, AppendFacts
<1>4. queue' = [i \in KS |-> IF i <= m THEN Append(queue[i], topic_key')
                                       ELSE queue[i]]
  BY DEF Send
<1>5. queue' \in [KS -> Seq(1 .. MaxKey)]
  BY <1>2, <1>3, <1>4
<1>6. QED BY <1>1, <1>4, <1>5

\* SecSessionKeyUpdate sends shares of one key more.
LEMMA UpdateFacts ==
    ASSUME SecSessionKeyUpdate
    PROVE  /\ topic_key < MaxKey /\ topic_key' = topic_key + 1
           /\ \/ NoFault /\ queue' = Send(KSN_NUM) /\ cr' = cr + 1
              \/ Fault("link") /\ (\E m : queue' = Send(m)) /\ cr' = cr
           /\ UNCHANGED <<saving, file, pemVars, subVars>>
BY DEF SecSessionKeyUpdate

\* Each step keeps the types.
LEMMA NextType == IInv /\ [Next]_vars => TypeOK'
<1> SUFFICES ASSUME TypeOK, Known, Asking, [Next]_vars PROVE TypeOK'
  BY DEF IInv
<1> USE Counts
<1>1. CASE SecSessionKeyUpdate
  <2>1. PICK m : queue' = Send(m)
    BY <1>1, UpdateFacts
  <2>2. topic_key < MaxKey /\ topic_key' = topic_key + 1
    BY <1>1, UpdateFacts
  <2>3. topic_key' \in 0 .. MaxKey /\ queue' \in [KS -> Seq(1 .. MaxKey)]
    BY <2>1, <2>2, SendFacts
  <2>4. cr' \in 0 .. MaxKey
    <3>1. cr' = cr + 1 \/ cr' = cr
      BY <1>1, UpdateFacts
    <3>2. QED BY <2>2, <3>1 DEF TypeOK, Known
  <2>5. faults' \in 0 .. MaxFaults
    BY <1>1, UpdateFacts, FaultType
  <2>6. QED BY <1>1, <2>3, <2>4, <2>5, UpdateFacts
            DEF TypeOK, pemVars, subVars
<1>2. ASSUME NEW i \in KS, SaveSharOpen(i) PROVE TypeOK'
  <2>1. queue[i] \in Seq(1 .. MaxKey) /\ queue[i] # <<>>
    BY <1>2 DEF TypeOK, SaveSharOpen
  <2>2. Head(queue[i]) \in 1 .. MaxKey /\ Tail(queue[i]) \in Seq(1 .. MaxKey)
    BY <2>1, TailFacts
  <2>3. faults' \in 0 .. MaxFaults
    BY <1>2, FaultType DEF SaveSharOpen
  <2>4. queue' \in [KS -> Seq(1 .. MaxKey)]
    BY <1>2, <2>2 DEF TypeOK, SaveSharOpen
  <2>5. saving' \in [KS -> Garbage .. MaxKey]
    <3>1. \/ saving' = [saving EXCEPT ![i] = Head(queue[i])]
          \/ saving' = [saving EXCEPT ![i] = Garbage]
      BY <1>2 DEF SaveSharOpen
    <3>2. {Head(queue[i]), Garbage} \subseteq Garbage .. MaxKey
      BY <2>2
    <3>3. QED BY <3>1, <3>2 DEF TypeOK
  <2>6. file' \in [KS -> (Garbage .. MaxKey) \cup {Empty}]
    BY <1>2 DEF TypeOK, SaveSharOpen
  <2>7. QED BY <1>2, <2>3, <2>4, <2>5, <2>6
            DEF TypeOK, SaveSharOpen, pemVars, subVars
<1>3. ASSUME NEW i \in KS, SaveSharClose(i) PROVE TypeOK'
  <2>1. saving' \in [KS -> Garbage .. MaxKey]
        /\ file' \in [KS -> (Garbage .. MaxKey) \cup {Empty}]
    BY <1>3 DEF TypeOK, SaveSharClose
  <2>2. QED BY <1>3, <2>1 DEF TypeOK, SaveSharClose, pemVars, subVars
<1>4. ASSUME NEW i \in KS, KsRestart(i) PROVE TypeOK'
  <2>1. faults' \in 0 .. MaxFaults
    BY <1>4, FaultType DEF KsRestart
  <2>2. queue' \in [KS -> Seq(1 .. MaxKey)]
    BY <1>4, EmptySeq DEF TypeOK, KsRestart
  <2>3. saving' \in [KS -> Garbage .. MaxKey]
    BY <1>4 DEF TypeOK, KsRestart
  <2>4. QED BY <1>4, <2>1, <2>2, <2>3 DEF TypeOK, KsRestart, pemVars, subVars
<1>5. ASSUME NEW i \in KS, Evaluate(i) PROVE TypeOK'
  <2>1. faults' \in 0 .. MaxFaults
    BY <1>5, EvaluateFacts, FaultType
  <2>2. reply' \in Refusal .. MaxKey
    BY <1>5, EvaluateFacts DEF TypeOK
  <2>3. backlog' \in [KS -> Seq({"live", "left", "half"})]
    <3>1. backlog[i] \in Seq({"live", "left", "half"}) /\ backlog[i] # <<>>
      BY <1>5, EvaluateFacts DEF TypeOK
    <3>2. /\ Tail(backlog[i]) \in Seq({"live", "left", "half"})
          /\ <<>> \in Seq({"live", "left", "half"})
      BY <3>1, TailFacts, EmptySeq
    <3>3. \/ backlog' = [backlog EXCEPT ![i] = Tail(@)]
          \/ backlog' = [backlog EXCEPT ![i] = <<>>]
      BY <1>5, EvaluateFacts
    <3>4. QED BY <3>2, <3>3 DEF TypeOK
  <2>4. crashed' \in [KS -> Nat] /\ pem' \in [KS -> {"accept", "spin", "down"}]
    <3>1. pem' = pem \/ pem' = [pem EXCEPT ![i] = "down"]
      BY <1>5, EvaluateFacts
    <3>2. crashed' \in [KS -> Nat]
      BY <1>5, EvaluateFacts, CountedUp DEF TypeOK
    <3>3. QED BY <3>1, <3>2 DEF TypeOK
  <2>5. /\ output' \in [KS -> {"none", "authorized", "unauthorixed"}]
        /\ stale' \in [KS -> Nat]
    <3>1. PICK verdict \in {"authorized", "unauthorixed"} :
              LET first == IsAuthorized(i, verdict)
              IN  /\ output' = [output EXCEPT ![i] = Cleaned(i, first)]
                  /\ stale' = IF first = verdict
                              THEN stale
                              ELSE [stale EXCEPT ![i] = @ + 1]
      BY <1>5 DEF Evaluate
    <3>2. output[i] \in {"none", "authorized", "unauthorixed"}
      BY DEF TypeOK
    <3>3. Cleaned(i, IsAuthorized(i, verdict))
              \in {"none", "authorized", "unauthorixed"}
      BY <3>2 DEF Cleaned, IsAuthorized
    <3>4. stale' \in [KS -> Nat]
      BY <3>1, CountedUp DEF TypeOK
    <3>5. QED BY <3>1, <3>3, <3>4 DEF TypeOK
  <2>6. UNCHANGED <<keyVars, cr, pc, ksid, strshares, session_key, newest>>
    BY <1>5, EvaluateFacts
  <2>7. QED BY <2>1, <2>2, <2>3, <2>4, <2>5, <2>6 DEF TypeOK, keyVars
<1>6. ASSUME NEW i \in KS, EvaluateSpins(i) \/ PemStart(i) PROVE TypeOK'
  <2>1. pem' \in [KS -> {"accept", "spin", "down"}]
    BY <1>6 DEF TypeOK, EvaluateSpins, PemStart
  <2>2. QED BY <1>6, <2>1 DEF TypeOK, EvaluateSpins, PemStart, keyVars, subVars
<1>7. CASE KsCallback
  <2>1. faults' \in 0 .. MaxFaults
    BY <1>7, FaultType DEF KsCallback
  <2>2. cr' \in 0 .. MaxKey
    BY <1>7 DEF TypeOK, KsCallback
  <2>3. QED BY <1>7, <2>1, <2>2 DEF TypeOK, KsCallback, keyVars, pemVars
<1>8. CASE GetShare
  <2>1. ksid \in 1 .. KSN_NUM
    BY <1>8 DEF TypeOK, GetShare, ShareWanted
  <2>2. ksid' \in 1 .. KSN_NUM + 1 /\ pc' \in {"loop", "ComShare", "GetShare"}
    BY <1>8, <2>1 DEF TypeOK, GetShare
  <2>3. backlog' \in [KS -> Seq({"live", "left", "half"})]
    <3>1. Append(backlog[ksid], "live") \in Seq({"live", "left", "half"})
      BY <2>1, AppendFacts DEF TypeOK, KS
    <3>2. QED BY <1>8, <3>1 DEF TypeOK, GetShare
  <2>4. QED BY <1>8, <2>2, <2>3 DEF TypeOK, GetShare, keyVars
<1>9. CASE GetShareReturns
  <2>1. ksid <= KSN_NUM /\ Len(strshares) < SSS_T /\ ksid \in Nat
    BY <1>9 DEF GetShareReturns, Asking, TypeOK
  <2>2. ksid' \in 1 .. KSN_NUM + 1
    BY <1>9, <2>1 DEF GetShareReturns, TypeOK
  <2>3. strshares' \in Seq(Refusal .. MaxKey) /\ Len(strshares') <= SSS_T
    <3>1. /\ Append(strshares, reply) \in Seq(Refusal .. MaxKey)
          /\ Len(Append(strshares, reply)) = Len(strshares) + 1
          /\ Len(strshares) \in Nat
      BY AppendFacts DEF TypeOK
    <3>2. strshares' = strshares \/ strshares' = Append(strshares, reply)
      BY <1>9 DEF GetShareReturns
    <3>3. CASE strshares' = strshares
      BY <3>3 DEF TypeOK
    <3>4. CASE strshares' = Append(strshares, reply)
      <4>1. Len(strshares') = Len(strshares) + 1
        BY <3>1, <3>4
      <4>2. QED BY <2>1, <3>1, <3>4, <4>1
    <3>5. QED BY <3>2, <3>3, <3>4
  <2>4. reply' \in Refusal .. MaxKey
    BY <1>9 DEF GetShareReturns
  <2>5. QED BY <1>9, <2>2, <2>3, <2>4
            DEF TypeOK, GetShareReturns, keyVars, pemVars
<1>10. CASE ComShareReturns
  <2>1. session_key' \in Garbage .. MaxKey
    BY <1>10, JoinedFacts DEF ComShareReturns
  <2>2. newest' \in 0 .. MaxKey
    BY <1>10, <2>1 DEF ComShareReturns, TypeOK
  <2>3. strshares' \in Seq(Refusal .. MaxKey) /\ Len(strshares') <= SSS_T
    BY <1>10, EmptySeq DEF ComShareReturns
  <2>4. ksid' \in 1 .. KSN_NUM + 1
    BY <1>10 DEF ComShareReturns
  <2>5. QED BY <1>10, <2>1, <2>2, <2>3, <2>4
            DEF TypeOK, ComShareReturns, keyVars, pemVars
<1>11. CASE SubscriberRestart
  <2>1. faults' \in 0 .. MaxFaults
    BY <1>11, FaultType DEF SubscriberRestart
  <2>2. PICK how \in {"left", "half"} :
            backlog' = [i \in KS |->
                           [n \in 1 .. Len(backlog[i]) |->
                               IF backlog[i][n] = "live"
                               THEN how
                               ELSE backlog[i][n]]]
    BY <1>11 DEF SubscriberRestart
  <2>3. backlog' \in [KS -> Seq({"live", "left", "half"})]
    <3>1. SUFFICES ASSUME NEW i \in KS
                   PROVE  [n \in 1 .. Len(backlog[i]) |->
                              IF backlog[i][n] = "live"
                              THEN how
                              ELSE backlog[i][n]]
                          \in Seq({"live", "left", "half"})
      BY <2>2
    <3>2. backlog[i] \in Seq({"live", "left", "half"})
      BY DEF TypeOK
    <3>3. /\ Len(backlog[i]) \in Nat
          /\ \A n \in 1 .. Len(backlog[i]) :
                 backlog[i][n] \in {"live", "left", "half"}
      BY <3>2, LenProperties, ElementOfSeq
    <3>4. QED BY <3>3, IsASeq
  <2>4. /\ strshares' \in Seq(Refusal .. MaxKey) /\ Len(strshares') <= SSS_T
        /\ ksid' \in 1 .. KSN_NUM + 1 /\ reply' \in Refusal .. MaxKey
        /\ cr' \in 0 .. MaxKey /\ session_key' \in Garbage .. MaxKey
    BY <1>11, EmptySeq DEF SubscriberRestart
  <2>5. QED BY <1>11, <2>1, <2>3, <2>4 DEF TypeOK, SubscriberRestart, keyVars
<1>12. CASE UNCHANGED vars
  BY <1>12 DEF TypeOK, vars, keyVars, pemVars, subVars
<1>13. QED
  BY <1>1, <1>2, <1>3, <1>4, <1>5, <1>6, <1>7, <1>8, <1>9, <1>10, <1>11, <1>12
  DEF Next, PolicyModule, ComShare

-------------------------------------------------------------------------------
(***************************************************************************)
(* The way of the shares.                                                  *)
(***************************************************************************)
\* What a step may do to KeyStore i.
Sent(i) ==
    /\ topic_key' = topic_key + 1 /\ file'[i] = file[i] /\ saving'[i] = saving[i]
    /\ queue'[i] = queue[i] \/ queue'[i] = Append(queue[i], topic_key')
Opened(i) ==
    /\ queue[i] # <<>> /\ saving[i] = NULL
    /\ queue'[i] = Tail(queue[i]) /\ file'[i] = Empty
    /\ saving'[i] = Head(queue[i]) \/ saving'[i] = Garbage
Closes(i) ==
    /\ saving[i] # NULL
    /\ file'[i] = saving[i] /\ saving'[i] = NULL /\ queue'[i] = queue[i]
Restarted(i) ==
    /\ file'[i] = file[i] /\ saving'[i] = NULL /\ queue'[i] = <<>>
Untouched(i) ==
    /\ file'[i] = file[i] /\ saving'[i] = saving[i] /\ queue'[i] = queue[i]

\* What a step is for the share that KeyStore i has.
LEMMA KeyStep ==
    ASSUME TypeOK, [Next]_vars
    PROVE  \/ topic_key' \in 1 .. MaxKey /\ \A i \in KS : Sent(i)
           \/ /\ topic_key' = topic_key
              /\ \A i \in KS : \/ Opened(i) \/ Closes(i)
                               \/ Restarted(i) \/ Untouched(i)
<1>1. CASE SecSessionKeyUpdate
  <2>1. PICK m : queue' = Send(m)
    BY <1>1, UpdateFacts
  <2>2. QED BY <1>1, <2>1, UpdateFacts, SendFacts DEF Sent
<1>2. ASSUME NEW j \in KS, SaveSharOpen(j)
      PROVE  topic_key' = topic_key
             /\ \A i \in KS : Opened(i) \/ Untouched(i)
  BY <1>2 DEF TypeOK, SaveSharOpen, Opened, Untouched
<1>3. ASSUME NEW j \in KS, SaveSharClose(j)
      PROVE  topic_key' = topic_key
             /\ \A i \in KS : Closes(i) \/ Untouched(i)
  BY <1>3 DEF TypeOK, SaveSharClose, Closes, Untouched
<1>4. ASSUME NEW j \in KS, KsRestart(j)
      PROVE  topic_key' = topic_key
             /\ \A i \in KS : Restarted(i) \/ Untouched(i)
  BY <1>4 DEF TypeOK, KsRestart, Restarted, Untouched
<1>5. ASSUME \/ \E i \in KS : PolicyModule(i) \/ PemStart(i)
             \/ KsCallback \/ ComShare \/ SubscriberRestart
             \/ UNCHANGED vars
      PROVE  topic_key' = topic_key /\ \A i \in KS : Untouched(i)
  <2>1. UNCHANGED keyVars
    BY <1>5 DEF PolicyModule, Evaluate, EvaluateSpins, PemStart, KsCallback,
                ComShare, GetShare, GetShareReturns, ComShareReturns,
                SubscriberRestart, vars
  <2>2. QED BY <2>1 DEF keyVars, Untouched
<1>6. QED BY <1>1, <1>2, <1>3, <1>4, <1>5 DEF Next

\* The variables of KeyStore i are numbers, and sequences of numbers.
LEMMA KeyTypes ==
    ASSUME TypeOK, NEW i \in KS
    PROVE  /\ topic_key \in Nat /\ file[i] \in Int /\ saving[i] \in Int
           /\ queue[i] \in Seq(1 .. MaxKey) /\ Len(queue[i]) \in Nat
           /\ \A n \in 1 .. Len(queue[i]) : queue[i][n] \in Nat \ {0}
<1>1. queue[i] \in Seq(1 .. MaxKey)
  BY DEF TypeOK
<1>2. Len(queue[i]) \in Nat /\ \A n \in 1 .. Len(queue[i]) : queue[i][n] \in 1 .. MaxKey
  BY <1>1, LenProperties, ElementOfSeq
<1>3. QED BY <1>1, <1>2, Counts, SMTT(30) DEF TypeOK

\* Once all that a KeyStore has is at least as new as k, it stays so.
LEMMA AtLeastStays ==
    ASSUME TypeOK, [Next]_vars, NEW i \in KS, NEW k \in Int, k <= topic_key,
           AtLeast(i, k)
    PROVE  Newer(file'[i], saving'[i], queue'[i], k)
<1> DEFINE q == queue[i]
<1>1. /\ topic_key \in Nat /\ file[i] \in Int /\ saving[i] \in Int
      /\ q \in Seq(1 .. MaxKey) /\ Len(q) \in Nat
      /\ \A n \in 1 .. Len(q) : q[n] \in Nat \ {0}
  BY KeyTypes
<1>2. Newer(file[i], saving[i], q, k)
  BY DEF AtLeast
<1> HIDE DEF q
<1>3. CASE topic_key' \in 1 .. MaxKey /\ Sent(i)
  <2>1. CASE queue'[i] = q
    BY <1>2, <1>3, <2>1 DEF Sent
  <2>2. CASE queue'[i] = Append(q, topic_key')
    <3>1. /\ Len(Append(q, topic_key')) = Len(q) + 1
          /\ \A n \in 1 .. Len(q) + 1 :
                 Append(q, topic_key')[n]
                     = IF n = Len(q) + 1 THEN topic_key' ELSE q[n]
      BY <1>1, <1>3, AppendFacts
    <3>2. topic_key' >= k
      BY <1>1, <1>3 DEF Sent
    <3>3. \A n \in 1 .. Len(Append(q, topic_key')) : Append(q, topic_key')[n] >= k
      BY <1>1, <1>2, <3>1, <3>2 DEF Newer
    <3>4. QED BY <1>2, <1>3, <2>2, <3>3 DEF Newer, Sent
  <2>3. QED BY <1>3, <2>1, <2>2 DEF Sent, q
<1>4. CASE Opened(i)
  <2>1. q # <<>> /\ queue'[i] = Tail(q) /\ file'[i] = -3
        /\ (saving'[i] = q[1] \/ saving'[i] = -1)
    BY <1>1, <1>4, TailFacts, Counts DEF Opened, q
  <2>2. /\ Len(q) \in Nat \ {0} /\ Len(Tail(q)) = Len(q) - 1
        /\ \A n \in 1 .. Len(q) - 1 : Tail(q)[n] = q[n + 1]
    BY <1>1, <2>1, TailFacts
  <2>3. \A n \in 1 .. Len(Tail(q)) : Tail(q)[n] >= k
    BY <1>2, <2>2 DEF Newer
  <2>4. q[1] >= k
    BY <1>2, <2>2 DEF Newer
  <2>5. QED BY <2>1, <2>3, <2>4 DEF Newer
<1>5. CASE Closes(i)
  BY <1>1, <1>2, <1>5, Counts DEF Newer, Closes, q
<1>6. CASE Restarted(i)
  <2>1. \A n \in 1 .. Len(queue'[i]) : FALSE
    BY <1>6 DEF Restarted
  <2>2. QED BY <1>2, <1>6, <2>1, Counts DEF Newer, Restarted
<1>7. CASE Untouched(i)
  BY <1>2, <1>7 DEF Untouched, q
<1>8. QED BY <1>3, <1>4, <1>5, <1>6, <1>7, KeyStep

\* The shares stay in order.
LEMMA OrderStep ==
    ASSUME TypeOK, [Next]_vars, NEW i \in KS, KnownTo(i), OrderOf(i)
    PROVE  KnownTo(i)' /\ OrderOf(i)'
<1> DEFINE q == queue[i]
<1>1. /\ topic_key \in Nat /\ file[i] \in Int /\ saving[i] \in Int
      /\ q \in Seq(1 .. MaxKey) /\ Len(q) \in Nat
      /\ \A n \in 1 .. Len(q) : q[n] \in Nat \ {0}
  BY KeyTypes
<1>2. /\ Newer(file[i], saving[i], q, file[i])
      /\ \A n \in 1 .. Len(q) : saving[i] > 0 => q[n] >= saving[i]
      /\ \A n \in 1 .. Len(q) : \A m \in 1 .. n : q[m] <= q[n]
  BY DEF OrderOf, AtLeast
<1>3. /\ file[i] <= topic_key /\ saving[i] <= topic_key
      /\ \A n \in 1 .. Len(q) : q[n] <= topic_key
  BY DEF KnownTo
<1>4. SUFFICES /\ file'[i] <= topic_key' /\ saving'[i] <= topic_key'
               /\ \A n \in 1 .. Len(queue'[i]) :
                      /\ queue'[i][n] <= topic_key'
                      /\ saving'[i] > 0 => queue'[i][n] >= saving'[i]
                      /\ \A m \in 1 .. n : queue'[i][m] <= queue'[i][n]
               /\ Newer(file'[i], saving'[i], queue'[i], file'[i])
  BY DEF KnownTo, OrderOf, AtLeast, Newer
<1>5. file'[i] = file[i] => Newer(file'[i], saving'[i], queue'[i], file'[i])
  BY <1>1, <1>3, AtLeastStays DEF OrderOf
<1> HIDE DEF q
<1>6. CASE topic_key' \in 1 .. MaxKey /\ Sent(i)
  <2>1. topic_key' = topic_key + 1 /\ file'[i] = file[i] /\ saving'[i] = saving[i]
    BY <1>6 DEF Sent
  <2>2. CASE queue'[i] = q
    BY <1>1, <1>2, <1>3, <1>5, <2>1, <2>2
  <2>3. CASE queue'[i] = Append(q, topic_key')
    <3>1. /\ Len(Append(q, topic_key')) = Len(q) + 1
          /\ \A n \in 1 .. Len(q) + 1 :
                 Append(q, topic_key')[n]
                     = IF n = Len(q) + 1 THEN topic_key' ELSE q[n]
      BY <1>1, <1>6, AppendFacts
    <3>2. ASSUME NEW n \in 1 .. Len(q) + 1
          PROVE  /\ queue'[i][n] <= topic_key'
                 /\ saving'[i] > 0 => queue'[i][n] >= saving'[i]
                 /\ \A m \in 1 .. n : queue'[i][m] <= queue'[i][n]
      <4>1. CASE n = Len(q) + 1
        <5>1. queue'[i][n] = topic_key'
          BY <2>3, <3>1, <4>1
        <5>2. \A m \in 1 .. n : m # n => queue'[i][m] = q[m] /\ m \in 1 .. Len(q)
          BY <1>1, <2>3, <3>1, <4>1
        <5>3. ASSUME NEW m \in 1 .. n PROVE queue'[i][m] <= queue'[i][n]
          <6>1. CASE m = n
            BY <1>1, <2>1, <5>1, <6>1
          <6>2. CASE m # n
            BY <1>1, <1>3, <2>1, <5>1, <5>2, <6>2, SMTT(30)
          <6>3. QED BY <6>1, <6>2
        <5>4. QED BY <1>1, <1>3, <2>1, <5>1, <5>3
      <4>2. CASE n # Len(q) + 1
        <5>1. n \in 1 .. Len(q) /\ queue'[i][n] = q[n]
          BY <1>1, <2>3, <3>1, <4>2
        <5>2. \A m \in 1 .. n : queue'[i][m] = q[m] /\ m \in 1 .. Len(q)
          BY <1>1, <2>3, <3>1, <5>1
        <5>3. QED BY <1>1, <1>2, <1>3, <2>1, <5>1, <5>2
      <4>3. QED BY <4>1, <4>2
    <3>3. QED BY <1>1, <1>3, <1>5, <2>1, <2>3, <3>1, <3>2
  <2>4. QED BY <1>6, <2>2, <2>3 DEF Sent, q
<1>7. CASE topic_key' = topic_key /\ Opened(i)
  <2>1. q # <<>> /\ queue'[i] = Tail(q) /\ file'[i] = -3
        /\ (saving'[i] = q[1] \/ saving'[i] = -1)
    BY <1>1, <1>7, TailFacts, Counts DEF Opened, q
  <2>2. /\ Len(q) \in Nat \ {0} /\ Len(Tail(q)) = Len(q) - 1
        /\ \A n \in 1 .. Len(q) - 1 : Tail(q)[n] = q[n + 1]
    BY <1>1, <2>1, TailFacts
  <2>3. \A n \in 1 .. Len(queue'[i]) : n + 1 \in 1 .. Len(q)
                                     /\ queue'[i][n] = q[n + 1]
    BY <2>1, <2>2
  <2>4. ASSUME NEW n \in 1 .. Len(queue'[i])
        PROVE  /\ queue'[i][n] <= topic_key
               /\ queue'[i][n] > 0
               /\ queue'[i][n] >= q[1]
               /\ \A m \in 1 .. n : queue'[i][m] <= queue'[i][n]
    <3>1. n + 1 \in 1 .. Len(q) /\ queue'[i][n] = q[n + 1] /\ 1 \in 1 .. n + 1
      BY <2>2, <2>3
    <3>2. \A m \in 1 .. n : m + 1 \in 1 .. n + 1 /\ queue'[i][m] = q[m + 1]
      BY <2>1, <2>2, <2>3
    <3>3. QED BY <1>1, <1>2, <1>3, <3>1, <3>2
  <2>5. 1 \in 1 .. Len(q) /\ q[1] <= topic_key /\ q[1] > 0
    BY <1>1, <1>3, <2>2
  <2>6. Newer(file'[i], saving'[i], queue'[i], file'[i])
    BY <1>1, <2>1, <2>3, <2>5 DEF Newer
  <2>7. file'[i] <= topic_key /\ saving'[i] <= topic_key
    BY <1>1, <2>1, <2>5
  <2>8. \A n \in 1 .. Len(queue'[i]) : saving'[i] > 0 => queue'[i][n] >= saving'[i]
    BY <2>1, <2>4
  <2>9. QED BY <1>7, <2>4, <2>6, <2>7, <2>8
<1>8. CASE topic_key' = topic_key /\ Closes(i)
  <2>1. file'[i] = saving[i] /\ saving'[i] = 0 /\ queue'[i] = q
    BY <1>8, Counts DEF Closes, q
  <2>2. Newer(file'[i], saving'[i], queue'[i], file'[i])
    <3>1. \A n \in 1 .. Len(q) : q[n] >= saving[i]
      BY <1>1, <1>2
    <3>2. QED BY <1>1, <2>1, <3>1 DEF Newer
  <2>3. QED BY <1>1, <1>2, <1>3, <1>8, <2>1, <2>2
<1>9. CASE topic_key' = topic_key /\ Restarted(i)
  <2>1. file'[i] = file[i] /\ saving'[i] = 0 /\ Len(queue'[i]) = 0
    BY <1>9, Counts DEF Restarted
  <2>2. \A n \in 1 .. Len(queue'[i]) : FALSE
    BY <2>1
  <2>3. QED BY <1>1, <1>3, <1>5, <1>9, <2>1, <2>2
<1>10. CASE topic_key' = topic_key /\ Untouched(i)
  BY <1>2, <1>3, <1>10 DEF Untouched, q
<1>11. QED BY <1>6, <1>7, <1>8, <1>9, <1>10, KeyStep

\* And so does what the subscriber has of them.
LEMMA NextKnown == IInv /\ [Next]_vars => Known' /\ InOrder'
<1> SUFFICES ASSUME TypeOK, Known, InOrder, [Next]_vars PROVE Known' /\ InOrder'
  BY DEF IInv
<1> USE Counts
<1>1. \A i \in KS : KnownTo(i)' /\ OrderOf(i)'
  BY OrderStep DEF Known, InOrder
<1>2. topic_key' >= topic_key /\ topic_key \in Nat /\ topic_key' \in Nat
  <2>1. topic_key \in Nat
    BY DEF TypeOK
  <2>2. topic_key' = topic_key \/ topic_key' = topic_key + 1
    <3>1. CASE topic_key' = topic_key
      BY <3>1
    <3>2. CASE \A i \in KS : Sent(i)
      <4>1. 1 \in KS
        BY DEF KS
      <4>2. QED BY <3>2, <4>1 DEF Sent
    <3>3. QED BY <3>1, <3>2, KeyStep
  <2>3. QED BY <2>1, <2>2
<1>3. /\ cr \in Nat /\ newest \in Int /\ reply \in Int /\ Len(strshares) \in Nat
      /\ strshares \in Seq(Refusal .. MaxKey)
      /\ \A p \in 1 .. Len(strshares) : strshares[p] \in Int
  <2>1. strshares \in Seq(Refusal .. MaxKey)
    BY DEF TypeOK
  <2>2. /\ Len(strshares) \in Nat
        /\ \A p \in 1 .. Len(strshares) : strshares[p] \in Refusal .. MaxKey
    BY <2>1, LenProperties, ElementOfSeq
  <2>3. QED BY <2>1, <2>2 DEF TypeOK
<1>4. /\ cr <= topic_key /\ newest <= topic_key /\ reply <= topic_key
      /\ \A p \in 1 .. Len(strshares) : strshares[p] <= topic_key
  BY DEF Known
<1>5. cr' <= topic_key'
  <2>1. CASE SecSessionKeyUpdate
    BY <1>2, <1>3, <1>4, <2>1, UpdateFacts
  <2>2. CASE UNCHANGED cr \/ cr' = cr - 1 \/ cr' = 0
    BY <1>2, <1>3, <1>4, <2>2
  <2>3. QED BY <2>1, <2>2
        DEF Next, SaveSharOpen, SaveSharClose, KsRestart, PolicyModule, Evaluate,
            EvaluateSpins, PemStart, KsCallback, ComShare, GetShare,
            GetShareReturns, ComShareReturns, SubscriberRestart, vars
<1>6. newest' <= topic_key'
  <2>1. CASE ComShareReturns
    <3>1. newest' = newest \/ (newest' = Combined /\ Combined > newest)
      BY <2>1 DEF ComShareReturns
    <3>2. Combined \in Int
      BY JoinedFacts
    <3>3. Combined > 0 => Combined <= topic_key
      <4>1. Combined > 0 => 1 \in 1 .. Len(strshares)
        BY <1>3, JoinedFacts
      <4>2. QED BY <1>4, <4>1, JoinedFacts
    <3>4. newest >= 0
      BY DEF TypeOK
    <3>5. QED BY <1>2, <1>3, <1>4, <3>1, <3>2, <3>3, <3>4
  <2>2. CASE UNCHANGED newest
    BY <1>2, <1>3, <1>4, <2>2
  <2>3. QED BY <2>1, <2>2
        DEF Next, SecSessionKeyUpdate, SaveSharOpen, SaveSharClose, KsRestart,
            PolicyModule, Evaluate, EvaluateSpins, PemStart, KsCallback, ComShare,
            GetShare, GetShareReturns, SubscriberRestart, vars, subVars
<1>7. reply' <= topic_key'
  <2>1. ASSUME NEW i \in KS, Evaluate(i) PROVE reply' <= topic_key'
    <3>1. reply' = reply \/ reply' \in {file[i], Garbage, Refusal}
      BY <2>1, EvaluateFacts
    <3>2. file[i] <= topic_key /\ file[i] \in Int
      BY KeyTypes DEF Known, KnownTo
    <3>3. QED BY <1>2, <1>3, <1>4, <3>1, <3>2
  <2>2. CASE UNCHANGED reply \/ reply' = NULL
    BY <1>2, <1>3, <1>4, <2>2
  <2>3. QED BY <2>1, <2>2
        DEF Next, SecSessionKeyUpdate, SaveSharOpen, SaveSharClose, KsRestart,
            PolicyModule, EvaluateSpins, PemStart, KsCallback, ComShare, GetShare,
            GetShareReturns, ComShareReturns, SubscriberRestart, vars, subVars
<1>8. \A p \in 1 .. Len(strshares') : strshares'[p] <= topic_key'
  <2>1. CASE GetShareReturns /\ strshares' = Append(strshares, reply)
    <3>1. /\ Len(strshares') = Len(strshares) + 1
          /\ \A p \in 1 .. Len(strshares) + 1 :
                 strshares'[p] = IF p = Len(strshares) + 1 THEN reply
                                 ELSE strshares[p]
      <4>1. reply \in Refusal .. MaxKey
        BY DEF TypeOK
      <4>2. QED BY <1>3, <2>1, <4>1, AppendFacts
    <3>2. ASSUME NEW p \in 1 .. Len(strshares) + 1
          PROVE  strshares'[p] <= topic_key'
      <4>1. CASE p = Len(strshares) + 1
        BY <1>2, <1>3, <1>4, <3>1, <4>1
      <4>2. CASE p # Len(strshares) + 1
        <5>1. p \in 1 .. Len(strshares) /\ strshares'[p] = strshares[p]
          BY <1>3, <3>1, <4>2
        <5>2. strshares[p] <= topic_key /\ strshares[p] \in Int
          BY <1>3, <1>4, <5>1
        <5>3. QED BY <1>2, <5>1, <5>2
      <4>3. QED BY <4>1, <4>2
    <3>3. QED BY <3>1, <3>2
  <2>2. CASE UNCHANGED strshares
    BY <1>2, <1>3, <1>4, <2>2
  <2>3. CASE strshares' = <<>>
    BY <2>3
  <2>4. QED BY <2>1, <2>2, <2>3
        DEF Next, SecSessionKeyUpdate, SaveSharOpen, SaveSharClose, KsRestart,
            PolicyModule, Evaluate, EvaluateSpins, PemStart, KsCallback, ComShare,
            GetShare, GetShareReturns, ComShareReturns, SubscriberRestart, vars,
            subVars
<1>9. QED BY <1>1, <1>5, <1>6, <1>7, <1>8 DEF Known, InOrder

-------------------------------------------------------------------------------
(***************************************************************************)
(* The connections, and the verdicts.                                      *)
(***************************************************************************)
\* The one connection that can answer, as Asking has it, for KeyStore i.
AskedAt(i, b, at, waits) ==
    \A n \in 1 .. Len(b) : b[n] = "live" =>
        /\ waits /\ i = at
        /\ \A m \in 1 .. Len(b) : b[m] = "live" => m = n

\* What a step has to show so that Asking is kept.
LEMMA AskingStep ==
    ASSUME \A i \in KS : AskedAt(i, backlog'[i], ksid',
                                 pc' = "GetShare" /\ reply' = NULL),
           pc' = "loop" => strshares' = <<>>,
           pc' = "GetShare" => ksid' <= KSN_NUM /\ Len(strshares') < SSS_T,
           pc' # "GetShare" => reply' = NULL
    PROVE  Asking'
BY DEF Asking, AskedAt

\* A connection less; once the live one is taken no other is.
LEMMA AskedTail ==
    ASSUME NEW S, NEW b \in Seq(S), b # <<>>, NEW i, NEW at, NEW waits, NEW waits2,
           AskedAt(i, b, at, waits), Head(b) = "live" \/ (waits => waits2)
    PROVE  AskedAt(i, Tail(b), at, waits2)
<1>1. /\ Head(b) = b[1] /\ Len(b) \in Nat \ {0} /\ Len(Tail(b)) = Len(b) - 1
      /\ \A n \in 1 .. Len(b) - 1 : Tail(b)[n] = b[n + 1]
  BY TailFacts
<1>2. SUFFICES ASSUME NEW n \in 1 .. Len(Tail(b)), Tail(b)[n] = "live"
               PROVE  /\ waits2 /\ i = at
                      /\ \A m \in 1 .. Len(Tail(b)) : Tail(b)[m] = "live" => m = n
  BY DEF AskedAt
<1>3. n + 1 \in 1 .. Len(b) /\ b[n + 1] = "live" /\ n + 1 # 1 /\ 1 \in 1 .. Len(b)
  BY <1>1, <1>2
<1>4. waits /\ i = at /\ \A m \in 1 .. Len(b) : b[m] = "live" => m = n + 1
  BY <1>3 DEF AskedAt
<1>5. Head(b) # "live"
  BY <1>1, <1>3, <1>4
<1>6. \A m \in 1 .. Len(Tail(b)) : Tail(b)[m] = "live" => m = n
  <2>1. SUFFICES ASSUME NEW m \in 1 .. Len(Tail(b)), Tail(b)[m] = "live"
                 PROVE  m = n
    OBVIOUS
  <2>2. m + 1 \in 1 .. Len(b) /\ b[m + 1] = "live"
    BY <1>1, <2>1
  <2>3. m + 1 = n + 1
    BY <1>4, <2>2
  <2>4. QED BY <1>1, <2>3
<1>7. QED BY <1>4, <1>5, <1>6

\* Each step keeps the one live request and its answers in order.
LEMMA NextAsking == IInv /\ [Next]_vars => Asking'
<1> SUFFICES ASSUME TypeOK, Asking, [Next]_vars PROVE Asking'
  BY DEF IInv
<1> USE Counts
<1>0. /\ \A i \in KS : AskedAt(i, backlog[i], ksid, pc = "GetShare" /\ reply = NULL)
      /\ pc = "loop" => strshares = <<>>
      /\ pc = "GetShare" => ksid <= KSN_NUM /\ Len(strshares) < SSS_T
      /\ pc # "GetShare" => reply = NULL
  BY DEF Asking, AskedAt
<1>1. CASE UNCHANGED <<pc, strshares, reply, ksid, backlog>>
  BY <1>0, <1>1, AskingStep
<1>2. ASSUME NEW i \in KS, Evaluate(i) PROVE Asking'
  <2>1. UNCHANGED <<pc, ksid, strshares>> /\ backlog[i] # <<>>
        /\ backlog[i] \in Seq({"live", "left", "half"})
    BY <1>2, EvaluateFacts DEF TypeOK
  <2>2. CASE backlog' = [backlog EXCEPT ![i] = <<>>] /\ reply' = reply
    <3>1. \A j \in KS : backlog'[j] = backlog[j] \/ Len(backlog'[j]) = 0
      BY <2>2 DEF TypeOK
    <3>2. ASSUME NEW j \in KS
          PROVE  AskedAt(j, backlog'[j], ksid, pc = "GetShare" /\ reply = NULL)
      <4>1. CASE backlog'[j] = backlog[j]
        BY <1>0, <4>1
      <4>2. CASE Len(backlog'[j]) = 0
        <5>1. \A n \in 1 .. Len(backlog'[j]) : FALSE
          BY <4>2
        <5>2. QED BY <5>1 DEF AskedAt
      <4>3. QED BY <3>1, <4>1, <4>2
    <3>3. QED BY <1>0, <2>1, <2>2, <3>2, AskingStep
  <2>3. CASE /\ backlog' = [backlog EXCEPT ![i] = Tail(@)] /\ reply' = reply
             /\ Head(backlog[i]) # "live"
    <3>1. \A j \in KS : backlog'[j] = IF j = i THEN Tail(backlog[i]) ELSE backlog[j]
      BY <2>3 DEF TypeOK
    <3>2. AskedAt(i, Tail(backlog[i]), ksid, pc = "GetShare" /\ reply = NULL)
      BY <1>0, <2>1, AskedTail
    <3>3. \A j \in KS : AskedAt(j, backlog'[j], ksid, pc = "GetShare" /\ reply = NULL)
      BY <1>0, <3>1, <3>2
    <3>4. QED BY <1>0, <2>1, <2>3, <3>3, AskingStep
  <2>4. CASE /\ backlog' = [backlog EXCEPT ![i] = Tail(@)]
             /\ Head(backlog[i]) = "live"
    <3>1. \A j \in KS : backlog'[j] = IF j = i THEN Tail(backlog[i]) ELSE backlog[j]
      BY <2>4 DEF TypeOK
    <3>2. AskedAt(i, Tail(backlog[i]), ksid, FALSE)
      BY <1>0, <2>1, <2>4, AskedTail
    <3>3. /\ 1 \in 1 .. Len(backlog[i]) /\ backlog[i][1] = "live"
      BY <2>1, <2>4, TailFacts
    <3>4. pc = "GetShare" /\ i = ksid
      BY <1>0, <3>3 DEF AskedAt
    <3>5. \A j \in KS : AskedAt(j, backlog'[j], ksid, FALSE)
      BY <1>0, <3>1, <3>2, <3>4 DEF AskedAt
    <3>6. \A j \in KS : AskedAt(j, backlog'[j], ksid',
                               pc' = "GetShare" /\ reply' = NULL)
      BY <2>1, <3>5 DEF AskedAt
    <3>7. QED BY <1>0, <2>1, <3>4, <3>6, AskingStep
  <2>5. QED BY <1>2, <2>2, <2>3, <2>4, EvaluateFacts
<1>3. CASE GetShare
  <2>1. /\ UNCHANGED <<strshares, reply>> /\ pc = "ComShare"
        /\ Len(strshares) < SSS_T /\ ksid \in KS
    BY <1>3 DEF GetShare, ShareWanted, TypeOK, KS
  <2>2. \A i \in KS : AskedAt(i, backlog[i], ksid, FALSE)
    BY <1>0, <2>1 DEF AskedAt
  <2>3. CASE pem[ksid] = "down"
    <3>1. UNCHANGED <<pc, backlog>>
      BY <1>3, <2>3 DEF GetShare
    <3>2. \A i \in KS : AskedAt(i, backlog'[i], ksid', pc' = "GetShare" /\ reply' = NULL)
      BY <2>2, <3>1 DEF AskedAt
    <3>3. QED BY <1>0, <2>1, <3>1, <3>2, AskingStep
  <2>4. CASE pem[ksid] # "down"
    <3>1. /\ backlog' = [backlog EXCEPT ![ksid] = Append(@, "live")]
          /\ pc' = "GetShare" /\ ksid' = ksid
      BY <1>3, <2>4 DEF GetShare
    <3>2. \A i \in KS : backlog'[i] = IF i = ksid THEN Append(backlog[i], "live")
                                       ELSE backlog[i]
      BY <3>1 DEF TypeOK
    <3>3. backlog[ksid] \in Seq({"live", "left", "half"})
      BY <2>1 DEF TypeOK
    <3>4. /\ Len(backlog[ksid]) \in Nat
          /\ Len(backlog'[ksid]) = Len(backlog[ksid]) + 1
          /\ \A n \in 1 .. Len(backlog[ksid]) + 1 :
                 backlog'[ksid][n] = IF n = Len(backlog[ksid]) + 1 THEN "live"
                                     ELSE backlog[ksid][n]
      <4>1. backlog'[ksid] = Append(backlog[ksid], "live")
        BY <2>1, <3>2
      <4>2. "live" \in {"live", "left", "half"}
        OBVIOUS
      <4>3. QED BY <3>3, <4>1, <4>2, AppendFacts
    <3>5. \A n \in 1 .. Len(backlog[ksid]) : backlog[ksid][n] # "live"
      BY <2>1, <2>2 DEF AskedAt
    <3>6. \A n \in 1 .. Len(backlog'[ksid]) : backlog'[ksid][n] = "live"
                                             <=> n = Len(backlog[ksid]) + 1
      BY <3>4, <3>5
    <3>7. \A i \in KS : AskedAt(i, backlog'[i], ksid, TRUE)
      BY <2>2, <3>2, <3>6 DEF AskedAt
    <3>8. \A i \in KS : AskedAt(i, backlog'[i], ksid', pc' = "GetShare" /\ reply' = NULL)
      BY <1>0, <2>1, <3>1, <3>7
    <3>9. QED BY <1>0, <2>1, <3>1, <3>8, AskingStep DEF KS
  <2>5. QED BY <2>3, <2>4
<1>4. CASE GetShareReturns
  <2>1. /\ pc = "GetShare" /\ pc' = "ComShare" /\ reply' = NULL
        /\ UNCHANGED backlog /\ (reply # NULL \/ Closed) /\ ksid \in KS
    BY <1>0, <1>4 DEF GetShareReturns, pemVars, TypeOK, KS
  <2>2. \A i \in KS : \A n \in 1 .. Len(backlog[i]) : backlog[i][n] # "live"
    BY <1>0, <2>1 DEF AskedAt, Closed
  <2>3. \A i \in KS : AskedAt(i, backlog'[i], ksid', pc' = "GetShare" /\ reply' = NULL)
    BY <2>1, <2>2 DEF AskedAt
  <2>4. QED BY <2>1, <2>3, AskingStep
<1>5. CASE ComShareReturns \/ KsCallback
  <2>1. /\ pc # "GetShare" /\ pc' # "GetShare" /\ UNCHANGED <<backlog, reply>>
        /\ (pc' = "loop" => strshares' = <<>>)
    BY <1>5 DEF ComShareReturns, KsCallback, pemVars
  <2>2. \A i \in KS : AskedAt(i, backlog'[i], ksid', pc' = "GetShare" /\ reply' = NULL)
    BY <1>0, <2>1 DEF AskedAt
  <2>3. QED BY <1>0, <2>1, <2>2, AskingStep
<1>6. CASE SubscriberRestart
  <2>1. pc' = "loop" /\ strshares' = <<>> /\ reply' = NULL
    BY <1>6 DEF SubscriberRestart
  <2>2. PICK how \in {"left", "half"} :
            backlog' = [i \in KS |->
                           [n \in 1 .. Len(backlog[i]) |->
                               IF backlog[i][n] = "live"
                               THEN how
                               ELSE backlog[i][n]]]
    BY <1>6 DEF SubscriberRestart
  <2>3. \A i \in KS : \A n \in 1 .. Len(backlog'[i]) : backlog'[i][n] # "live"
    <3>1. SUFFICES ASSUME NEW i \in KS, NEW n \in 1 .. Len(backlog'[i])
                   PROVE  backlog'[i][n] # "live"
      OBVIOUS
    <3> DEFINE b == [m \in 1 .. Len(backlog[i]) |->
                        IF backlog[i][m] = "live" THEN how ELSE backlog[i][m]]
    <3>2. backlog'[i] = b
      BY <2>2
    <3>3. Len(backlog[i]) \in Nat
      BY LenProperties DEF TypeOK
    <3>4. Len(b) = Len(backlog[i])
      BY <3>3
    <3>5. QED BY <3>1, <3>2, <3>4
  <2>4. \A i \in KS : AskedAt(i, backlog'[i], ksid', pc' = "GetShare" /\ reply' = NULL)
    BY <2>3 DEF AskedAt
  <2>5. QED BY <2>1, <2>4, AskingStep
<1>7. QED
  BY <1>1, <1>2, <1>3, <1>4, <1>5, <1>6
  DEF Next, SecSessionKeyUpdate, SaveSharOpen, SaveSharClose, KsRestart,
      PolicyModule, EvaluateSpins, PemStart, ComShare, vars, subVars, pemVars

\* Each step keeps that a verdict left behind was left by a crash of its own.
LEMMA NextLeftBehind == IInv /\ [Next]_vars => LeftBehind'
<1> SUFFICES ASSUME TypeOK, LeftBehind, [Next]_vars PROVE LeftBehind'
  BY DEF IInv
<1>1. ASSUME NEW i \in KS, Evaluate(i) PROVE LeftBehind'
  <2>1. PICK verdict \in {"authorized", "unauthorixed"} :
            LET first == IsAuthorized(i, verdict)
            IN  /\ output' = [output EXCEPT ![i] = Cleaned(i, first)]
                /\ stale' = IF first = verdict
                            THEN stale
                            ELSE [stale EXCEPT ![i] = @ + 1]
    BY <1>1 DEF Evaluate
  <2>2. \A j \in KS : stale[j] \in Nat /\ crashed[j] \in Nat
    BY DEF TypeOK
  <2>3. \A j \in KS : j # i =>
            /\ output'[j] = output[j] /\ stale'[j] = stale[j]
            /\ crashed'[j] = crashed[j]
    <3>1. \A j \in KS : j # i => output'[j] = output[j] /\ stale'[j] = stale[j]
      BY <2>1 DEF TypeOK
    <3>2. crashed' = crashed \/ crashed' = [crashed EXCEPT ![i] = @ + 1]
      BY <1>1, EvaluateFacts
    <3>3. \A j \in KS : j # i => crashed'[j] = crashed[j]
      BY <3>2 DEF TypeOK
    <3>4. QED BY <3>1, <3>3
  <2>4. stale'[i] <= stale[i] + (IF output[i] = "none" THEN 0 ELSE 1)
        /\ stale'[i] \in Nat
    <3>1. CASE output[i] = "none"
      BY <2>1, <2>2, <3>1 DEF IsAuthorized
    <3>2. CASE output[i] # "none"
      BY <2>1, <2>2, <3>2 DEF TypeOK
    <3>3. QED BY <3>1, <3>2
  <2>5. \/ output'[i] = "none" /\ crashed'[i] >= crashed[i]
        \/ crashed'[i] = crashed[i] + 1
    <3>1. CASE crashed' = crashed
      <4>1. crashed' # [crashed EXCEPT ![i] = @ + 1]
        <5>1. crashed \in [KS -> Nat] /\ crashed[i] \in Nat
          BY DEF TypeOK
        <5>2. [crashed EXCEPT ![i] = @ + 1][i] = crashed[i] + 1
          BY <5>1
        <5>3. QED BY <3>1, <5>1, <5>2
      <4>2. pem' = pem /\ pem[i] = "accept"
        BY <1>1, <4>1, EvaluateFacts
      <4>3. QED BY <2>1, <2>2, <3>1, <4>2 DEF Cleaned, TypeOK
    <3>2. CASE crashed' = [crashed EXCEPT ![i] = @ + 1]
      BY <3>2 DEF TypeOK
    <3>3. QED BY <1>1, <3>1, <3>2, EvaluateFacts
  <2>6. crashed'[i] \in Nat
    <3>1. crashed' \in [KS -> Nat]
      BY <1>1, EvaluateFacts, CountedUp DEF TypeOK
    <3>2. QED BY <3>1
  <2>7. ASSUME NEW j \in KS
        PROVE  stale'[j] + (IF output'[j] = "none" THEN 0 ELSE 1) <= crashed'[j]
    <3>1. CASE j = i
      BY <2>2, <2>4, <2>5, <2>6, <3>1 DEF LeftBehind
    <3>2. CASE j # i
      BY <2>3, <3>2 DEF LeftBehind
    <3>3. QED BY <3>1, <3>2
  <2>8. QED BY <2>7 DEF LeftBehind
<1>2. CASE UNCHANGED <<output, crashed, stale>>
  BY <1>2 DEF LeftBehind
<1>3. QED
  BY <1>1, <1>2
  DEF Next, SecSessionKeyUpdate, SaveSharOpen, SaveSharClose, KsRestart,
      PolicyModule, EvaluateSpins, PemStart, KsCallback, ComShare, GetShare,
      GetShareReturns, ComShareReturns, SubscriberRestart, vars, pemVars

-------------------------------------------------------------------------------
(***************************************************************************)
(* The quorums.                                                            *)
(***************************************************************************)
LEMMA SubscriberTypes ==
    ASSUME TypeOK
    PROVE  /\ newest \in Nat /\ reply \in Int /\ ksid \in Nat /\ session_key \in Int
           /\ strshares \in Seq(Refusal .. MaxKey) /\ Len(strshares) \in Nat
           /\ \A p \in 1 .. Len(strshares) : strshares[p] \in Int
<1>1. strshares \in Seq(Refusal .. MaxKey)
  BY DEF TypeOK
<1>2. /\ Len(strshares) \in Nat
      /\ \A p \in 1 .. Len(strshares) : strshares[p] \in Refusal .. MaxKey
  BY <1>1, LenProperties, ElementOfSeq
<1>3. QED BY <1>1, <1>2, Counts DEF TypeOK

\* What is true of the KeyStores that Backed speaks of after a step too.
LEMMA BackedStays ==
    ASSUME TypeOK, Known, [Next]_vars,
           NEW A \in SUBSET KS, NEW src \in [1 .. Len(strshares) -> KS],
           Backed(A, src)
    PROVE  /\ \A i \in A : Newer(file'[i], saving'[i], queue'[i], newest)
           /\ \A p \in 1 .. Len(strshares) : strshares[p] > 0 =>
                  Newer(file'[src[p]], saving'[src[p]], queue'[src[p]],
                        strshares[p])
           /\ reply > 0 /\ ksid \in KS =>
                  Newer(file'[ksid], saving'[ksid], queue'[ksid], reply)
<1>1. \A i \in A : Newer(file'[i], saving'[i], queue'[i], newest)
  <2>1. SUFFICES ASSUME NEW i \in A
                 PROVE  Newer(file'[i], saving'[i], queue'[i], newest)
    OBVIOUS
  <2>2. AtLeast(i, newest) /\ newest \in Int /\ newest <= topic_key /\ i \in KS
    BY SubscriberTypes DEF Backed, Known
  <2>3. QED BY <2>2, AtLeastStays
<1>2. \A p \in 1 .. Len(strshares) : strshares[p] > 0 =>
          Newer(file'[src[p]], saving'[src[p]], queue'[src[p]], strshares[p])
  <2>1. SUFFICES ASSUME NEW p \in 1 .. Len(strshares), strshares[p] > 0
                 PROVE  Newer(file'[src[p]], saving'[src[p]], queue'[src[p]],
                              strshares[p])
    OBVIOUS
  <2>2. /\ AtLeast(src[p], strshares[p]) /\ strshares[p] \in Int
        /\ strshares[p] <= topic_key /\ src[p] \in KS
    BY <2>1, SubscriberTypes DEF Backed, Known
  <2>3. QED BY <2>2, AtLeastStays
<1>3. ASSUME reply > 0, ksid \in KS
      PROVE  Newer(file'[ksid], saving'[ksid], queue'[ksid], reply)
  <2>1. AtLeast(ksid, reply) /\ reply \in Int /\ reply <= topic_key
    BY <1>3, SubscriberTypes DEF Backed, Known
  <2>2. QED BY <1>3, <2>1, AtLeastStays
<1>4. QED BY <1>1, <1>2, <1>3

\* As long as no further answer is kept, the same KeyStores will do.
LEMMA BackedStep ==
    ASSUME TypeOK, Known, [Next]_vars,
           NEW A \in SUBSET KS, NEW src \in [1 .. Len(strshares) -> KS],
           Backed(A, src), newest' = newest, strshares' = strshares,
           ksid' \in Nat, ksid' >= ksid,
           reply' > 0 =>
               /\ Newer(file'[ksid'], saving'[ksid'], queue'[ksid'], reply')
               /\ ksid' \in A => reply' >= newest
    PROVE  Backed(A, src)'
<1>1. /\ \A i \in A : Newer(file'[i], saving'[i], queue'[i], newest)
      /\ \A p \in 1 .. Len(strshares) : strshares[p] > 0 =>
             Newer(file'[src[p]], saving'[src[p]], queue'[src[p]], strshares[p])
  BY BackedStays
<1>2. \A p \in 1 .. Len(strshares) : src[p] < ksid'
  <2>1. SUFFICES ASSUME NEW p \in 1 .. Len(strshares) PROVE src[p] < ksid'
    OBVIOUS
  <2>2. src[p] < ksid /\ src[p] \in KS
    BY DEF Backed
  <2>3. src[p] \in Nat /\ ksid \in Nat
    BY <2>2, Counts, SubscriberTypes
  <2>4. QED BY <2>2, <2>3
<1>3. QED BY <1>1, <1>2 DEF Backed, AtLeast

\* A step in which no key is joined keeps the quorums.
LEMMA NextQuorateSame ==
    ASSUME TypeOK, Known, [Next]_vars, Quorate,
           newest' = newest, strshares' = strshares, session_key' = session_key,
           ksid' \in Nat, ksid' >= ksid,
           \A A \in SUBSET KS :
               /\ \A i \in A : AtLeast(i, newest)
               /\ reply > 0 =>
                      /\ AtLeast(ksid, reply)
                      /\ ksid \in A => reply >= newest
               => (reply' > 0 =>
                      /\ Newer(file'[ksid'], saving'[ksid'], queue'[ksid'], reply')
                      /\ ksid' \in A => reply' >= newest)
    PROVE  Quorate'
<1>1. PICK A \in SUBSET KS, src \in [1 .. Len(strshares) -> KS] : Backed(A, src)
  BY DEF Quorate
<1>2. Backed(A, src)'
  <2>1. reply' > 0 =>
            /\ Newer(file'[ksid'], saving'[ksid'], queue'[ksid'], reply')
            /\ ksid' \in A => reply' >= newest
    BY <1>1 DEF Backed
  <2>2. QED BY <1>1, <2>1, BackedStep
<1>3. QED BY <1>1, <1>2 DEF Quorate

\* Two quorums of the KeyStores have one in common.
LEMMA QuorumsMeet ==
    ASSUME 2 * SSS_T > KSN_NUM, NEW A \in SUBSET KS, NEW B \in SUBSET KS,
           Cardinality(A) >= SSS_T, Cardinality(B) >= SSS_T
    PROVE  A \cap B # {}
<1>1. IsFiniteSet(KS) /\ Cardinality(KS) = KSN_NUM
  <2>1. /\ IsFiniteSet(1 .. KSN_NUM)
        /\ Cardinality(1 .. KSN_NUM) = IF 1 > KSN_NUM THEN 0 ELSE KSN_NUM - 1 + 1
    BY Counts, FS_Interval
  <2>2. QED BY <2>1, Counts DEF KS
<1>2. Cardinality(A) \in Nat /\ Cardinality(B) \in Nat
  BY <1>1, FS_Subset, FS_CardinalityType
<1>3. Cardinality(A) + Cardinality(B) > Cardinality(KS)
  BY <1>1, <1>2, Counts
<1>4. A \subseteq KS /\ B \subseteq KS
  OBVIOUS
<1>5. QED BY <1>1, <1>3, <1>4, FS_MajoritiesIntersect

\* As many KeyStores have answered as there are answers.
LEMMA Answerers ==
    ASSUME NEW n \in Nat, NEW src \in [1 .. n -> KS],
           \A p, q \in 1 .. n : src[p] = src[q] => p = q
    PROVE  /\ {src[p] : p \in 1 .. n} \in SUBSET KS
           /\ Cardinality({src[p] : p \in 1 .. n}) = n
<1> DEFINE B == {src[p] : p \in 1 .. n}
<1>1. IsFiniteSet(1 .. n) /\ Cardinality(1 .. n) = n
  BY FS_Interval
<1>2. src \in Bijection(1 .. n, B)
  BY DEF Bijection, Injection, Surjection, IsInjective
<1>3. ExistsBijection(1 .. n, B)
  BY <1>2 DEF ExistsBijection
<1>4. Cardinality(B) = n
  BY <1>1, <1>3, FS_Bijection
<1>5. QED BY <1>4

\* When there are no answers, the KeyStores that have the newest key will do.
LEMMA BackedWithoutAnswers ==
    ASSUME strshares' = <<>>, reply' = NULL,
           NEW C \in SUBSET KS, newest' > 0 => Cardinality(C) >= SSS_T,
           \A i \in C : Newer(file'[i], saving'[i], queue'[i], newest')
    PROVE  \E D \in SUBSET KS : \E f \in [1 .. Len(strshares') -> KS] :
               Backed(D, f)'
<1>1. PICK f : f \in [1 .. Len(strshares') -> KS]
  <2>1. 1 \in KS
    BY Counts DEF KS
  <2>2. [p \in 1 .. Len(strshares') |-> 1] \in [1 .. Len(strshares') -> KS]
    BY <2>1
  <2>3. QED BY <2>2
<1>2. Len(strshares') = 0 /\ \A p \in 1 .. Len(strshares') : FALSE
  OBVIOUS
<1>3. Backed(C, f)'
  BY <1>2, Counts DEF Backed, AtLeast
<1>4. QED BY <1>1, <1>3

\* ComShare has joined its answers: the KeyStores that gave them have the
\* newest topic key, or those that were known to have it still do.
LEMMA QuorateJoined ==
    ASSUME TypeOK, Known, Asking, [Next]_vars, Quorate, ComShareReturns
    PROVE  Quorate'
<1>1. PICK A \in SUBSET KS, src \in [1 .. Len(strshares) -> KS] : Backed(A, src)
  BY DEF Quorate
<1> DEFINE n == Len(strshares)
           B == {src[p] : p \in 1 .. n}
<1>2. /\ newest \in Nat /\ Combined \in Int /\ n \in Nat
      /\ Combined > 0 => n >= SSS_T /\ \A p \in 1 .. n : strshares[p] = Combined
  BY SubscriberTypes, JoinedFacts
<1>3. /\ session_key' = Combined /\ strshares' = <<>> /\ reply' = NULL
      /\ newest' = IF Combined > newest THEN Combined ELSE newest
  BY DEF ComShareReturns, Asking
<1>4. /\ \A i \in A : Newer(file'[i], saving'[i], queue'[i], newest)
      /\ \A p \in 1 .. n : strshares[p] > 0 =>
             Newer(file'[src[p]], saving'[src[p]], queue'[src[p]], strshares[p])
  BY <1>1, BackedStays
<1>5. /\ newest > 0 => Cardinality(A) >= SSS_T
      /\ \A p \in 1 .. n : \A q \in 1 .. n : src[p] = src[q] => p = q
      /\ \A p \in 1 .. n : strshares[p] > 0 /\ src[p] \in A => strshares[p] >= newest
  BY <1>1 DEF Backed
<1>6. B \in SUBSET KS /\ Cardinality(B) = n
  BY <1>2, <1>5, Answerers
<1>7. ASSUME NEW C \in SUBSET KS, newest' > 0 => Cardinality(C) >= SSS_T,
             \A i \in C : Newer(file'[i], saving'[i], queue'[i], newest')
      PROVE  \E D \in SUBSET KS : \E f \in [1 .. Len(strshares') -> KS] :
                 Backed(D, f)'
  BY <1>3, <1>7, BackedWithoutAnswers
<1>8. CASE Combined > newest
  <2>1. newest' = Combined /\ Combined > 0
    BY <1>2, <1>3, <1>8
  <2>2. \A i \in B : Newer(file'[i], saving'[i], queue'[i], newest')
    BY <1>2, <1>4, <2>1
  <2>3. Cardinality(B) >= SSS_T
    BY <1>2, <1>6, <2>1
  <2>4. session_key' >= newest'
    BY <1>2, <1>3, <2>1
  <2>5. \E D \in SUBSET KS : \E f \in [1 .. Len(strshares') -> KS] : Backed(D, f)'
    BY <1>6, <1>7, <2>2, <2>3
  <2>6. QED BY <2>4, <2>5 DEF Quorate
<1>9. CASE ~ (Combined > newest)
  <2>1. newest' = newest
    BY <1>3, <1>9
  <2>2. \E D \in SUBSET KS : \E f \in [1 .. Len(strshares') -> KS] : Backed(D, f)'
    BY <1>4, <1>5, <1>7, <2>1
  <2>3. ASSUME 2 * SSS_T > KSN_NUM, Combined > 0 PROVE Combined >= newest
    <3>1. newest > 0 /\ Cardinality(A) >= SSS_T
      BY <1>2, <1>5, <1>9, <2>3
    <3>2. Cardinality(B) >= SSS_T
      BY <1>2, <1>6, <2>3
    <3>3. A \cap B # {}
      BY <1>6, <2>3, <3>1, <3>2, QuorumsMeet
    <3>4. PICK p \in 1 .. n : src[p] \in A
      BY <3>3
    <3>5. QED BY <1>2, <1>5, <2>3, <3>4
  <2>4. QED BY <1>3, <2>1, <2>2, <2>3 DEF Quorate
<1>10. QED BY <1>8, <1>9

\* GetShare has one more answer, of a KeyStore that gave none before.
LEMMA QuorateAnswered ==
    ASSUME TypeOK, Known, Asking, [Next]_vars, Quorate, GetShareReturns
    PROVE  Quorate'
<1>1. PICK A \in SUBSET KS, src \in [1 .. Len(strshares) -> KS] : Backed(A, src)
  BY DEF Quorate
<1>2. /\ UNCHANGED <<session_key, newest>> /\ reply' = NULL /\ ksid' = ksid + 1
      /\ ksid \in KS
      /\ strshares' = Append(strshares, reply) \/ strshares' = strshares
  BY Counts DEF GetShareReturns, Asking, TypeOK, KS
<1>3. ksid \in Nat /\ ksid' \in Nat /\ ksid' >= ksid
  BY <1>2, SubscriberTypes
<1>4. CASE strshares' = strshares
  <2>1. ~ (reply' > 0)
    BY <1>2, Counts
  <2>2. QED BY <1>2, <1>3, <1>4, <2>1, NextQuorateSame
<1>5. CASE strshares' = Append(strshares, reply)
  <2> DEFINE n == Len(strshares)
  <2>0. PICK f : f = [p \in 1 .. n + 1 |-> IF p = n + 1 THEN ksid ELSE src[p]]
    OBVIOUS
  <2>1. /\ n \in Nat /\ Len(strshares') = n + 1
        /\ \A p \in 1 .. n + 1 :
               strshares'[p] = IF p = n + 1 THEN reply ELSE strshares[p]
    <3>1. reply \in Refusal .. MaxKey
      BY DEF TypeOK
    <3>2. QED BY <1>5, <3>1, SubscriberTypes, AppendFacts
  <2>2. f \in [1 .. Len(strshares') -> KS]
    BY <1>2, <2>0, <2>1
  <2>3. /\ newest > 0 => Cardinality(A) >= SSS_T
        /\ \A p \in 1 .. n :
               /\ src[p] < ksid
               /\ \A q \in 1 .. n : src[p] = src[q] => p = q
               /\ strshares[p] > 0 /\ src[p] \in A => strshares[p] >= newest
        /\ reply > 0 /\ ksid \in A => reply >= newest
    BY <1>1 DEF Backed
  <2>4. /\ \A i \in A : Newer(file'[i], saving'[i], queue'[i], newest)
        /\ \A p \in 1 .. n : strshares[p] > 0 =>
               Newer(file'[src[p]], saving'[src[p]], queue'[src[p]], strshares[p])
        /\ reply > 0 => Newer(file'[ksid], saving'[ksid], queue'[ksid], reply)
    BY <1>1, <1>2, BackedStays
  <2>5. ASSUME NEW p \in 1 .. n + 1
        PROVE  /\ f[p] < ksid'
               /\ \A q \in 1 .. n + 1 : f[p] = f[q] => p = q
               /\ strshares'[p] > 0 =>
                      /\ Newer(file'[f[p]], saving'[f[p]], queue'[f[p]],
                               strshares'[p])
                      /\ f[p] \in A => strshares'[p] >= newest
    <3>1. f[n + 1] = ksid /\ n + 1 \in 1 .. n + 1 /\ ksid < ksid'
      BY <1>2, <1>3, <2>0, <2>1
    <3>2. \A q \in 1 .. n + 1 : q # n + 1 =>
              q \in 1 .. n /\ f[q] = src[q] /\ src[q] < ksid /\ src[q] \in Nat
      <4>1. \A q \in 1 .. n : src[q] \in Nat
        BY Counts
      <4>2. \A q \in 1 .. n + 1 : q # n + 1 => q \in 1 .. n /\ f[q] = src[q]
        BY <2>0, <2>1
      <4>3. QED BY <2>3, <4>1, <4>2
    <3>3. f[p] < ksid'
      BY <1>3, <3>1, <3>2
    <3>4. \A q \in 1 .. n + 1 : f[p] = f[q] => p = q
      BY <1>3, <2>3, <3>1, <3>2
    <3>5. CASE p = n + 1
      <4>1. f[p] = ksid /\ strshares'[p] = reply
        BY <2>1, <3>1, <3>5
      <4>2. QED BY <2>3, <2>4, <3>3, <3>4, <4>1
    <3>6. CASE p # n + 1
      <4>1. p \in 1 .. n /\ f[p] = src[p] /\ strshares'[p] = strshares[p]
        BY <2>1, <3>2, <3>6
      <4>2. QED BY <2>3, <2>4, <3>3, <3>4, <4>1
    <3>7. QED BY <3>5, <3>6
  <2>6. Backed(A, f)'
    <3>1. ~ (reply' > 0)
      BY <1>2, Counts
    <3>2. QED BY <1>2, <2>1, <2>3, <2>4, <2>5, <3>1 DEF Backed, AtLeast
  <2>7. QED BY <1>2, <2>2, <2>6 DEF Quorate
<1>6. QED BY <1>2, <1>4, <1>5

\* Each step keeps the quorums.
LEMMA NextQuorate == IInv /\ [Next]_vars => Quorate'
<1> SUFFICES ASSUME TypeOK, Known, InOrder, Asking, Quorate, [Next]_vars
             PROVE  Quorate'
  BY DEF IInv
<1> USE Counts
<1>0. ksid \in Nat /\ (reply > 0 => ksid \in KS)
  <2>1. ksid \in 1 .. KSN_NUM + 1
    BY DEF TypeOK
  <2>2. reply > 0 => pc = "GetShare" /\ ksid <= KSN_NUM
    BY DEF Asking
  <2>3. QED BY <2>1, <2>2 DEF KS
<1>1. CASE UNCHANGED <<newest, strshares, session_key, ksid, reply>>
  <2>1. ASSUME reply > 0, AtLeast(ksid, reply)
        PROVE  Newer(file'[ksid], saving'[ksid], queue'[ksid], reply)
    <3>1. reply \in Int /\ reply <= topic_key
      BY SubscriberTypes DEF Known
    <3>2. QED BY <1>0, <2>1, <3>1, AtLeastStays
  <2>2. QED BY <1>0, <1>1, <2>1, NextQuorateSame
<1>2. ASSUME NEW i \in KS, Evaluate(i) PROVE Quorate'
  <2>1. UNCHANGED <<newest, strshares, session_key, ksid>>
    BY <1>2, EvaluateFacts
  <2>2. CASE reply' = reply
    BY <1>1, <2>1, <2>2
  <2>3. CASE reply' \in {file[i], Garbage, Refusal} /\ Head(backlog[i]) = "live"
    <3>1. i = ksid
      <4>1. backlog[i] \in Seq({"live", "left", "half"}) /\ backlog[i] # <<>>
        BY <1>2, EvaluateFacts DEF TypeOK
      <4>2. 1 \in 1 .. Len(backlog[i]) /\ backlog[i][1] = "live"
        BY <2>3, <4>1, TailFacts
      <4>3. QED BY <4>2 DEF Asking
    <3>2. /\ file[i] \in Int /\ file[i] <= topic_key /\ AtLeast(i, file[i])
      BY KeyTypes DEF Known, KnownTo, InOrder, OrderOf
    <3>3. Newer(file'[i], saving'[i], queue'[i], file[i])
      BY <3>2, AtLeastStays
    <3>4. reply' > 0 => reply' = file[i]
      BY <2>3
    <3>5. AtLeast(i, newest) /\ file[i] > 0 => file[i] >= newest
      BY DEF AtLeast, Newer
    <3>6. QED BY <1>0, <2>1, <3>1, <3>3, <3>4, <3>5, NextQuorateSame
  <2>4. QED BY <1>2, <2>2, <2>3, EvaluateFacts
<1>3. CASE GetShare
  <2>1. /\ UNCHANGED <<newest, strshares, session_key>> /\ reply' = NULL
        /\ ksid' = ksid \/ ksid' = ksid + 1
    BY <1>3 DEF GetShare, Asking
  <2>2. ksid' \in Nat /\ ksid' >= ksid /\ ~ (reply' > 0)
    BY <1>0, <2>1
  <2>3. QED BY <2>1, <2>2, NextQuorateSame
<1>4. CASE SubscriberRestart
  <2>1. /\ strshares' = <<>> /\ reply' = NULL /\ newest' = newest
        /\ session_key' = NULL
    BY <1>4 DEF SubscriberRestart
  <2>2. PICK A \in SUBSET KS, src \in [1 .. Len(strshares) -> KS] : Backed(A, src)
    BY DEF Quorate
  <2>3. /\ newest > 0 => Cardinality(A) >= SSS_T
        /\ \A i \in A : Newer(file'[i], saving'[i], queue'[i], newest)
    <3>1. newest > 0 => Cardinality(A) >= SSS_T
      BY <2>2 DEF Backed
    <3>2. QED BY <2>2, <3>1, BackedStays
  <2>4. \E D \in SUBSET KS : \E f \in [1 .. Len(strshares') -> KS] : Backed(D, f)'
    BY <2>1, <2>3, BackedWithoutAnswers
  <2>5. ~ (session_key' > 0)
    BY <2>1
  <2>6. QED BY <2>4, <2>5 DEF Quorate
<1>5. QED
  BY <1>1, <1>2, <1>3, <1>4, QuorateJoined, QuorateAnswered
  DEF Next, SecSessionKeyUpdate, SaveSharOpen, SaveSharClose, KsRestart,
      PolicyModule, EvaluateSpins, PemStart, KsCallback, ComShare, vars, subVars

-------------------------------------------------------------------------------
(***************************************************************************)
(* Without faults.                                                         *)
(***************************************************************************)
LEMMA Quiet ==
    ASSUME TypeOK, [Next]_vars, faults' = 0, NeverCrashed'
    PROVE  faults = 0 /\ NeverCrashed /\ NoFault
           /\ \A kind : ~ Fault(kind)
           /\ \A i \in KS : ~ Crash(i)
<1>1. faults = 0
  <2>1. faults' = faults \/ faults' = faults + 1
    BY DEF Next, SecSessionKeyUpdate, SaveSharOpen, SaveSharClose, KsRestart,
           PolicyModule, Evaluate, EvaluateSpins, PemStart, KsCallback, ComShare,
           GetShare, GetShareReturns, ComShareReturns, SubscriberRestart, Fault,
           NoFault, vars
  <2>2. faults \in Nat
    BY Counts DEF TypeOK
  <2>3. QED BY <2>1, <2>2
<1>2. NeverCrashed
  <2>1. ASSUME NEW i \in KS, Evaluate(i), NEW j \in KS
        PROVE  crashed[j] <= crashed'[j]
    <3>1. \A k \in KS : crashed'[k] >= crashed[k]
      BY <2>1, EvaluateFacts, CountedUp DEF TypeOK
    <3>2. QED BY <2>1, <3>1 DEF TypeOK
  <2>2. \A j \in KS : crashed[j] \in Nat
    BY DEF TypeOK
  <2>3. (\E i \in KS : Evaluate(i)) \/ crashed' = crashed
    BY DEF Next, SecSessionKeyUpdate, SaveSharOpen, SaveSharClose, KsRestart,
           PolicyModule, EvaluateSpins, PemStart, KsCallback, ComShare,
           GetShare, GetShareReturns, ComShareReturns, SubscriberRestart, vars,
           pemVars
  <2>4. QED BY <2>1, <2>2, <2>3 DEF NeverCrashed
<1>3. \A kind : ~ Fault(kind)
  BY <1>1 DEF Fault
<1>4. \A i \in KS : ~ Crash(i)
  BY <1>2 DEF Crash, NeverCrashed, TypeOK
<1>5. QED BY <1>1, <1>2, <1>3, <1>4 DEF NoFault

\* A request is answered with the share of the file.
LEMMA QuietEvaluate ==
    ASSUME TypeOK, LeftBehind, [Next]_vars, faults' = 0, NeverCrashed',
           NEW i \in KS, Evaluate(i)
    PROVE  /\ pem' = pem /\ backlog' = [backlog EXCEPT ![i] = Tail(@)]
           /\ Head(backlog[i]) = "live" =>
                  reply' = file[i] \/ (file[i] = Empty /\ reply' = Garbage)
<1>1. output[i] = "none"
  BY Quiet DEF LeftBehind, NeverCrashed, TypeOK
<1>2. ReadShare(i)
  BY <1>1, Quiet DEF Evaluate, IsAuthorized
<1>3. QED BY <1>2, Quiet DEF ReadShare, Answer

\* The last share on its way to a file stays the publisher's topic key.
LEMMA QuietShares ==
    ASSUME TypeOK, [Next]_vars, faults' = 0, NeverCrashed', NEW i \in KS,
           LastShare(i) = topic_key
    PROVE  LastShare(i)' = topic_key'
<1> USE Counts
<1> DEFINE q == queue[i]
<1>1. /\ topic_key \in Nat /\ q \in Seq(1 .. MaxKey) /\ Len(q) \in Nat
      /\ \A n \in 1 .. Len(q) : q[n] \in Nat \ {0}
  BY KeyTypes
<1>2. IF q # <<>> THEN q[Len(q)] = topic_key
      ELSE IF saving[i] # 0 THEN saving[i] = topic_key ELSE file[i] = topic_key
  BY DEF LastShare
<1> HIDE DEF q
<1>3. SUFFICES
          IF queue'[i] # <<>> THEN queue'[i][Len(queue'[i])] = topic_key'
          ELSE IF saving'[i] # 0 THEN saving'[i] = topic_key'
          ELSE file'[i] = topic_key'
  BY DEF LastShare
<1>4. CASE SecSessionKeyUpdate
  <2>1. queue' = Send(KSN_NUM) /\ topic_key < MaxKey /\ topic_key' = topic_key + 1
    BY <1>4, UpdateFacts, Quiet
  <2>2. queue'[i] = Append(q, topic_key') /\ topic_key' \in 1 .. MaxKey
    BY <2>1, SendFacts DEF KS, q
  <2>3. /\ Append(q, topic_key') \in Seq(1 .. MaxKey)
        /\ Len(Append(q, topic_key')) = Len(q) + 1
        /\ Append(q, topic_key')[Len(q) + 1] = topic_key'
    BY <1>1, <2>2, AppendFacts
  <2>4. Append(q, topic_key') # <<>>
    <3>1. Len(Append(q, topic_key')) # 0
      BY <1>1, <2>3
    <3>2. QED BY <2>3, <3>1, EmptySeq
  <2>5. QED BY <2>2, <2>3, <2>4
<1>5. ASSUME NEW j \in KS, SaveSharOpen(j)
      PROVE  LastShare(i)' = topic_key'
  <2>1. topic_key' = topic_key
    BY <1>5 DEF SaveSharOpen
  <2>2. CASE i # j
    <3>1. queue'[i] = q /\ saving'[i] = saving[i] /\ file'[i] = file[i]
      BY <1>5, <2>2, Quiet DEF SaveSharOpen, TypeOK, q
    <3>2. QED BY <1>2, <2>1, <3>1 DEF LastShare
  <2>3. CASE i = j
    <3>1. queue'[i] = Tail(q) /\ saving'[i] = Head(q) /\ q # <<>>
      BY <1>5, <2>3, Quiet DEF SaveSharOpen, TypeOK, q
    <3>2. /\ Head(q) = q[1] /\ Len(q) \in Nat \ {0}
          /\ Tail(q) \in Seq(1 .. MaxKey) /\ Len(Tail(q)) = Len(q) - 1
          /\ \A n \in 1 .. Len(q) - 1 : Tail(q)[n] = q[n + 1]
      BY <1>1, <3>1, TailFacts
    <3>3. CASE Len(q) = 1
      <4>1. queue'[i] = <<>> /\ saving'[i] = topic_key /\ saving'[i] # 0
        BY <1>1, <1>2, <3>1, <3>2, <3>3, EmptySeq, SMTT(30)
      <4>2. QED BY <2>1, <4>1 DEF LastShare
    <3>4. CASE Len(q) # 1
      <4>1. Len(q) - 1 \in 1 .. Len(q) - 1
        BY <3>2, <3>4
      <4>2. Tail(q) # <<>> /\ Tail(q)[Len(q) - 1] = q[Len(q)]
        <5>1. Len(Tail(q)) # 0 /\ (Len(q) - 1) + 1 = Len(q)
          BY <3>2, <3>4
        <5>2. Tail(q)[Len(q) - 1] = q[(Len(q) - 1) + 1]
          BY <3>2, <4>1
        <5>3. QED BY <3>2, <5>1, <5>2, EmptySeq
      <4>3. QED BY <1>2, <2>1, <3>1, <3>2, <4>2 DEF LastShare
    <3>5. QED BY <3>3, <3>4
  <2>4. QED BY <2>2, <2>3
<1>6. ASSUME NEW j \in KS, SaveSharClose(j)
      PROVE  LastShare(i)' = topic_key'
  <2>1. topic_key' = topic_key /\ queue'[i] = q
    BY <1>6 DEF SaveSharClose, q
  <2>2. CASE i # j
    <3>1. saving'[i] = saving[i] /\ file'[i] = file[i]
      BY <1>6, <2>2 DEF SaveSharClose, TypeOK
    <3>2. QED BY <1>2, <2>1, <3>1 DEF LastShare
  <2>3. CASE i = j
    <3>1. saving[i] # 0 /\ saving'[i] = 0 /\ file'[i] = saving[i]
      BY <1>6, <2>3 DEF SaveSharClose, TypeOK
    <3>2. QED BY <1>2, <2>1, <3>1 DEF LastShare
  <2>4. QED BY <2>2, <2>3
<1>7. CASE UNCHANGED keyVars
  BY <1>2, <1>7 DEF keyVars, q
<1>8. QED
  BY <1>4, <1>5, <1>6, <1>7, Quiet
  DEF Next, KsRestart, PolicyModule, Evaluate, EvaluateSpins, PemStart, KsCallback,
      ComShare, GetShare, GetShareReturns, ComShareReturns, SubscriberRestart,
      vars, LastShare

\* A KeyStore that serves has no request that makes its loop spin.
LEMMA NothingCutShort ==
    ASSUME TypeOK, NEW i \in KS, Serving(i)
    PROVE  ~ EvaluateSpins(i)
<1>1. SUFFICES ASSUME EvaluateSpins(i) PROVE FALSE
  OBVIOUS
<1>2. backlog[i] # <<>> /\ Head(backlog[i]) = "half"
      /\ backlog[i] \in Seq({"live", "left", "half"})
  BY <1>1 DEF EvaluateSpins, TypeOK
<1>3. Len(backlog[i]) \in Nat \ {0} /\ backlog[i][1] = "half"
  BY <1>2, TailFacts
<1>4. 1 \in 1 .. Len(backlog[i])
  BY <1>3
<1>5. QED BY <1>3, <1>4 DEF Serving

\* A policy module goes on serving.
LEMMA QuietServing ==
    ASSUME TypeOK, LeftBehind, [Next]_vars, faults' = 0, NeverCrashed',
           \A i \in KS : Serving(i)
    PROVE  \A i \in KS : Serving(i)'
<1>1. \A i \in KS : LastShare(i)' = topic_key'
  BY QuietShares DEF Serving
<1>2. \A i \in KS : /\ backlog[i] \in Seq({"live", "left", "half"})
                    /\ Len(backlog[i]) \in Nat /\ pem[i] = "accept"
                    /\ \A n \in 1 .. Len(backlog[i]) : backlog[i][n] = "live"
  BY LenProperties DEF TypeOK, Serving
<1>3. SUFFICES /\ pem' = pem
               /\ \A i \in KS : \A n \in 1 .. Len(backlog'[i]) :
                      backlog'[i][n] = "live"
  BY <1>1, <1>2 DEF Serving
<1>4. ASSUME NEW i \in KS, Evaluate(i)
      PROVE  /\ pem' = pem
             /\ \A j \in KS : \A n \in 1 .. Len(backlog'[j]) :
                    backlog'[j][n] = "live"
  <2>1. pem' = pem /\ backlog' = [backlog EXCEPT ![i] = Tail(@)]
        /\ backlog[i] # <<>>
    BY <1>4, QuietEvaluate, EvaluateFacts
  <2>2. \A j \in KS : backlog'[j] = IF j = i THEN Tail(backlog[i]) ELSE backlog[j]
    BY <2>1 DEF TypeOK
  <2>3. /\ Len(backlog[i]) \in Nat \ {0}
        /\ Len(Tail(backlog[i])) = Len(backlog[i]) - 1
        /\ \A n \in 1 .. Len(backlog[i]) - 1 :
               Tail(backlog[i])[n] = backlog[i][n + 1]
    BY <1>2, <2>1, TailFacts
  <2>4. \A n \in 1 .. Len(Tail(backlog[i])) :
            n + 1 \in 1 .. Len(backlog[i])
            /\ Tail(backlog[i])[n] = backlog[i][n + 1]
    BY <2>3
  <2>5. \A n \in 1 .. Len(Tail(backlog[i])) : Tail(backlog[i])[n] = "live"
    BY <1>2, <2>4
  <2>6. QED BY <1>2, <2>1, <2>2, <2>5
<1>5. ASSUME NEW i \in KS, EvaluateSpins(i) PROVE FALSE
  BY <1>5, NothingCutShort
<1>6. ASSUME NEW i \in KS, PemStart(i) PROVE FALSE
  BY <1>2, <1>6 DEF PemStart
<1>7. CASE GetShare
  <2>1. pem' = pem /\ ksid \in KS
    BY <1>7 DEF GetShare, ShareWanted, TypeOK, KS
  <2>2. backlog' = [backlog EXCEPT ![ksid] = Append(@, "live")]
    BY <1>2, <1>7, <2>1 DEF GetShare
  <2>3. \A j \in KS : backlog'[j] = IF j = ksid THEN Append(backlog[j], "live")
                                     ELSE backlog[j]
    BY <2>2 DEF TypeOK
  <2>4. "live" \in {"live", "left", "half"}
    OBVIOUS
  <2>5. /\ Len(Append(backlog[ksid], "live")) = Len(backlog[ksid]) + 1
        /\ \A n \in 1 .. Len(backlog[ksid]) + 1 :
               Append(backlog[ksid], "live")[n]
                   = IF n = Len(backlog[ksid]) + 1 THEN "live" ELSE backlog[ksid][n]
    BY <1>2, <2>1, <2>4, AppendFacts
  <2>6. \A n \in 1 .. Len(backlog[ksid]) + 1 : n # Len(backlog[ksid]) + 1 =>
            backlog[ksid][n] = "live"
    BY <1>2, <2>1
  <2>7. \A n \in 1 .. Len(Append(backlog[ksid], "live")) :
            Append(backlog[ksid], "live")[n] = "live"
    BY <2>5, <2>6
  <2>8. ASSUME NEW j \in KS
        PROVE  \A n \in 1 .. Len(backlog'[j]) : backlog'[j][n] = "live"
    <3>1. CASE j = ksid
      <4>1. backlog'[j] = Append(backlog[ksid], "live")
        BY <2>3, <3>1
      <4>2. QED BY <2>7, <4>1
    <3>2. CASE j # ksid
      BY <1>2, <2>3, <3>2
    <3>3. QED BY <3>1, <3>2
  <2>9. QED BY <2>1, <2>8
<1>8. CASE UNCHANGED <<pem, backlog>>
  BY <1>2, <1>8
<1>9. QED
  BY <1>4, <1>5, <1>6, <1>7, <1>8, Quiet
  DEF Next, SecSessionKeyUpdate, SaveSharOpen, SaveSharClose, KsRestart,
      PolicyModule, KsCallback, ComShare, GetShareReturns, ComShareReturns,
      SubscriberRestart, vars, pemVars

\* A KeyStore that is done has the last share in its file.
LEMMA DoneFile ==
    ASSUME NEW i \in KS, Serving(i), KeyStoresAreDone
    PROVE  file[i] = topic_key
BY DEF Serving, LastShare, KeyStoresAreDone

\* Each step keeps an undisturbed run up to date.
LEMMA NextUndisturbed == IInv /\ [Next]_vars => Undisturbed'
<1> SUFFICES ASSUME TypeOK, Known, Asking, LeftBehind, Undisturbed, [Next]_vars,
                    faults' = 0, NeverCrashed'
             PROVE  (\A i \in KS : Serving(i)') /\ UpToDate'
  BY DEF IInv, Undisturbed
<1> USE Counts
<1>1. (\A i \in KS : Serving(i)) /\ UpToDate
  BY Quiet DEF Undisturbed
<1>2. \A i \in KS : Serving(i)'
  BY <1>1, QuietServing
<1> SUFFICES UpToDate'
  BY <1>2
<1>3. /\ topic_key \in Nat /\ cr \in Nat /\ cr <= topic_key
      /\ ksid \in Nat /\ Len(strshares) \in Nat
      /\ strshares \in Seq(Refusal .. MaxKey)
  BY SubscriberTypes DEF TypeOK, Known
<1>4. CASE SecSessionKeyUpdate
  <2>1. /\ topic_key' = topic_key + 1 /\ cr' = cr + 1
        /\ UNCHANGED <<backlog, subVars>>
    BY <1>4, UpdateFacts, Quiet DEF pemVars
  <2>2. cr' # 0 /\ topic_key' > 0
    BY <1>3, <2>1
  <2>3. QED BY <1>1, <2>1, <2>2 DEF UpToDate, subVars
<1>5. ASSUME NEW i \in KS, SaveSharOpen(i) \/ SaveSharClose(i) PROVE UpToDate'
  <2>1. UNCHANGED <<topic_key, cr, backlog, subVars>> /\ ~ KeyStoresAreDone
    BY <1>5 DEF SaveSharOpen, SaveSharClose, pemVars, KeyStoresAreDone
  <2>2. QED BY <1>1, <2>1 DEF UpToDate, subVars
<1>6. ASSUME NEW i \in KS, Evaluate(i) PROVE UpToDate'
  <2>1. UNCHANGED <<keyVars, cr, pc, ksid, strshares, session_key>>
        /\ backlog[i] # <<>> /\ backlog[i] \in Seq({"live", "left", "half"})
    BY <1>6, EvaluateFacts DEF TypeOK
  <2>2. Len(backlog[i]) \in Nat \ {0} /\ Head(backlog[i]) = backlog[i][1]
    BY <2>1, TailFacts
  <2>3. Head(backlog[i]) = "live" /\ pc = "GetShare"
    <3>1. 1 \in 1 .. Len(backlog[i])
      BY <2>2
    <3>2. backlog[i][1] = "live"
      BY <1>1, <3>1 DEF Serving
    <3>3. QED BY <2>2, <3>1, <3>2 DEF Asking
  <2>4. reply' # NULL
    <3>1. pem' = pem /\ pem[i] = "accept"
      BY <1>6, EvaluateFacts, QuietEvaluate
    <3>2. pem' # [pem EXCEPT ![i] = "down"]
      BY <3>1 DEF TypeOK
    <3>3. reply' \in Refusal .. MaxKey \ {NULL}
      BY <1>6, <2>3, <3>2, EvaluateFacts
    <3>4. QED BY <3>3
  <2>5. cr = 0 => KeyStoresAreDone /\ reply' = topic_key
    <3>1. SUFFICES ASSUME cr = 0 PROVE KeyStoresAreDone /\ reply' = topic_key
      OBVIOUS
    <3>2. KeyStoresAreDone /\ topic_key > 0
      BY <1>1, <2>3, <3>1 DEF UpToDate
    <3>3. file[i] = topic_key
      BY <1>1, <3>2, DoneFile
    <3>4. file[i] # Empty
      BY <1>3, <3>3
    <3>5. reply' = file[i]
      BY <1>6, <2>3, <3>4, QuietEvaluate
    <3>6. QED BY <3>2, <3>3, <3>5
  <2>6. UNCHANGED <<topic_key, queue, saving>>
    BY <2>1 DEF keyVars
  <2>7. cr = 0 => KeyStoresAreDone'
    BY <2>5, <2>6 DEF KeyStoresAreDone
  <2>8. QED BY <1>1, <2>1, <2>3, <2>4, <2>5, <2>6, <2>7 DEF UpToDate
<1>7. CASE KsCallback
  <2>1. /\ cr > 0 /\ pc = "loop" /\ pc' = "ComShare" /\ KeyStoresAreDone
        /\ UNCHANGED <<keyVars, ksid, strshares, reply, session_key>>
    BY <1>7, Quiet DEF KsCallback
  <2>2. topic_key > 0
    BY <1>3, <2>1
  <2>3. reply = NULL /\ strshares = <<>> /\ \A p \in 1 .. Len(strshares) : FALSE
    <3>1. strshares = <<>> /\ reply = NULL
      BY <2>1 DEF Asking
    <3>2. Len(strshares) = 0
      BY <3>1
    <3>3. QED BY <3>1, <3>2
  <2>4. KeyStoresAreDone'
    BY <2>1 DEF KeyStoresAreDone, keyVars
  <2>5. QED BY <1>1, <2>1, <2>2, <2>3, <2>4 DEF UpToDate, keyVars
<1>8. CASE GetShare
  <2>1. /\ UNCHANGED <<keyVars, cr, strshares, reply, session_key>>
        /\ pc = "ComShare" /\ ksid \in KS
    BY <1>8 DEF GetShare, ShareWanted, TypeOK, KS
  <2>2. /\ backlog' = [backlog EXCEPT ![ksid] = Append(@, "live")]
        /\ pc' = "GetShare" /\ ksid' = ksid
    BY <1>1, <1>8, <2>1 DEF GetShare, Serving
  <2>3. \E n \in 1 .. Len(backlog'[ksid]) : backlog'[ksid][n] = "live"
    <3>1. backlog'[ksid] = Append(backlog[ksid], "live")
          /\ backlog[ksid] \in Seq({"live", "left", "half"})
          /\ "live" \in {"live", "left", "half"}
      BY <2>1, <2>2 DEF TypeOK
    <3>2. /\ Len(backlog[ksid]) \in Nat
          /\ Len(Append(backlog[ksid], "live")) = Len(backlog[ksid]) + 1
          /\ Append(backlog[ksid], "live")[Len(backlog[ksid]) + 1] = "live"
      BY <3>1, AppendFacts
    <3>3. Len(backlog[ksid]) + 1 \in 1 .. Len(Append(backlog[ksid], "live"))
      BY <3>2
    <3>4. QED BY <3>1, <3>2, <3>3
  <2>4. KeyStoresAreDone => KeyStoresAreDone'
    BY <2>1 DEF KeyStoresAreDone, keyVars
  <2>5. QED BY <1>1, <2>1, <2>2, <2>3, <2>4 DEF UpToDate, keyVars
<1>9. CASE GetShareReturns
  <2>1. /\ UNCHANGED <<keyVars, cr, session_key>> /\ pc = "GetShare"
        /\ pc' = "ComShare" /\ ksid' = ksid + 1 /\ reply' = NULL
    BY <1>9 DEF GetShareReturns
  <2>2. reply # NULL
    <3>1. reply = NULL => ~ Closed
      BY <1>1, <2>1 DEF UpToDate, Closed
    <3>2. QED BY <1>9, <3>1 DEF GetShareReturns
  <2>3. /\ Len(strshares') = Len(strshares) + 1
        /\ \A p \in 1 .. Len(strshares) + 1 :
               strshares'[p] = IF p = Len(strshares) + 1 THEN reply ELSE strshares[p]
    <3>1. strshares' = Append(strshares, reply)
      BY <1>9, <2>2 DEF GetShareReturns
    <3>2. reply \in Refusal .. MaxKey
      BY DEF TypeOK
    <3>3. QED BY <1>3, <3>1, <3>2, AppendFacts
  <2>4. Len(strshares') = ksid' - 1
    BY <1>1, <1>3, <2>1, <2>3 DEF UpToDate
  <2>5. ASSUME cr = 0
        PROVE  KeyStoresAreDone' /\ \A p \in 1 .. Len(strshares') :
                                        strshares'[p] = topic_key
    <3>1. /\ KeyStoresAreDone /\ reply = topic_key
          /\ \A p \in 1 .. Len(strshares) : strshares[p] = topic_key
      BY <1>1, <2>1, <2>2, <2>5 DEF UpToDate
    <3>2. \A p \in 1 .. Len(strshares) + 1 : p # Len(strshares) + 1 =>
              p \in 1 .. Len(strshares)
      BY <1>3
    <3>3. KeyStoresAreDone'
      BY <2>1, <3>1 DEF KeyStoresAreDone, keyVars
    <3>4. QED BY <2>3, <3>1, <3>2, <3>3
  <2>6. QED BY <1>1, <2>1, <2>4, <2>5 DEF UpToDate, keyVars
<1>10. CASE ComShareReturns
  <2>1. /\ UNCHANGED <<keyVars, cr>> /\ pc = "ComShare" /\ pc' = "loop"
        /\ ksid' = 1 /\ strshares' = <<>> /\ session_key' = Combined
        /\ ~ ShareWanted
    BY <1>10 DEF ComShareReturns
  <2>2. Len(strshares) >= SSS_T
    BY <1>1, <1>3, <2>1 DEF ShareWanted, UpToDate
  <2>3. cr = 0 => session_key' = topic_key
    <3>1. SUFFICES ASSUME cr = 0 PROVE session_key' = topic_key
      OBVIOUS
    <3>2. topic_key > 0 /\ \A p \in 1 .. Len(strshares) : strshares[p] = topic_key
      BY <1>1, <2>1, <3>1 DEF UpToDate
    <3>3. 1 \in 1 .. Len(strshares)
      BY <1>3, <2>2
    <3>4. Joined = topic_key
      BY <3>2, <3>3 DEF Joined
    <3>5. Combined = Joined
      BY <1>3, <2>2 DEF Combined
    <3>6. QED BY <2>1, <3>4, <3>5
  <2>4. Len(strshares') = ksid' - 1
    <3>1. Len(strshares') = 0
      BY <2>1
    <3>2. QED BY <2>1, <3>1
  <2>5. QED BY <2>1, <2>3, <2>4 DEF UpToDate, keyVars
<1>11. CASE UNCHANGED <<topic_key, queue, saving, cr, backlog, subVars>>
  BY <1>1, <1>11 DEF UpToDate, KeyStoresAreDone, subVars
<1>12. \A i \in KS : ~ EvaluateSpins(i) /\ ~ PemStart(i)
  BY <1>1, NothingCutShort DEF Serving, PemStart
<1>13. QED
  BY <1>4, <1>5, <1>6, <1>7, <1>8, <1>9, <1>10, <1>11, <1>12, Quiet
  DEF Next, KsRestart, PolicyModule, ComShare, SubscriberRestart, vars, keyVars,
      pemVars

-------------------------------------------------------------------------------
(***************************************************************************)
(* The theorems.                                                           *)
(***************************************************************************)
LEMMA InitIInv == Init => IInv
<1> SUFFICES ASSUME Init PROVE IInv
  OBVIOUS
<1> USE Counts
<1>1. /\ Len(<<>>) = 0 /\ \A n \in 1 .. Len(<<>>) : FALSE
      /\ \A S : <<>> \in Seq(S)
  BY EmptySeq
<1>2. TypeOK
  BY <1>1 DEF Init, TypeOK
<1>3. Known /\ InOrder
  BY <1>1 DEF Init, Known, KnownTo, InOrder, OrderOf, AtLeast, Newer
<1>4. Asking /\ LeftBehind
  BY <1>1 DEF Init, Asking, LeftBehind
<1>5. Quorate
  <2>1. PICK src : src \in [1 .. Len(strshares) -> KS]
    <3>1. 1 \in KS
      BY DEF KS
    <3>2. [p \in 1 .. Len(strshares) |-> 1] \in [1 .. Len(strshares) -> KS]
      BY <3>1
    <3>3. QED BY <3>2
  <2>2. Backed({}, src)
    BY <1>1 DEF Init, Backed
  <2>3. session_key >= newest
    BY DEF Init
  <2>4. QED BY <2>1, <2>2, <2>3 DEF Quorate
<1>6. Undisturbed
  <2>1. \A i \in KS : Serving(i)
    BY <1>1 DEF Init, Serving, LastShare
  <2>2. UpToDate
    BY <1>1 DEF Init, UpToDate
  <2>3. QED BY <2>1, <2>2 DEF Undisturbed
<1>7. QED BY <1>2, <1>3, <1>4, <1>5, <1>6 DEF IInv

\* All parts of the invariant together.
LEMMA NextIInv == IInv /\ [Next]_vars => IInv'
BY NextType, NextKnown, NextAsking, NextQuorate, NextLeftBehind, NextUndisturbed
DEF IInv

\* The inductive invariant of subscriber, policy modules and KeyStores.
THEOREM Inductive == Spec => []IInv
<1>1. QED BY InitIInv, NextIInv, PTL DEF Spec

(* The variables of the subscriber, of the policy modules and of the       *)
(* KeyStores have their types, and ComShare never has more than SSS_T      *)
(* answers, whatever the faults.                                           *)
THEOREM TypeCorrect == Spec => []TypeOK
<1>1. IInv => TypeOK
  BY DEF IInv
<1>2. QED BY <1>1, Inductive, PTL

(* A policy module judges by a verdict left behind by another request at   *)
(* most as often as it has crashed, and never when it has not: for any     *)
(* number of policy modules, of faults and of crashes.                     *)
THEOREM VerdictsAreFollowed == Spec => []AnswersFollowVerdicts
<1>1. IInv => AnswersFollowVerdicts
  <2>1. SUFFICES ASSUME TypeOK, LeftBehind, NEW i \in KS
                 PROVE  stale[i] <= crashed[i]
    BY DEF IInv, AnswersFollowVerdicts
  <2>2. /\ stale[i] \in Nat /\ crashed[i] \in Nat
        /\ stale[i] + (IF output[i] = "none" THEN 0 ELSE 1) <= crashed[i]
    BY <2>1 DEF TypeOK, LeftBehind
  <2>3. QED BY <2>2
<1>2. QED BY <1>1, Inductive, PTL

(* Without faults, a subscriber that has handled the last credential       *)
(* message has the publisher's topic key.                                  *)
THEOREM KeyIsReached == Spec => []RestsWithKey
<1>1. IInv => RestsWithKey
  BY DEF IInv, Undisturbed, UpToDate, RestsWithKey, NeverCrashed
<1>2. QED BY <1>1, Inductive, PTL

(* With quorums that intersect, and whatever the faults, the subscriber    *)
(* never goes back to an earlier topic key.                                *)
THEOREM NoKeyComesBack == Spec => KeyGoesForward
<1>1. ASSUME IInv, Quorate', [Next]_vars
      PROVE  [2 * SSS_T > KSN_NUM /\ session_key' > 0
                  => session_key' >= newest]_vars
  <2>1. TypeOK
    BY <1>1 DEF IInv
  <2>2. newest' = newest \/ (newest' = session_key' /\ session_key' > newest)
    BY <1>1 DEF Next, SecSessionKeyUpdate, SaveSharOpen, SaveSharClose, KsRestart,
            PolicyModule, Evaluate, EvaluateSpins, PemStart, KsCallback, ComShare,
            GetShare, GetShareReturns, ComShareReturns, SubscriberRestart, vars,
            subVars
  <2>3. CASE newest' = newest
    BY <1>1, <2>3 DEF Quorate
  <2>4. CASE session_key' > newest
    <3>1. session_key' \in Int /\ newest \in Int
      BY <1>1, <2>1, NextType, SubscriberTypes, Counts DEF TypeOK
    <3>2. QED BY <2>4, <3>1
  <2>5. QED BY <2>2, <2>3, <2>4
<1>2. IInv => Quorate
  BY DEF IInv
<1>3. QED BY <1>1, <1>2, Inductive, PTL DEF Spec, KeyGoesForward
===============================================================================
