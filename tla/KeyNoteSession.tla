---------------------------- MODULE KeyNoteSession ----------------------------
(***************************************************************************)
(* The sessions of the KeyNote library (environment.c, auxil.c): a program *)
(* opens a session, adds assertions, action attributes and the keys that   *)
(* ask, and puts any number of queries, between which it may change all of *)
(* them.  Each call names its session, and works on the one the library    *)
(* was at last when that is the same.                                      *)
(*                                                                         *)
(* What a query finds depends on work that is kept for the next one: the   *)
(* fields of an assertion are parsed by the first query after it came, and *)
(* only then is it hashed by its authorizer; if a field uses an action     *)
(* attribute, the later queries parse it again, and move the assertion.    *)
(* The verdict on its signature is kept as well.  KeyNoteQuery is what     *)
(* comes then.                                                             *)
(*                                                                         *)
(* An assertion's text is a record [auth, lics, sig, local]: for the       *)
(* Authorizer and the Licensees a key, for the Signature the key that made *)
(* it; each may be Var, the value of the action attribute, and the first   *)
(* two Bad, what the parser refuses.  Attributes are well-formed.  There   *)
(* is one attribute; its definitions hide each other.                      *)
(*                                                                         *)
(* Left out: running out of memory, counters at the limit of an int,       *)
(* attributes whose names are regular expressions, the removal of an       *)
(* attribute that is not defined, which reads the hash table of the wrong  *)
(* size, and the two attributes that the library computes and caches.      *)
(***************************************************************************)
EXTENDS Integers, SequencesExt

CONSTANTS
    Key,             \* principals
    Nobody,          \* the principal "", the value of an undefined attribute
    Var, Bad, None,
    Buckets,         \* HASHTABLESIZE
    keyhash,         \* keynote_keyhash, a function of principals
    Texts,           \* the assertions that come
    MaxSessions, MaxAssertions, MaxAuthorizers, MaxActions
                     \* bounds: sessions ever, the others in those now open

Principal == Key \union {Nobody}
Bucket == 0 .. Buckets - 1

Text == [auth : Key \union {Var, Bad}, lics : Key \union {Var, Bad},
         sig : Key \union {Var}, local : BOOLEAN]

ASSUME SessionAssumption ==
    /\ Nobody \notin Key
    /\ Var \notin Principal /\ Bad \notin Principal /\ None \notin Principal
    /\ Var # Bad /\ None \notin Nat
    /\ Buckets \in Nat \ {0}
    /\ keyhash \in [Principal -> Bucket]
    /\ Texts \subseteq Text
    /\ {MaxSessions, MaxAssertions, MaxAuthorizers, MaxActions} \subseteq Nat

VARIABLES
    sessions,         \* the open sessions by their ids
    sessioncounter,
    current,          \* the id of keynote_current_session, None when NULL
    pc,               \* where a query is
    bucket            \* the loop of keynote_fix_fields that moves assertions

vars == <<sessions, sessioncounter, current, pc, bucket>>

Open == DOMAIN sessions
cur == sessions[current]

\* What is in a hash table, and where.
Entries(table) == UNION {{<<b, i>> : i \in DOMAIN table[b]} : b \in Bucket}
InTable(s) == {sessions[s].table[e[1]][e[2]] : e \in Entries(sessions[s].table)}

\* A change to every assertion of a table, and the removal of the first that
\* has an id, of the first bucket that has one.
EachAssertion(table, F(_)) ==
    [b \in Bucket |-> [i \in DOMAIN table[b] |-> F(table[b][i])]]
Place(list, id) == SelectInSeq(list, LAMBDA a : a.id = id)
Without(table, id) ==
    LET holders == {b \in Bucket : Place(table[b], id) # 0}
    IN  IF holders = {} THEN table
        ELSE [table EXCEPT ![Min(holders)] = RemoveAt(@, Place(@, id))]
Adding(table, b, a) == [table EXCEPT ![b] = <<a>> \o @]

\* What the bounds count: the things in the sessions that are open.
Total(Of(_)) == MapThenSumSet(Of, Open)

\* The value of the attribute in session s.
Attribute(s) == IF sessions[s].env = <<>> THEN Nobody ELSE sessions[s].env[1]
Resolve(field, s) == IF field = Var THEN Attribute(s) ELSE field

-------------------------------------------------------------------------------
Init ==
    /\ sessions = <<>>
    /\ sessioncounter = 0
    /\ current = None
    /\ pc = "idle"
    /\ bucket = 0

\* Every call on session s starts with this.
Switch(s) ==
    /\ pc = "idle"
    /\ s \in Open
    /\ current' = s
Becomes(s, session) == sessions' = [sessions EXCEPT ![s] = session]
Quiet == UNCHANGED <<sessioncounter, pc, bucket>>

\* A call on a session that there is not.
NotFound ==
    /\ pc = "idle"
    /\ sessioncounter < MaxSessions \/ Open # 0 .. sessioncounter - 1
    /\ current' = None
    /\ UNCHANGED sessions /\ Quiet

kn_init ==
    /\ pc = "idle"
    /\ sessioncounter < MaxSessions
    /\ sessions' = [s \in Open \union {sessioncounter} |->
           IF s = sessioncounter
           THEN [env |-> <<>>, auths |-> <<>>, counter |-> 0, values |-> FALSE,
                 table |-> [b \in Bucket |-> <<>>]]
           ELSE sessions[s]]
    /\ current' = sessioncounter
    /\ sessioncounter' = sessioncounter + 1
    /\ UNCHANGED <<pc, bucket>>

kn_close_Stays(s) ==
    /\ pc = "idle"
    /\ s \in Open
    /\ sessions' = [t \in Open \ {s} |-> sessions[t]]
    /\ current' = s
    /\ Quiet
kn_close(s) ==
    /\ pc = "idle"
    /\ s \in Open
    /\ sessions' = [t \in Open \ {s} |-> sessions[t]]
    /\ current' = None
    /\ Quiet

kn_add_action(s, v) ==
    /\ Switch(s)
    /\ Total(LAMBDA o : Len(sessions[o].env)) < MaxActions
    /\ Becomes(s, [sessions[s] EXCEPT !.env = <<v>> \o @])
    /\ Quiet

kn_remove_action(s) ==
    /\ Switch(s)
    /\ sessions[s].env # <<>>
    /\ Becomes(s, [sessions[s] EXCEPT !.env = Tail(@)])
    /\ Quiet

kn_cleanup_action_environment(s) ==
    /\ Switch(s)
    /\ Becomes(s, [sessions[s] EXCEPT !.env = <<>>])
    /\ Quiet

kn_add_authorizer(s, k) ==
    /\ Switch(s)
    /\ Total(LAMBDA o : Len(sessions[o].auths)) < MaxAuthorizers
    /\ Becomes(s, [sessions[s] EXCEPT !.auths = <<k>> \o @])
    /\ Quiet

\* The loop compares each key and then removes the one that follows it.
kn_remove_authorizer(s, k) ==
    /\ Switch(s)
    /\ LET auths == sessions[s].auths
           at == SelectInSeq(auths, LAMBDA a : a = k)
       IN  Becomes(s, [sessions[s] EXCEPT !.auths =
               CASE at = 1 -> Tail(@)
                 [] at > 1 /\ at < Len(auths) -> RemoveAt(@, at + 1)
                 [] OTHER -> @])
    /\ Quiet

\* The assertion's bucket is that of its text, which may be any.  (Of the two
\* bounds the second implies the first.)
kn_add_assertion(s, t) ==
    /\ Switch(s)
    /\ sessions[s].counter < MaxAssertions
    /\ Total(LAMBDA o : sessions[o].counter) < MaxAssertions
    /\ \E b \in Bucket :
           Becomes(s, [sessions[s] EXCEPT
               !.table = Adding(@, b,
                   [id |-> sessions[s].counter, text |-> t, auth |-> None,
                    lics |-> None, sig |-> None, sigresult |-> "untouched",
                    needproc |-> TRUE, processed |-> FALSE, error |-> FALSE]),
               !.counter = @ + 1])
    /\ Quiet

kn_remove_assertion(s, id) ==
    /\ Switch(s)
    /\ Becomes(s, [sessions[s] EXCEPT !.table = Without(@, id)])
    /\ Quiet

\* A program removes the assertions that kn_get_failed gives it one by one.
Failed(a) == a.error \/ (a.sigresult = "false" /\ ~ a.text.local)

RemoveFailed(s) ==
    /\ Switch(s)
    /\ \E a \in InTable(s) :
           /\ Failed(a)
           /\ Becomes(s, [sessions[s] EXCEPT !.table = Without(@, a.id)])
    /\ Quiet

-------------------------------------------------------------------------------
(***************************************************************************)
(* A query.                                                                *)
(***************************************************************************)
Asks(s, given) == /\ sessions[s].auths # <<>>
                  /\ given \/ sessions[s].values

QueryRefused(s, given) ==
    /\ Switch(s)
    /\ ~ Asks(s, given)
    /\ UNCHANGED sessions /\ Quiet

\* A field that used a variable when it was parsed will be parsed again.
Weird(a, field) == ~ a.needproc /\ a.text[field] = Var

Reset_KeepsVerdict(a) == [a EXCEPT !.processed = FALSE, !.error = FALSE]
Reset(a) ==
    [a EXCEPT !.processed = FALSE, !.error = FALSE,
              !.sigresult = IF Weird(a, "sig") THEN "untouched" ELSE @]
kn_do_query_KeepsProcessed(s, given) ==
    /\ Switch(s)
    /\ Asks(s, given)
    /\ Becomes(s, [sessions[s] EXCEPT !.values = TRUE,
                   !.table = EachAssertion(@, LAMBDA a :
                       [Reset(a) EXCEPT !.processed = a.processed])])
    /\ pc' = "fix"
    /\ UNCHANGED <<sessioncounter, bucket>>
kn_do_query(s, given) ==
    /\ Switch(s)
    /\ Asks(s, given)
    /\ Becomes(s, [sessions[s] EXCEPT !.values = TRUE,
                   !.table = EachAssertion(@, Reset)])
    /\ pc' = "fix"
    /\ UNCHANGED <<sessioncounter, bucket>>

\* One field of an assertion: parsed when it is new or uses a variable.
Parsed(a, field) ==
    CASE ~ a.needproc /\ a.text[field] # Var -> a[field]
      [] a.text[field] = Bad -> None
      [] OTHER -> Resolve(a.text[field], current)
Fixed(a) ==
    [a EXCEPT !.sig = Parsed(a, "sig"), !.lics = Parsed(a, "lics"),
              !.auth = Parsed(a, "auth"),
              !.error = a.needproc /\ Bad \in {a.text.auth, a.text.lics}]

keynote_fix_fields ==
    /\ pc = "fix"
    /\ Becomes(current, [cur EXCEPT !.table = EachAssertion(@, Fixed)])
    /\ pc' = "reposition"
    /\ bucket' = 0
    /\ UNCHANGED <<sessioncounter, current>>

\* The first assertion of the bucket that has still to be moved.
HasToMove(a) == a.needproc \/ (Weird(a, "auth") /\ ~ a.processed)
mover == SelectInSeq(cur.table[bucket], HasToMove)

\* It goes to the front of a bucket, and this one is looked at again.
Move_OnlyNew ==
    /\ pc = "reposition" /\ bucket < Buckets /\ mover # 0
    /\ LET a == [cur.table[bucket][mover] EXCEPT !.needproc = FALSE] IN
           /\ a.auth # None
           /\ Becomes(current, [cur EXCEPT !.table =
                  Adding(Without(@, a.id), keyhash[a.auth], a)])
    /\ UNCHANGED <<sessioncounter, current, pc, bucket>>
Move_Copies ==
    /\ pc = "reposition" /\ bucket < Buckets /\ mover # 0
    /\ LET a == [cur.table[bucket][mover] EXCEPT !.needproc = FALSE,
                                                 !.processed = TRUE]
       IN  /\ a.auth # None
           /\ Becomes(current, [cur EXCEPT !.table =
                  Adding([@ EXCEPT ![bucket][mover] = a], keyhash[a.auth], a)])
    /\ UNCHANGED <<sessioncounter, current, pc, bucket>>
Move ==
    /\ pc = "reposition" /\ bucket < Buckets /\ mover # 0
    /\ LET a == [cur.table[bucket][mover] EXCEPT !.needproc = FALSE,
                                                 !.processed = TRUE]
       IN  /\ a.auth # None
           /\ Becomes(current, [cur EXCEPT !.table =
                  Adding(Without(@, a.id), keyhash[a.auth], a)])
    /\ UNCHANGED <<sessioncounter, current, pc, bucket>>

\* One without an authorizer cannot be hashed: it is taken out all the same,
\* and the query fails.
MoveFails ==
    /\ pc = "reposition" /\ bucket < Buckets /\ mover # 0
    /\ LET a == cur.table[bucket][mover] IN
           /\ a.auth = None
           /\ Becomes(current, [cur EXCEPT !.table = Without(@, a.id)])
    /\ pc' = "idle"
    /\ UNCHANGED <<sessioncounter, current, bucket>>

NextBucket ==
    /\ pc = "reposition" /\ bucket < Buckets /\ mover = 0
    /\ bucket' = bucket + 1
    /\ UNCHANGED <<sessions, sessioncounter, current, pc>>

AllInPlace ==
    /\ pc = "reposition" /\ bucket = Buckets
    /\ pc' = "evaluate"
    /\ bucket' = 0
    /\ UNCHANGED <<sessions, sessioncounter, current>>

\* keynote_sigverify_assertion: only a key can have signed.
Verifies(a) == a.sig = a.auth /\ a.auth \in Key

\* KeyNoteQuery: the assertions that the search comes to are judged.
keynote_evaluate_query ==
    /\ pc = "evaluate"
    /\ \E ids \in SUBSET {a.id : a \in InTable(current)} :
           Becomes(current, [cur EXCEPT !.table = EachAssertion(@, LAMBDA a :
               IF a.id \in ids /\ a.sigresult = "untouched"
               THEN [a EXCEPT !.sigresult =
                        IF a.text.local \/ Verifies(a) THEN "true" ELSE "false"]
               ELSE a)])
    /\ pc' = "idle"
    /\ UNCHANGED <<sessioncounter, current, bucket>>

-------------------------------------------------------------------------------
QueryStep == \/ keynote_fix_fields
             \/ Move \/ MoveFails \/ NextBucket \/ AllInPlace
             \/ keynote_evaluate_query

Call(s) ==
    \/ kn_close(s)
    \/ \E v \in Key : kn_add_action(s, v)
    \/ kn_remove_action(s)
    \/ kn_cleanup_action_environment(s)
    \/ \E k \in Key : kn_add_authorizer(s, k) \/ kn_remove_authorizer(s, k)
    \/ \E t \in Texts : kn_add_assertion(s, t)
    \/ \E id \in 0 .. MaxAssertions - 1 : kn_remove_assertion(s, id)
    \/ RemoveFailed(s)
    \/ \E given \in BOOLEAN : kn_do_query(s, given) \/ QueryRefused(s, given)

Next == \/ kn_init
        \/ NotFound
        \/ \E s \in Open : Call(s)
        \/ QueryStep

Spec == Init /\ [][Next]_vars

\* A query runs to its end before it returns; nobody has to call anything.
FairSpec == Spec /\ WF_vars(QueryStep)

-------------------------------------------------------------------------------
AssertionType ==
    [id : 0 .. MaxAssertions - 1, text : Texts, auth : Principal \union {None},
     lics : Principal \union {None}, sig : Principal \union {None},
     sigresult : {"untouched", "true", "false"}, needproc : BOOLEAN,
     processed : BOOLEAN, error : BOOLEAN]

\* The type invariant; a query is under way only in a session.
TypeOK ==
    /\ sessioncounter \in 0 .. MaxSessions
    /\ Open \subseteq 0 .. sessioncounter - 1
    /\ current \in Open \union {None}
    /\ pc \in {"idle", "fix", "reposition", "evaluate"}
    /\ pc # "idle" => current # None
    /\ bucket \in 0 .. Buckets
    /\ \A s \in Open :
           /\ sessions[s].env \in Seq(Key) /\ sessions[s].auths \in Seq(Key)
           /\ sessions[s].counter \in 0 .. MaxAssertions
           /\ sessions[s].values \in BOOLEAN
           /\ DOMAIN sessions[s].table = Bucket
           /\ \A b \in Bucket : \A i \in DOMAIN sessions[s].table[b] :
                  sessions[s].table[b][i] \in AssertionType

\* An assertion is in the hash table once, whatever was moved between the
\* buckets while they were walked: it is judged once, and freed once.
UniquePlace ==
    /\ TypeOK
    /\ \A s \in Open : \A e, f \in Entries(sessions[s].table) :
           sessions[s].table[e[1]][e[2]].id = sessions[s].table[f[1]][f[2]].id
               => e = f

\* When a query starts to evaluate, each assertion has the authorizer, the
\* licensees and the signature that its text gives under the attributes of now,
\* whatever they were in earlier queries, and stands in the bucket in which
\* keynote_find_assertion looks for that authorizer.
QuerySeesPresent ==
    pc = "evaluate" =>
        \A e \in Entries(cur.table) :
            LET a == cur.table[e[1]][e[2]] IN
                /\ ~ a.needproc
                /\ a.auth = Resolve(a.text.auth, current)
                /\ a.sig = Resolve(a.text.sig, current)
                /\ a.lics = IF a.text.lics = Bad THEN None
                            ELSE Resolve(a.text.lics, current)
                /\ e[1] = keyhash[a.auth]

\* The verdict on a signature that a query has from an earlier one is that on
\* the signature of now, for an Authorizer that is a key (see the README for
\* one that is an attribute: its verdict is never taken back).
SignaturesAreCurrent ==
    pc = "evaluate" =>
        \A a \in InTable(current) :
            ~ a.text.local /\ a.text.auth # Var /\ a.sigresult # "untouched"
                => (a.sigresult = "true" <=> Verifies(a))

\* Every query returns, however often the loop that moves the assertions goes
\* back to the start of a bucket.
QueryEnds == pc # "idle" ~> pc = "idle"
===============================================================================
