------------------------------ MODULE Subscriber ------------------------------
(***************************************************************************)
(* How a subscriber (Subscriber/subscriber.c) gets a topic key: for each   *)
(* credential message of the publisher it asks the policy evaluation       *)
(* modules (KeyStore/KSPEM/PolicyEvaluationModule.c) one after the other   *)
(* over TCP, until it has SSS_T answers, and joins them.  A policy module  *)
(* reads the share from the file that its KeyStore writes.                 *)
(*                                                                         *)
(* A topic key with its shares is one number.  The KeyStores, and Phase II *)
(* of the publisher, are modelled as far as the file and the order of      *)
(* their messages go; modules KeyStore and SecMqtt have the rest.  A data  *)
(* message changes nothing at the subscriber and is left out.              *)
(***************************************************************************)
EXTENDS Integers, Sequences

CONSTANTS
    KSN_NUM,    \* number of KeyStores, each with its policy module
    SSS_T,      \* shares that make a quorum
    Faults,     \* what the environment may do: see the actions
    MaxFaults,  \* bound: faults of a behaviour
    MaxKey      \* bound: topic keys

ASSUME QuorumAssumption ==
    /\ KSN_NUM \in Nat /\ SSS_T \in 1 .. KSN_NUM
    /\ Faults \subseteq
           {"slow", "link", "noise", "restart", "refuse", "subscriber"}
    /\ {MaxFaults, MaxKey} \subseteq Nat

KS == 1 .. KSN_NUM

VARIABLES
    topic_key,    \* the publisher's topic key
    queue,        \* queue[i]: shares on their way to KeyStore i
    saving,       \* saving[i]: the share KeyStore i is writing, 0 if none
    file,         \* file[i]: what SHARDB/<i>.txt has
    cr,           \* credential messages on their way to the subscriber
    pem,          \* pem[i]: policy module i "accept"s, "spin"s, or is "down"
    backlog,      \* backlog[i]: connections to policy module i, in order
    output,       \* output[i]: first verdict in its output file
    pc,           \* the subscriber: "loop", "ComShare" or "GetShare"
    ksid,         \* the KeyStore ComShare is at
    strshares,    \* the answers ComShare has
    reply,        \* the answer GetShare is about to read
    session_key,  \* the key the subscriber decrypts with
    newest,       \* history: the latest topic key the subscriber had
    crashed,      \* history: crashed[i], how often policy module i crashed
    stale,        \* history: stale[i], requests it judged by an old verdict
    faults        \* faults so far

keyVars == <<topic_key, queue, saving, file>>
pemVars == <<pem, backlog, output, crashed, stale>>
subVars == <<pc, ksid, strshares, reply, session_key, newest>>
vars == <<keyVars, cr, pemVars, subVars, faults>>

NULL == 0        \* no key, no file, no answer
Garbage == -1    \* bytes that are nobody's share or key
Refusal == -2    \* the answer of 39 zeroes
Empty == -3      \* a file that is open for writing

Init ==
    /\ topic_key = NULL
    /\ queue = [i \in KS |-> <<>>]
    /\ saving = [i \in KS |-> NULL]
    /\ file = [i \in KS |-> NULL]
    /\ cr = 0
    /\ pem = [i \in KS |-> "accept"]
    /\ backlog = [i \in KS |-> <<>>]
    /\ output = [i \in KS |-> "none"]
    /\ pc = "loop"
    /\ ksid = 1
    /\ strshares = <<>>
    /\ reply = NULL
    /\ session_key = NULL
    /\ newest = NULL
    /\ crashed = [i \in KS |-> 0]
    /\ stale = [i \in KS |-> 0]
    /\ faults = 0

Fault(kind) ==
    /\ kind \in Faults
    /\ faults < MaxFaults
    /\ faults' = faults + 1

NoFault == UNCHANGED faults

-------------------------------------------------------------------------------
(***************************************************************************)
(* The publisher and the KeyStores.                                        *)
(***************************************************************************)

\* Mutant of Send: a share overtakes those before it.
Send_Overtakes(n) ==
    [i \in KS |-> IF i <= n THEN <<topic_key'>> \o queue[i] ELSE queue[i]]

\* The new share for the first n KeyStores.
Send(n) ==
    [i \in KS |-> IF i <= n THEN Append(queue[i], topic_key') ELSE queue[i]]

\* The shares in the order of the KeyStores, then the credential; when the
\* link breaks, the rest is lost.
SecSessionKeyUpdate ==
    /\ topic_key < MaxKey
    /\ topic_key' = topic_key + 1
    /\ \/ NoFault /\ queue' = Send(KSN_NUM) /\ cr' = cr + 1
       \/ /\ Fault("link")
          /\ \E n \in 0 .. KSN_NUM : queue' = Send(n)
          /\ UNCHANGED cr
    /\ UNCHANGED <<saving, file, pemVars, subVars>>

\* A KeyStore takes a share and opens its file, which empties it.  With noise
\* it does not have the key of the share, and saves garbage.
SaveSharOpen(i) ==
    /\ saving[i] = NULL /\ queue[i] # <<>>
    /\ queue' = [queue EXCEPT ![i] = Tail(@)]
    /\ \/ NoFault /\ saving' = [saving EXCEPT ![i] = Head(queue[i])]
       \/ Fault("noise") /\ saving' = [saving EXCEPT ![i] = Garbage]
    /\ file' = [file EXCEPT ![i] = Empty]
    /\ UNCHANGED <<topic_key, cr, pemVars, subVars>>

\* A row is shorter than stdio's buffer: all of it is written at the close.
SaveSharClose(i) ==
    /\ saving[i] # NULL
    /\ file' = [file EXCEPT ![i] = saving[i]]
    /\ saving' = [saving EXCEPT ![i] = NULL]
    /\ UNCHANGED <<topic_key, queue, cr, pemVars, subVars, faults>>

\* The KeyStore process is restarted, perhaps while it is writing.
KsRestart(i) ==
    /\ Fault("restart")
    /\ queue' = [queue EXCEPT ![i] = <<>>]
    /\ saving' = [saving EXCEPT ![i] = NULL]
    /\ UNCHANGED <<topic_key, file, cr, pemVars, subVars>>

-------------------------------------------------------------------------------
(***************************************************************************)
(* Policy module i: one connection at a time.                              *)
(***************************************************************************)

\* The answer goes to the subscriber that asked, if it still is there.
Answer(i, a) ==
    /\ reply' = IF Head(backlog[i]) = "live" THEN a ELSE reply
    /\ backlog' = [backlog EXCEPT ![i] = Tail(@)]
    /\ UNCHANGED <<pem, crashed>>

\* The process ends in ReadShare: every connection is closed.
Crash(i) ==
    /\ pem' = [pem EXCEPT ![i] = "down"]
    /\ backlog' = [backlog EXCEPT ![i] = <<>>]
    /\ crashed' = [crashed EXCEPT ![i] = @ + 1]
    /\ UNCHANGED reply

\* ReadShare.  Without a file it reads from a null FILE*; of an empty one it
\* takes apart a line that was never read.
ReadShare(i) ==
    \/ file[i] \notin {NULL, Empty} /\ Answer(i, file[i])
    \/ file[i] = Empty /\ Answer(i, Garbage)
    \/ file[i] \in {NULL, Empty} /\ Crash(i)

\* Mutant of Cleaned: the output file is not removed.
Cleaned_Kept(i, first) == first

\* remove(output), unless the process ends before.
Cleaned(i, first) == IF pem'[i] = "down" THEN first ELSE "none"

\* KeyNote appends its verdict to the output file, and IsAuthorized reads the
\* first one there: the file is named after the socket, which is the same in
\* every run of the process.
IsAuthorized(i, verdict) ==
    IF output[i] = "none" THEN verdict ELSE output[i]

\* One request of a subscriber.
Evaluate(i) ==
    /\ pem[i] = "accept"
    /\ backlog[i] # <<>> /\ Head(backlog[i]) \in {"live", "left"}
    /\ \E verdict \in {"authorized", "unauthorixed"} :
        LET first == IsAuthorized(i, verdict)
        IN  /\ IF verdict = "authorized" THEN NoFault ELSE Fault("refuse")
            /\ IF first = "authorized" THEN ReadShare(i) ELSE Answer(i, Refusal)
            /\ output' = [output EXCEPT ![i] = Cleaned(i, first)]
            /\ stale' = IF first = verdict
                        THEN stale
                        ELSE [stale EXCEPT ![i] = @ + 1]
    /\ UNCHANGED <<keyVars, cr, pc, ksid, strshares, session_key, newest>>

\* Of a request cut short nothing more can be read, and Evaluate goes on
\* reading.
EvaluateSpins(i) ==
    /\ pem[i] = "accept"
    /\ backlog[i] # <<>> /\ Head(backlog[i]) = "half"
    /\ pem' = [pem EXCEPT ![i] = "spin"]
    /\ UNCHANGED <<keyVars, cr, backlog, output, crashed, stale, subVars,
                   faults>>

\* Somebody starts the process again.
PemStart(i) ==
    /\ pem[i] = "down"
    /\ pem' = [pem EXCEPT ![i] = "accept"]
    /\ UNCHANGED <<keyVars, cr, backlog, output, crashed, stale, subVars,
                   faults>>

-------------------------------------------------------------------------------
(***************************************************************************)
(* The subscriber.                                                         *)
(***************************************************************************)

KeyStoresAreDone == \A i \in KS : queue[i] = <<>> /\ saving[i] = NULL

\* A credential message.  Nothing makes it wait until the KeyStores have
\* stored the shares that were sent before it: with "slow" it does not.
KsCallback ==
    /\ pc = "loop" /\ cr > 0
    /\ cr' = cr - 1
    /\ IF KeyStoresAreDone THEN NoFault ELSE Fault("slow")
    /\ pc' = "ComShare"
    /\ UNCHANGED <<keyVars, pemVars, ksid, strshares, reply, session_key,
                   newest>>

\* Mutant of ShareWanted: the loop runs once more.
ShareWanted_OneMore == Len(strshares) <= SSS_T /\ ksid <= KSN_NUM

\* The condition of ComShare's loop.
ShareWanted == Len(strshares) < SSS_T /\ ksid <= KSN_NUM

\* GetShare connects and sends the request; a process that does not run
\* refuses the connection.
GetShare ==
    /\ pc = "ComShare" /\ ShareWanted
    /\ IF pem[ksid] = "down"
       THEN /\ ksid' = ksid + 1
            /\ UNCHANGED <<pc, backlog>>
       ELSE /\ backlog' = [backlog EXCEPT ![ksid] = Append(@, "live")]
            /\ pc' = "GetShare"
            /\ UNCHANGED ksid
    /\ UNCHANGED <<keyVars, cr, pem, output, crashed, stale, strshares, reply,
                   session_key, newest, faults>>

\* Mutant of Closed: a connection that ends without an answer is not noticed.
Closed_Never == FALSE

\* The connection has been closed without an answer: nothing is read.
Closed == \A n \in 1 .. Len(backlog[ksid]) : backlog[ksid][n] # "live"

\* Whatever can be read is taken for a share, a refusal as well.
GetShareReturns ==
    /\ pc = "GetShare"
    /\ \/ reply # NULL /\ strshares' = Append(strshares, reply)
       \/ reply = NULL /\ Closed /\ UNCHANGED strshares
    /\ reply' = NULL
    /\ ksid' = ksid + 1
    /\ pc' = "ComShare"
    /\ UNCHANGED <<keyVars, cr, pemVars, session_key, newest, faults>>

\* What extract_secret_from_share_strings makes of the answers, by module
\* ShamirSecretSharing: the key, if they are all shares of it.
Joined ==
    LET key == strshares[1]
    IN  IF key > 0 /\ \A p \in 1 .. Len(strshares) : strshares[p] = key
        THEN key
        ELSE Garbage

\* Mutant of Combined: a key that is there is kept.
Combined_KeepsKey ==
    IF session_key # NULL THEN session_key
    ELSE IF Len(strshares) < SSS_T THEN NULL ELSE Joined

\* What ComShare returns.
Combined == IF Len(strshares) < SSS_T THEN NULL ELSE Joined

\* ComShare returns, and KsCallback assigns its result.
ComShareReturns ==
    /\ pc = "ComShare" /\ ~ ShareWanted
    /\ session_key' = Combined
    /\ newest' = IF session_key' > newest THEN session_key' ELSE newest
    /\ pc' = "loop"
    /\ ksid' = 1
    /\ strshares' = <<>>
    /\ UNCHANGED <<keyVars, cr, pemVars, reply, faults>>

\* The subscriber is restarted; its session is clean, and a request it was
\* sending is cut short or not.
SubscriberRestart ==
    /\ Fault("subscriber")
    /\ pc' = "loop"
    /\ session_key' = NULL
    /\ ksid' = 1
    /\ strshares' = <<>>
    /\ reply' = NULL
    /\ cr' = 0
    /\ \E how \in {"left", "half"} :
           backlog' = [i \in KS |->
                          [n \in 1 .. Len(backlog[i]) |->
                              IF backlog[i][n] = "live"
                              THEN how
                              ELSE backlog[i][n]]]
    /\ UNCHANGED <<keyVars, pem, output, crashed, stale, newest>>

PolicyModule(i) == Evaluate(i) \/ EvaluateSpins(i)

ComShare == GetShare \/ GetShareReturns \/ ComShareReturns

Next ==
    \/ SecSessionKeyUpdate
    \/ \E i \in KS : SaveSharOpen(i) \/ SaveSharClose(i) \/ KsRestart(i)
    \/ \E i \in KS : PolicyModule(i) \/ PemStart(i)
    \/ KsCallback \/ ComShare \/ SubscriberRestart

Spec == Init /\ [][Next]_vars

\* The two processes keep running; nobody has to start one that ended.
Fairness ==
    /\ WF_vars(ComShare)
    /\ \A i \in KS : WF_vars(PolicyModule(i))

FairSpec == Spec /\ Fairness

-------------------------------------------------------------------------------
(* The variables have their types; ComShare has at most SSS_T answers.     *)
TypeOK ==
    /\ topic_key \in 0 .. MaxKey
    /\ queue \in [KS -> Seq(1 .. MaxKey)]
    /\ saving \in [KS -> Garbage .. MaxKey]
    /\ file \in [KS -> (Garbage .. MaxKey) \cup {Empty}]
    /\ cr \in 0 .. MaxKey
    /\ pem \in [KS -> {"accept", "spin", "down"}]
    /\ backlog \in [KS -> Seq({"live", "left", "half"})]
    /\ output \in [KS -> {"none", "authorized", "unauthorixed"}]
    /\ pc \in {"loop", "ComShare", "GetShare"}
    /\ ksid \in 1 .. KSN_NUM + 1
    /\ strshares \in Seq(Refusal .. MaxKey) /\ Len(strshares) <= SSS_T
    /\ reply \in Refusal .. MaxKey
    /\ session_key \in Garbage .. MaxKey
    /\ newest \in 0 .. MaxKey
    /\ crashed \in [KS -> Nat] /\ stale \in [KS -> Nat]
    /\ faults \in 0 .. MaxFaults

(* With quorums that intersect, the subscriber never goes back to an       *)
(* earlier topic key: not when it asks other KeyStores than last time, nor *)
(* when shares were lost, late or garbled, nor after a restart.            *)
KeyGoesForward ==
    [][2 * SSS_T > KSN_NUM /\ session_key' > 0 => session_key' >= newest]_vars

(* When the subscriber has handled every credential message and none came  *)
(* before its shares were stored, it has the publisher's topic key: a key  *)
(* joined from old and new shares, or too few, while topic keys changed    *)
(* does not last.                                                          *)
RestsWithKey ==
    /\ faults = 0 /\ \A i \in KS : crashed[i] = 0
    /\ cr = 0 /\ pc = "loop"
    => session_key = topic_key

(* A policy module judges a request by the verdict on that request, but    *)
(* that each crash may leave one verdict behind, which judges one later    *)
(* request: a module judges by an old verdict at most as often as it has   *)
(* crashed, and never when it has not.                                     *)
AnswersFollowVerdicts == \A i \in KS : stale[i] <= crashed[i]

(* Asking for shares ends, with any policy modules down, crashing or       *)
(* refusing, unless one waits for the rest of a request.                   *)
ComShareEnds == pc # "loop" ~> pc = "loop" \/ \E i \in KS : pem[i] = "spin"
===============================================================================
