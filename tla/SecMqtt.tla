-------------------------------- MODULE SecMqtt --------------------------------
(***************************************************************************)
(* One publisher (ESP32/SEEMQTT/seemqtt.cpp, driven by the sketch          *)
(* SEEMQTT_TEST.ino) and the KeyStores, over an MQTT broker with QoS 0 and *)
(* clean sessions: Phase I distributes a master key to each KeyStore and   *)
(* waits for its acknowledgement, Phase II distributes the shares of a     *)
(* topic key, Phase III publishes under it.                                *)
(*                                                                         *)
(* Everything SecConnect draws at random for one run of Phase I (master    *)
(* keys, nonces, client topic) is one generation number, over all the      *)
(* boots of the publisher, and so is a topic key with its shares.  The     *)
(* broker keeps the order of the messages to one receiver and drops what   *)
(* the receiver is not connected for.  The publisher has one thread:       *)
(* between two calls of loop() nothing changes its state.                  *)
(***************************************************************************)
EXTENDS Integers, Sequences

CONSTANTS
    KSN_NUM,        \* number of KeyStores
    MAX_SK_USAGE,   \* messages under one topic key
    MAXDBROW,       \* rows of a KeyStore's table
    RECON,          \* the builds considered: with RECON, the sketch
                    \* disconnects each time it has published
    Faults,         \* what the environment may do: see the actions
    MaxFaults,      \* bound: faults of a behaviour
    MaxPhase,       \* bound: runs of Phase I
    MaxKey          \* bound: topic keys

ASSUME CountAssumption ==
    /\ KSN_NUM \in Nat \ {0}
    /\ MAX_SK_USAGE \in Nat \ {0}
    /\ MAXDBROW \in Nat \ {0}
    /\ RECON \subseteq BOOLEAN
    /\ Faults \subseteq {"slow", "link", "refuse", "deaf", "restart", "reboot"}
    /\ {MaxFaults, MaxPhase, MaxKey} \subseteq Nat

KS == 1 .. KSN_NUM

VARIABLES
    pc,              \* where the sketch is: "setup", "loop", in SecConnect's
                     \* "wait" for nonces, in its "hung" wait for connected(),
                     \* or at the "recon" end of loop()'s timer branch
    recon,           \* the build is with RECON
    caller,          \* where SecConnect returns to
    connected,       \* the publisher's connection to the broker
    broker,          \* the broker accepts connections
    secmqtt_state,   \* _secmqtt_state
    phase,           \* generation of masterkey[i], nonce[i] and _conn_topic
    boot,            \* the generations up to this one are of earlier boots
    verified,        \* ksn_list[i].verified
    session_key,     \* generation of _session_key
    sk_counter,      \* _sk_counter
    acktopics,       \* generations of the ack topics the broker has us under
    inbox,           \* acknowledgements on their way to the publisher
    queue,           \* queue[i]: messages on their way to KeyStore i
    listening,       \* KeyStore i is subscribed
    db,              \* db[i]: its table
    checked,         \* history: generation KeyStore i was last verified for
    retried,         \* history: Phase I was run twice in one boot
    published,       \* history: messages encrypted under each topic key
    faults           \* faults so far

pubVars == <<pc, recon, caller, connected, secmqtt_state, phase, boot, verified,
             session_key, sk_counter, checked, retried, published>>
netVars == <<broker, acktopics, inbox, queue>>
ksVars == <<listening, db>>
vars == <<pubVars, netVars, ksVars, faults>>

\* The KeyStores' tables, with one device and one topic; what comes out of a
\* decryption under a wrong key is negative.
Me == 1
DataTopic == 1
DB == INSTANCE KeyStoreDB WITH
    Device <- {Me}, Topic <- {DataTopic}, Key <- 1 .. MaxPhase,
    Share <- 1 .. MaxKey, Noise <- {-1, -2},
    NoHash <- 0, NoKey <- 0, NoShare <- 0

\* Values of _secmqtt_state.
States == {"CONNECTION_TIMEOUT", "KS_DISCONNECTED", "KS_CONNECTED",
           "CONNECT_GOOD_NONCE", "CONNECT_BAD_NONCE"}

Init ==
    /\ pc = "setup"
    /\ recon \in RECON
    /\ caller = "loop"
    /\ connected = FALSE
    /\ broker = TRUE
    /\ secmqtt_state = "KS_DISCONNECTED"
    /\ phase = 0
    /\ boot = 0
    /\ verified = [i \in KS |-> FALSE]
    /\ session_key = 0
    /\ sk_counter = 0
    /\ acktopics = {}
    /\ inbox = <<>>
    /\ queue = [i \in KS |-> <<>>]
    /\ listening = [i \in KS |-> TRUE]
    /\ db = [i \in KS |-> DB!Initdb]
    /\ checked = [i \in KS |-> 0]
    /\ retried = FALSE
    /\ published = [k \in 1 .. MaxKey |-> 0]
    /\ faults = 0

-------------------------------------------------------------------------------
(***************************************************************************)
(* Sending.  The publisher writes one message per KeyStore in a loop and   *)
(* looks at no result: when the connection breaks after the first n, the   *)
(* rest is lost and the loop goes on.                                      *)
(***************************************************************************)
Reached ==
    {n \in 0 .. KSN_NUM :
        n = KSN_NUM \/ ("link" \in Faults /\ faults < MaxFaults)}

\* Mutant of Publish: a message overtakes those before it.
Publish_Overtakes(msg, n) ==
    /\ queue' = [i \in KS |-> IF i <= n /\ listening[i]
                              THEN <<msg>> \o queue[i]
                              ELSE queue[i]]
    /\ connected' = (n = KSN_NUM)
    /\ faults' = IF n = KSN_NUM THEN faults ELSE faults + 1

\* msg goes to the first n KeyStores; later ones, and deaf ones, miss it.
Publish(msg, n) ==
    /\ queue' = [i \in KS |-> IF i <= n /\ listening[i]
                              THEN Append(queue[i], msg)
                              ELSE queue[i]]
    /\ connected' = (n = KSN_NUM)
    /\ faults' = IF n = KSN_NUM THEN faults ELSE faults + 1

\* ibe_encryption raises Gid to a new r in place, and sends the new U = rP
\* alone: no KeyStore can decrypt what it encrypts after the first of a boot.
ibe_encryption(g) == [type |-> "value", phase |-> g, decrypts |-> g = boot + 1]

\* Mutant of SecSessionKeyUpdate: the key is generated once.
SecSessionKeyUpdate_SameKey(g, n) ==
    /\ session_key' = 1
    /\ Publish([type |-> "sk", phase |-> g, share |-> 1], n)

\* The random part of SecSessionKeyUpdate: a topic key and its shares, under
\* the master keys of Phase I number g.
SecSessionKeyUpdate(g, n) ==
    /\ session_key < MaxKey
    /\ session_key' = session_key + 1
    /\ Publish([type |-> "sk", phase |-> g, share |-> session_key + 1], n)

-------------------------------------------------------------------------------
(***************************************************************************)
(* The publisher.                                                          *)
(***************************************************************************)

\* The branch that loop() takes every 5 s ends with the SecDisconnect of RECON.
TimerEnd == IF recon THEN "recon" ELSE "loop"

\* connect(): it does nothing when connected; a new connection is a clean
\* session.  What follows is the rest of SecConnect before the wait.  setup()
\* and reconnect() call it without a connection, the timer branch with one.
SecConnect ==
    /\ pc \in {"setup", "loop"}
    /\ pc = "loop" => ~ connected \/ secmqtt_state # "KS_CONNECTED"
    /\ connected \/ broker
    /\ caller' = IF connected THEN TimerEnd ELSE "loop"
    /\ \E n \in Reached :
        IF secmqtt_state = "KS_CONNECTED"
        THEN /\ SecSessionKeyUpdate(phase, n)
             /\ sk_counter' = 0
             /\ pc' = caller'
             /\ acktopics' = IF connected /\ connected' THEN acktopics ELSE {}
             /\ UNCHANGED <<phase, retried>>
        ELSE /\ phase < MaxPhase /\ session_key < MaxKey
             /\ phase' = phase + 1
             /\ retried' = (retried \/ phase > boot)
             /\ Publish(ibe_encryption(phase + 1), n)
             /\ pc' = "wait"
             /\ acktopics' = IF ~ connected' THEN {}
                             ELSE IF connected THEN acktopics \cup {phase + 1}
                             ELSE {phase + 1}
             /\ UNCHANGED <<session_key, sk_counter>>
    /\ inbox' = IF connected /\ connected' THEN inbox ELSE <<>>
    /\ UNCHANGED <<recon, secmqtt_state, boot, verified, checked, published,
                   broker, ksVars>>

\* connect() failed: while(!connected()) {} never calls it again.
SecConnectHangs ==
    /\ pc \in {"setup", "loop"}
    /\ ~ connected /\ ~ broker
    /\ pc' = "hung"
    /\ UNCHANGED <<recon, caller, connected, secmqtt_state, phase, boot,
                   verified, session_key, sk_counter, checked, retried,
                   published, netVars, ksVars, faults>>

\* The wait is over: the state is GOOD_NONCE, and Phase II follows.
SecConnectDone ==
    /\ pc = "wait"
    /\ secmqtt_state = "CONNECT_GOOD_NONCE"
    /\ secmqtt_state' = "KS_CONNECTED"
    /\ sk_counter' = 0
    /\ pc' = caller
    /\ IF connected
       THEN \E n \in Reached :
                /\ SecSessionKeyUpdate(phase, n)
                /\ acktopics' = IF connected' THEN acktopics ELSE {}
                /\ inbox' = IF connected' THEN inbox ELSE <<>>
       ELSE /\ session_key < MaxKey
            /\ session_key' = session_key + 1
            /\ UNCHANGED <<connected, queue, acktopics, inbox, faults>>
    /\ UNCHANGED <<recon, caller, phase, boot, verified, checked, retried,
                   published, broker, ksVars>>

\* Mutant of TimeIsUp: no timeout without a connection.
TimeIsUp_IfConnected ==
    connected /\ inbox = <<>> /\ \A i \in KS : queue[i] = <<>>

\* SECMQTT_TIMEOUT is over.  Nothing bounds how long a KeyStore takes; unless
\* the environment is "slow", the 90 s are enough for what is underway.
TimeIsUp ==
    \/ "slow" \in Faults
    \/ inbox = <<>> /\ \A i \in KS : queue[i] = <<>>

SecConnectTimeout ==
    /\ pc = "wait"
    /\ secmqtt_state # "CONNECT_GOOD_NONCE"
    /\ TimeIsUp
    /\ secmqtt_state' = "CONNECTION_TIMEOUT"
    /\ pc' = caller
    /\ UNCHANGED <<recon, caller, connected, phase, boot, verified,
                   session_key, sk_counter, checked, retried, published,
                   netVars, ksVars, faults>>

SecConnectBadNonce ==
    /\ pc = "wait"
    /\ secmqtt_state = "CONNECT_BAD_NONCE"
    /\ pc' = caller
    /\ UNCHANGED <<recon, caller, connected, secmqtt_state, phase, boot,
                   verified, session_key, sk_counter, checked, retried,
                   published, netVars, ksVars, faults>>

\* Mutant of secmqtt_check_all_ksn_nonce_stat: one KeyStore is enough.
secmqtt_check_all_ksn_nonce_stat_Or(v) == \E i \in KS : v[i]

secmqtt_check_all_ksn_nonce_stat(v) == \A i \in KS : v[i]

\* Mutants of GoodNonce: no comparison; the nonce before the last.
GoodNonce_Unchecked(ack) == TRUE
GoodNonce_Previous(ack) == ack.phase = phase - 1

\* The acknowledgement is decrypted with the current master key and compared
\* with the current nonce of its KeyStore.
GoodNonce(ack) == ack.phase = phase

\* loop() takes one packet and calls SecCallback, in the wait (until the
\* nonce is good or bad) and in the sketch's loop.
SecCallback ==
    /\ \/ pc = "loop"
       \/ pc = "wait" /\ secmqtt_state \notin {"CONNECT_GOOD_NONCE",
                                               "CONNECT_BAD_NONCE"}
    /\ connected /\ inbox # <<>>
    /\ inbox' = Tail(inbox)
    /\ LET ack  == Head(inbox)
           good == GoodNonce(ack)
       IN  /\ verified' = [verified EXCEPT ![ack.ks] = good]
           /\ checked' = [checked EXCEPT ![ack.ks] = IF good THEN phase ELSE @]
           /\ secmqtt_state' =
                  IF ~ good THEN "CONNECT_BAD_NONCE"
                  ELSE IF secmqtt_check_all_ksn_nonce_stat(verified')
                  THEN "CONNECT_GOOD_NONCE"
                  ELSE secmqtt_state
    /\ UNCHANGED <<recon, pc, caller, connected, phase, boot, session_key,
                   sk_counter, retried, published, broker, acktopics, queue,
                   ksVars, faults>>

\* Mutant of RenewalDue: one message too many.
RenewalDue_Late == sk_counter > MAX_SK_USAGE

\* The topic key has encrypted as many messages as it may.
RenewalDue == sk_counter >= MAX_SK_USAGE

\* SecPublish, with the new topic key when the old one is used up.
SecPublish ==
    /\ pc = "loop"
    /\ secmqtt_state = "KS_CONNECTED"
    /\ connected
    /\ pc' = TimerEnd
    /\ IF RenewalDue
       THEN \E n \in Reached :
                /\ SecSessionKeyUpdate(phase, n)
                /\ sk_counter' = 1
                /\ acktopics' = IF connected' THEN acktopics ELSE {}
                /\ inbox' = IF connected' THEN inbox ELSE <<>>
       ELSE /\ sk_counter' = sk_counter + 1
            /\ UNCHANGED <<connected, session_key, queue, acktopics, inbox,
                           faults>>
    /\ published' = [published EXCEPT ![session_key'] = @ + 1]
    /\ UNCHANGED <<recon, caller, secmqtt_state, phase, boot, verified,
                   checked, retried, broker, ksVars>>

SecDisconnect ==
    /\ pc = "recon"
    /\ pc' = "loop"
    /\ secmqtt_state' = "KS_DISCONNECTED"
    /\ connected' = FALSE
    /\ acktopics' = {}
    /\ inbox' = <<>>
    /\ UNCHANGED <<recon, caller, phase, boot, verified, session_key,
                   sk_counter, checked, retried, published, broker, queue,
                   ksVars, faults>>

-------------------------------------------------------------------------------
(***************************************************************************)
(* A KeyStore takes the message at the head of its queue.                  *)
(***************************************************************************)

\* Phase I: the acknowledgement, for which the broker needs the publisher's
\* subscription, and then the table; a wrong hash, and nothing.
KsValue(i) ==
    /\ queue[i] # <<>> /\ Head(queue[i]).type = "value"
    /\ queue' = [queue EXCEPT ![i] = Tail(@)]
    /\ LET m == Head(queue[i])
       IN  IF m.decrypts
           THEN /\ inbox' = IF connected /\ m.phase \in acktopics
                            THEN Append(inbox, [ks |-> i, phase |-> m.phase])
                            ELSE inbox
                /\ db' = [db EXCEPT ![i] = DB!AddsymK(@, Me, m.phase)]
           ELSE UNCHANGED <<inbox, db>>
    /\ UNCHANGED <<pubVars, broker, acktopics, listening, faults>>

\* Phase II: stored whether or not the tag of the message is right.
KsShare(i) ==
    /\ queue[i] # <<>> /\ Head(queue[i]).type = "sk"
    /\ queue' = [queue EXCEPT ![i] = Tail(@)]
    /\ LET m == Head(queue[i])
       IN  IF DB!GetSymK(db[i], Me) = m.phase
           THEN db' = [db EXCEPT ![i] = DB!Addshare(@, Me, DataTopic, m.share)]
           ELSE \E t, s \in {-1, -2} :
                    db' = [db EXCEPT ![i] = DB!Addshare(@, Me, t, s)]
    /\ UNCHANGED <<pubVars, broker, acktopics, inbox, listening, faults>>

-------------------------------------------------------------------------------
(***************************************************************************)
(* The environment.                                                        *)
(***************************************************************************)
Fault(kind) ==
    /\ kind \in Faults
    /\ faults < MaxFaults
    /\ faults' = faults + 1

\* The publisher's connection breaks, and with it the clean session.
LinkLost ==
    /\ Fault("link")
    /\ connected
    /\ connected' = FALSE
    /\ acktopics' = {}
    /\ inbox' = <<>>
    /\ UNCHANGED <<recon, pc, caller, secmqtt_state, phase, boot, verified,
                   session_key, sk_counter, checked, retried, published,
                   broker, queue, ksVars>>

\* The publisher loses its power: nothing of its state is kept.
Reboot ==
    /\ Fault("reboot")
    /\ pc' = "setup"
    /\ caller' = "loop"
    /\ connected' = FALSE
    /\ secmqtt_state' = "KS_DISCONNECTED"
    /\ boot' = phase
    /\ verified' = [i \in KS |-> FALSE]
    /\ sk_counter' = 0
    /\ acktopics' = {}
    /\ inbox' = <<>>
    /\ UNCHANGED <<recon, phase, session_key, checked, retried, published,
                   broker, queue, ksVars>>

\* The broker refuses new connections for a while.
BrokerRefuses ==
    /\ Fault("refuse")
    /\ broker
    /\ broker' = FALSE
    /\ UNCHANGED <<pubVars, acktopics, inbox, queue, ksVars>>

BrokerAccepts ==
    /\ ~ broker
    /\ broker' = TRUE
    /\ UNCHANGED <<pubVars, acktopics, inbox, queue, ksVars, faults>>

\* A KeyStore's connection breaks: mosquitto_reconnect makes a clean session
\* and the main loop does not subscribe again.
KsDeaf(i) ==
    /\ Fault("deaf")
    /\ listening[i]
    /\ listening' = [listening EXCEPT ![i] = FALSE]
    /\ queue' = [queue EXCEPT ![i] = <<>>]
    /\ UNCHANGED <<pubVars, broker, acktopics, inbox, db>>

\* A KeyStore process is restarted: it subscribes, and its table is empty.
KsRestart(i) ==
    /\ Fault("restart")
    /\ listening' = [listening EXCEPT ![i] = TRUE]
    /\ queue' = [queue EXCEPT ![i] = <<>>]
    /\ db' = [db EXCEPT ![i] = DB!Initdb]
    /\ UNCHANGED <<pubVars, broker, acktopics, inbox>>

SecConnectReturns ==
    SecConnectDone \/ SecConnectTimeout \/ SecConnectBadNonce

Publisher ==
    \/ SecConnect \/ SecConnectHangs \/ SecConnectReturns
    \/ SecCallback \/ SecPublish \/ SecDisconnect

KeyStore(i) == KsValue(i) \/ KsShare(i)

Environment ==
    \/ LinkLost \/ Reboot \/ BrokerRefuses \/ BrokerAccepts
    \/ \E i \in KS : KsDeaf(i) \/ KsRestart(i)

Next == Publisher \/ (\E i \in KS : KeyStore(i)) \/ Environment

Spec == Init /\ [][Next]_vars

\* The sketch never stops calling loop(), the clock runs while SecConnect
\* waits, a KeyStore never stops reading, and a broker comes back.
Fairness ==
    /\ WF_vars(SecConnect)
    /\ WF_vars(SecConnectReturns)
    /\ WF_vars(SecCallback)
    /\ WF_vars(SecDisconnect)
    /\ \A i \in KS : WF_vars(KeyStore(i))
    /\ WF_vars(BrokerAccepts)

FairSpec == Spec /\ Fairness

-------------------------------------------------------------------------------
(***************************************************************************)
(* The variables have their types, and a table row is of the one device.   *)
(***************************************************************************)
Messages ==
    [type : {"value"}, phase : 1 .. MaxPhase, decrypts : BOOLEAN]
        \cup [type : {"sk"}, phase : 1 .. MaxPhase, share : 1 .. MaxKey]

TypeOK ==
    /\ pc \in {"setup", "loop", "wait", "hung", "recon"}
    /\ recon \in RECON
    /\ caller \in {"loop", "recon"}
    /\ {connected, broker} \subseteq BOOLEAN
    /\ secmqtt_state \in States
    /\ phase \in 0 .. MaxPhase
    /\ boot \in 0 .. phase
    /\ verified \in [KS -> BOOLEAN]
    /\ session_key \in 0 .. MaxKey
    /\ sk_counter \in 0 .. MAX_SK_USAGE
    /\ acktopics \subseteq 1 .. phase
    /\ inbox \in Seq([ks : KS, phase : 1 .. MaxPhase])
    /\ queue \in [KS -> Seq(Messages)]
    /\ listening \in [KS -> BOOLEAN]
    /\ db \in [KS -> [DB!Row -> DB!LIST]]
    /\ checked \in [KS -> 0 .. MaxPhase]
    /\ retried \in BOOLEAN
    /\ published \in [1 .. MaxKey -> Nat]
    /\ faults \in 0 .. MaxFaults

MasterKey(i) == DB!GetSymK(db[i], Me)

\* The topic key KeyStore i has a share of, 0 if none.
HeldShare(i) ==
    LET rows == {r \in DB!UsedRows(db[i]) : db[i][r].htpk = DataTopic}
    IN  IF rows = {} THEN 0 ELSE db[i][CHOOSE r \in rows : TRUE].shar

NoiseRows(i) == {r \in DB!UsedRows(db[i]) : db[i][r].htpk < 0}

(* An acknowledgement counted by the publisher means that its KeyStore has *)
(* the key it was for, or a later one, or restarted: neither a late        *)
(* acknowledgement nor one of an earlier Phase I is taken for the current. *)
CheckedKeyIsHeld ==
    \A i \in KS :
        checked[i] # 0 /\ MasterKey(i) # 0 => MasterKey(i) >= checked[i]

(* The first handshake of a boot succeeds only when every KeyStore         *)
(* acknowledged it, whatever was lost or late, and whatever is on its way  *)
(* from the boot before.                                                   *)
FirstHandshakeIsComplete ==
    phase = boot + 1 /\ secmqtt_state = "KS_CONNECTED"
        => \A i \in KS : checked[i] = phase

(* As long as no boot runs Phase I twice, a KeyStore that has the          *)
(* publisher in its table reads every share: no share is overtaken by a    *)
(* later master key, none is sent before its own was stored.               *)
NoiseOnlyAfterRetry == \A i \in KS : NoiseRows(i) # {} => retried

(* Until a boot runs Phase I again, the two phases keep in step with every *)
(* KeyStore, whatever of this boot or the one before is lost, late or      *)
(* still on its way.                                                       *)
InStepUntilRetry == FirstHandshakeIsComplete /\ NoiseOnlyAfterRetry

(* No topic key encrypts more than MAX_SK_USAGE messages, over all the     *)
(* paths that renew it: publishing, reconnecting, a new handshake.         *)
KeyUseIsBounded == \A k \in 1 .. MaxKey : published[k] <= MAX_SK_USAGE

(* What a KeyStore has of the topic goes forward: a share is replaced by   *)
(* that of a later topic key, never of an earlier one, and lost only when  *)
(* the KeyStore restarts.                                                  *)
SharesGoForward ==
    [][\A i \in KS : HeldShare(i)' >= HeldShare(i) \/ db'[i] = DB!Initdb]_vars

(* The wait for the acknowledgements of Phase I ends, whatever was lost.   *)
(* It does not say that SecConnect returns: before it sends anything it    *)
(* waits for connected(), which nothing sets once the broker has refused   *)
(* (pc = "hung").                                                          *)
WaitEnds == pc = "wait" ~> pc # "wait"

(* When nothing is slow, lost or restarted the handshake succeeds.         *)
HandshakeSucceeds ==
    [](faults = 0) => <>(secmqtt_state = "KS_CONNECTED")

(* And the shares of every topic key reach all the KeyStores, or those of  *)
(* a later one do.                                                         *)
SharesArrive ==
    [](faults = 0) =>
        \A k \in 1 .. MaxKey :
            session_key = k ~> \A i \in KS : HeldShare(i) >= k

(* The purpose of the protocol, under no faults.                           *)
ProtocolSucceeds == HandshakeSucceeds /\ SharesArrive

-------------------------------------------------------------------------------
(***************************************************************************)
(* What the source says of itself and the code does not do.                *)
(***************************************************************************)

(* "check acknowledgement from Key Store / OK? publish encrypted session   *)
(* key to Key Store" (seemqtt.cpp:65): connected means that every KeyStore *)
(* acknowledged the current master keys.                                   *)
ConnectedMeansChecked ==
    secmqtt_state = "KS_CONNECTED" => \A i \in KS : checked[i] = phase
===============================================================================
