------------------------------ MODULE ShareStore ------------------------------
(***************************************************************************)
(* What a KeyStore promises, with no rows and no search: a partial map     *)
(* from a device to its master key, and from a device and a topic to the   *)
(* latest share.  A store may refuse an entry it does not have yet, which  *)
(* is a stutter here; it never touches an entry other than the one         *)
(* addressed, and it forgets everything at once, when the process          *)
(* restarts, or nothing.                                                   *)
(***************************************************************************)
CONSTANTS Device, TopicHash, Key, ShareBytes, NoKey, NoShare

VARIABLES key,    \* key[d]: the master key held for device d
          share   \* share[d][t]: the share held for topic t of device d

storeVars == <<key, share>>

StoreInit ==
    /\ key = [d \in Device |-> NoKey]
    /\ share = [d \in Device |-> [t \in TopicHash |-> NoShare]]

\* A first key for a device, or a new one.
Register(d, k) ==
    /\ key' = [key EXCEPT ![d] = k]
    /\ UNCHANGED share

\* A share for a topic of a known device.
Put(d, t, s) ==
    /\ key[d] # NoKey
    /\ share' = [share EXCEPT ![d] = [share[d] EXCEPT ![t] = s]]
    /\ UNCHANGED key

Forget ==
    /\ key' = [d \in Device |-> NoKey]
    /\ share' = [d \in Device |-> [t \in TopicHash |-> NoShare]]

StoreNext ==
    \/ \E d \in Device, k \in Key : Register(d, k)
    \/ \E d \in Device, t \in TopicHash, s \in ShareBytes : Put(d, t, s)
    \/ Forget

StoreSpec == StoreInit /\ [][StoreNext]_storeVars
===============================================================================
