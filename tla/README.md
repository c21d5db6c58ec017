# A TLA+ verification of SEEMQTT

SEEMQTT gives MQTT end-to-end secrecy without trusting the broker. A publisher
(an ESP32) encrypts its data under a short-lived *topic key*, splits that key
into shares (Shamir, `SSS_T` of `KSN_NUM`), and hands one share to each of
`KSN_NUM` *KeyStores* over the same broker. A subscriber that holds a
credential of the publisher asks the KeyStores for shares and joins them. Next
to each KeyStore a policy module decides, by the KeyNote trust-management
library that the repository carries and extends, whether the credential allows
it.

The modules in this directory are a model of that program: of what each
process keeps, of each handler that changes it, of the messages between the
processes, and of the KeyNote library from the characters of a key file to the
verdict. TLC checks them on small instances. TLAPS proves for every size the
safety properties of the KeyStore, of the publisher with its KeyStores, of the
subscriber with the policy modules, of KeyNote's sessions and signatures, and of
the command that puts the query; and that KeyNote grants nothing without
grounds, and where there are no cycles what is right.

- [1. The system](#1-the-system)
- [2. The plan](#2-the-plan)
- [3. The modules and the code](#3-the-modules-and-the-code)
- [4. The runs](#4-the-runs)
- [5. What the runs found](#5-what-the-runs-found)
- [6. The proofs](#6-the-proofs)
- [7. What is left out](#7-what-is-left-out)

## 1. The system

### Components

| component | source | state it keeps | operations |
|---|---|---|---|
| KeyStore table | `KeyStore/KS/db.c`, `db.h` | `db[MAXDBROW]`: hash of the publisher's key, hash of the topic, master key, share, in-use flag; one share file | `Initdb`, `AddsymK`, `Addshare` (+ `AddRow`), `GetSymK`, `Getindex`, `GetShare`, `SaveShar` |
| KeyStore process | `KeyStore/KS/KeyStore_ibe.c` | its modes, its MQTT session and subscription, the table | `KsCallback` (Phase I `value`, Phase II `sk`, in IBE and RSA, sharing and splitting mode), start and reconnection in `main` |
| Publisher | `ESP32/SEEMQTT/seemqtt.cpp`, driven by `SEEMQTT_TEST.ino` | `_secmqtt_state`, master key, nonce and verdict per KeyStore, topic key and its use count, random client topic | `SecConnect`, `SecCallback`, `SecSessionKeyUpdate`, `SecPublish`, `SecDisconnect`; the sketch's `setup`, `loop`, `reconnect` |
| Secret sharing | `shamirsecretshare.c` (two copies) | none over time | `split_string`, `join_strings`, `extract_secret_from_share_strings` |
| Broker | mosquitto, used over PubSubClient and libmosquitto | connections, subscriptions, queues | delivery with QoS 0 and clean sessions |
| Subscriber | `Subscriber/subscriber.c` | credential, answers of the KeyStores, `session_key` | `KsCallback`, `ComShare`, `GetShare` |
| Policy evaluation module | `KeyStore/KSPEM/PolicyEvaluationModule.c` | none but files | `Evaluate`, `IsAuthorized`, `ReadShare` |
| KeyNote command | `KeyNote/keynote-verify.c`, `lex.kv.c`, `z.tab.c` | its buffer, the parser's stack, one session | `keynote verify`: options, files of attributes and keys, query, report |
| KeyNote sessions | `KeyNote/environment.c`, `auxil.c`, `parse_assertion.c` | sessions: attributes, keys that ask, a hash table of assertions and what was parsed of them | `kn_init`, `kn_close`, `kn_add_*`, `kn_remove_*`, `kn_do_query`, `kn_get_failed` |
| KeyNote compliance checker | `KeyNote/parse_assertion.c` | results of assertions, the recursion, the tree of SEEMQTT's Delegate field | `keynote_evaluate_query`, `rec_evaluate_query`, `insert_delegation`, `validate_delgation` |
| KeyNote grammar | `KeyNote/k.tab.c` (`keynote.y`), `lex.kn.c` | flags, value stack, regexp groups, recorded keys | Local-Constants, Conditions, Licensees |
| KeyNote assertions and signatures | `KeyNote/parse_assertion.c`, `signature.c`, `keynote-sign.c`, `keynote-sigver.c` | `struct assertion` | splitting into fields, `kn_sign_assertion`, `kn_verify_assertion` |
| Credential signing | `ESP32/SEEMQTT/KeynoteESP.c` | none | `kn_GenCredential` |
| KeyNote keys | `KeyNote/keynote-keygen.c`, `signature.c`, `base64.c`, `auxil.c`, `lex.kn.c` | key files | `print_key`, `mystrncpy`, `kn_decode_key`, `kn_keycompare`, `keynote_keyhash` |
| Others | `Tools/`, benchmark sketches, cross-compiled libraries | - | - |

(Paths are under `src/`; `KeyNote/` is `KeyStore/KeyNote/`.)

### Interactions

```
              Phase I: value (master key, nonce, H(pk))
 publisher  ------------------------------------------>  KeyStore i
            <------------------------------------------     | table, in memory
              ack (the nonce, under the master key)         |
            ------------------------------------------>     | SaveShar
              Phase II: sk (topic hash, share)              v
     |                                                   SHARDB/<id>.txt
     | data, credential                                     |
     v                                                      v
 subscriber  -------------- request, credential ------>  policy module
             <------------- share, or a refusal -------     |  ^ output file
                                                            v  |
                                                     keynote verify
                                              (policy, credential, keys)
```

All arrows but the files are messages through the broker, or a TCP connection
for the subscriber's request. The publisher has one thread: `SecCallback` runs
only inside `loop()`, which both the sketch and the waiting loop of `SecConnect`
call. A KeyStore has one thread. The KeyStore and the policy module are two
processes that share one file without a lock. `keynote verify` is a command the
policy module starts for each request; the library underneath is one thread
with much static state: the current session, the flags of the grammar, the tree
of delegations.

### What is hard

* *Order and loss.* QoS 0 and clean sessions lose whatever comes when its
  receiver is away. The publisher publishes to the KeyStores one by one and
  looks at no result, so a broken link leaves some of them with the message.
* *Late answers.* `SecConnect` gives up after `SECMQTT_TIMEOUT` and runs again
  with new keys and nonces while acknowledgements of the previous run are on
  their way.
* *Restarts.* A KeyStore's table is in memory only: after a restart it answers
  the next handshake but drops the shares that come before it. The publisher
  forgets everything at a reboot, and its earlier messages are still queued.
* *Limits.* The table has `MAXDBROW` rows and frees none. A topic key has
  `MAX_SK_USAGE` uses, over several paths that renew it. The parser's stack and
  the buffer of the command have limits, too.
* *Searches.* The table is searched by several loops that stop at different
  rows and test different fields; they must agree.
* *Arithmetic.* The share of a byte modulo 257 can be 256, which has no two
  hexadecimal digits; joins go through negative remainders.
* *Recursion through a graph with cycles.* KeyNote's search keeps the values of
  assertions for later, in an order that hashes decide, and cuts cycles.
* *Evaluating while parsing.* What must not be evaluated is parsed under a flag;
  the flags are one per process, the expressions nest.
* *State kept between queries.* Fields, buckets and verdicts on signatures of an
  assertion stay from one query to the next while attributes change, and
  assertions move in a hash table that is being walked.
* *Two readers of one text.* A signature is made over bytes that the signer
  finds, and checked over bytes that the parser finds; a key is written by one
  program and read by another, in several encodings.

### What makes each component correct

* Table: a publisher has one master key, whichever of its rows is found; a
  publisher and a topic have one row; nothing but a message of a publisher
  changes that publisher's entries; room is the only reason to lose an
  acknowledged publisher; the file never shows an older share than the table.
* KeyStore process: it is a partial map from publishers to keys and from topics
  to shares, and forgets all or nothing, in every mode.
* Publisher: a verdict belongs to the current handshake; the first handshake is
  complete; a key is not overused; waits end.
* Publisher with KeyStores: an acknowledged key is the one the KeyStore
  decrypts with; shares go forward and arrive; what a KeyStore stores is what
  the publisher sent.
* Sharing: any quorum in any order gives back the key, and fewer shares tell
  nothing of it.
* Subscriber and policy module: a newer key is never given up for an older one;
  once the topic key stays, the subscriber gets it; an answer follows the
  verdict on its own request; asking for shares ends.
* Compliance checker: no value without a chain of trust behind it; where there
  is no cycle, every value is right; a Delegate field is obeyed; the search ends.
* Grammar: what is passed over is not used; the value of a field is what it
  means; every key of the Licensees is recorded.
* Sessions: an assertion is in the table once; a query sees the attributes of
  now; a kept verdict is about the signature of now; a query ends.
* Assertions: what is well-formed is taken and nothing else; a signature that
  verifies is one on the text as it is read.
* Command: the query is about what the files say; a grant has grounds; failures
  are reported; it ends.
* Keys: a printed key reads back; two texts meet if and only if they denote one
  key.

The hazards, each at its line and with the properties that cover it, are in
`PROJECT.json`.

## 2. The plan

In this order, the most important behaviour first. `[x]` is done.

1. `[x]` `KeyStoreDB`, `KeyStore`: the table and the process that owns it,
   fed any message in any order, in every mode.
2. `[x]` `ShareStore`: the abstract store the KeyStore implements.
3. `[x]` `KeyStoreProofs`: its invariants and the refinement, for every size.
4. `[x]` `SecMqtt`: the publisher, the broker and several KeyStores; it uses
   `KeyStoreDB` for the tables.
5. `[x]` `ShamirSecretSharing`: split and join.
6. `[x]` `Subscriber`: the subscriber, the policy modules and the share files
   between them and the KeyStores.
7. `[x]` `KeyNoteQuery`, `KeyNoteQueryProofs`: the compliance checker, and that
   it grants nothing without grounds.
8. `[x]` `KeyNoteGrammar`, `KeyNoteSession`, `KeyNoteAssertion`,
   `KeyNoteCommand`, `KeyNoteKeys`: what the checker is given, and how the
   policy module asks it.
9. `[x]` `KeyNoteQueryProofs`: `SettledWithoutCycles`, from an invariant on the
   assertions under the frames of the stack; `KeyNoteQueryDelegate`: the tree of
   the Delegate fields.
10. `[x]` `SubscriberProofs`: `KeyGoesForward` for every number of KeyStores and
    every quorum with `2 * SSS_T > KSN_NUM`, and the other safety properties.
11. `[x]` `SecMqttProofs`: all safety properties, for every number of KeyStores
    and every bound.
12. `[x]` `KeyNoteSessionProofs`, `KeyNoteAssertionProofs`: all safety properties,
    for every number of buckets, assertions and sessions, and texts of any length.
13. `[x]` `KeyNoteCommandProofs`: all safety properties, for files, command lines
    and parser's stacks of any size.
14. `[ ]` RSA and key-splitting mode of the publisher (module `KeyStore` has
    those of the KeyStore).
15. `[ ]` A proof that the interpolation of `ShamirSecretSharing` does not
    depend on the order of the shares, in a module without recursion.
16. `[ ]` An abstract specification of `Subscriber`, a register whose topic key
    only goes up, as a refinement.

## 3. The modules and the code

| module | models | uses |
|---|---|---|
| `KeyStoreDB` | `db.c`: the operations, as operators on a table | - |
| `KeyStore` | `KeyStore_ibe.c`: modes, `KsCallback` and restart, one process | extends `KeyStoreDB`, refines `ShareStore` |
| `ShareStore` | what a KeyStore promises | - |
| `KeyStoreProofs` | theorems | extends `KeyStore` |
| `SecMqtt` | `seemqtt.cpp`, the sketch, the broker, `KSN_NUM` KeyStores | `KeyStoreDB` by `INSTANCE` |
| `SecMqttProofs` | theorems | extends `SecMqtt` |
| `Subscriber` | `subscriber.c`, `PolicyEvaluationModule.c`, the share files | - |
| `SubscriberProofs` | theorems | extends `Subscriber` |
| `ShamirSecretSharing` | `shamirsecretshare.c` of both sides | - |
| `KeyNoteQuery` | `parse_assertion.c`: the search and the tree of delegations | - |
| `KeyNoteQueryProofs`, `KeyNoteQueryDelegate` | theorems | extend `KeyNoteQuery` |
| `KeyNoteGrammar` | `k.tab.c`, `lex.kn.c`: the actions of the grammar | - |
| `KeyNoteSession` | `environment.c`, `auxil.c`, `keynote_fix_fields` | - |
| `KeyNoteSessionProofs` | theorems | extends `KeyNoteSession` |
| `KeyNoteAssertion` | `keynote_parse_assertion`, signing and verifying | - |
| `KeyNoteAssertionProofs` | theorems | extends `KeyNoteAssertion` |
| `KeyNoteCommand` | `keynote-verify.c` with its lexer and parser | - |
| `KeyNoteCommandProofs` | theorems | extends `KeyNoteCommand` |
| `KeyNoteKeys` | `keynote-keygen.c`, strings, encodings, keys | - |
| `MC...` | instances for TLC | extend the module of that name |

An operator called `X_Something` next to an operator `X` is a plausible slip in
`X`; substituted for it, it breaks the property it is listed with in
`PROJECT.json`. No specification uses it.

### KeyStoreDB and KeyStore

`db` is `db[MAXDBROW]`; a row has the fields of `LIST`, with their names
(`isuded` included). `db.c` compares and copies hashes, keys and shares, so they
are model values. Zero bytes (the table is static) are `NoHash`, `NoKey` and
`NoShare`. Where a C loop stops at its first hit, the model takes the least row
of those that hit (`TopicRows`, `Getindex`), and where it keeps the last one
the greatest (the key that `AddRow` copies).

`enc_mode` and `sharing_mode` are what `main` makes of the arguments, for every
command line it accepts. `OnValue(d, k)` is the Phase I branch of `KsCallback`:
the acknowledgement goes out, then `AddsymK` runs and its result is only
printed. `OnValueManipulated` and `OnValueUndecrypted` are its early returns,
which leave something in `ks_symm_key`: with IBE any message decrypts to some
key and some hash, with RSA a wrong padding is noticed, and the hash that the
result is compared with is what an earlier call left there. `OnShare(d, k, t, s)`
is the Phase II branch with shares: the key is looked up, the message is
decrypted, `Addshare` and `SaveShar` run. The result of `aes_gcm_decrypt` is not
what the code tests: a message under another key gives *some* bytes, a
nondeterministic choice in `Noise`, and these are stored. `SaveShar(id,
db[rown])` with `rown = -1` writes memory in front of the table; the file is then
`Stray`. `OnPiece` is Phase II in splitting mode, which keeps the bytes in a
global and stores nothing. `Restart` empties the table and leaves the file,
which the process never reads. `acked` is a history variable: the key of the
last acknowledgement.

All actions are open to any publisher, with any key, topic and share, in any
order. That admits every behaviour of the system the KeyStore is put in, and
more.

### SecMqtt

All that `SecConnect` draws at random in one run of Phase I (the master keys,
nonces and the client topic) is one generation number `phase`; a topic key with
its shares is one generation `session_key`. They are drawn anew each time and
compared for equality only. Numbering them makes "older" and "newer" available
to the properties and to nothing else.

* `pc` is where the sketch's thread is. `SecConnect` is split where time passes
  in it: its part before the wait (with the whole loop over the KeyStores), the
  wait in which `SecCallback` runs, and the three ways out of the wait. Where the
  code spins in `while(!connected()) {}` after a failed `connect()`, `pc` is
  `"hung"`. `caller` is where `SecConnect` returns to.
* `recon` says whether the sketch is built with `RECON`; both builds are
  checked.
* The publishing loop reaches the first `n` KeyStores when the link breaks
  after `n`: `Reached` and `Publish`. Without a break `n` is `KSN_NUM`.
* `acktopics` is the subscriptions the broker has for the publisher; a new
  connection is a clean session, so they go with the connection, as do the
  acknowledgements on their way.
* `ibe_encryption` multiplies the precomputed `Gid` in place, so what it makes
  after the first Phase I of a boot decrypts nowhere: `decrypts`.
* `queue[i]` and `inbox` are the broker's order-preserving queues to one
  receiver. Different KeyStores run at any relative speed.
* `KsValue` and `KsShare` are `KsCallback` on the head of a queue, with the
  operators of `KeyStoreDB` on `db[i]`.
* The environment may, by the constant `Faults`: be `"slow"` (a timeout may
  come while messages are on their way), break the publisher's `"link"`,
  `"refuse"` connections for a while, make a KeyStore `"deaf"` (its
  reconnection is a clean session that nobody subscribes again), `"restart"` a
  KeyStore, `"reboot"` the publisher.
* `checked`, `published` and `retried` are histories for the properties;
  `boot` is the last generation of the boots before.

### Subscriber

* A topic key with its shares is one number. `SecSessionKeyUpdate` is the
  sending part of Phase II: a share for each KeyStore, in order, and then the
  credential; a broken link cuts the sequence short. All credential messages are
  equal, so `cr` counts those on their way.
* A KeyStore is reduced to what the policy module can see of it: it takes its
  messages in order and writes each to the file in two steps, `SaveSharOpen`,
  which empties it, and `SaveSharClose`. `"noise"` is a share that the KeyStore
  cannot decrypt, which module `KeyStore` shows it to save all the same.
* `Evaluate(i)` is `Evaluate` of the policy module for the request at the head
  of its `backlog`: KeyNote appends its verdict to the output file
  (either one, `"refuse"` being the negative; `KeyNoteCommand` and `KeyNoteQuery`
  are about which), `IsAuthorized` reads the first one there,
  `ReadShare` reads the share file, and the output file is removed. Reading
  an open file is undefined in C; the outcomes modelled are the end of
  the process and an answer of garbage.
* `pc` is where the subscriber's thread is. `KsCallback` starts `ComShare` for a
  credential; `GetShare` connects to policy module `ksid` and sends the request,
  `GetShareReturns` reads the answer or the end of the connection, and
  `ComShareReturns` joins what there is.
* `"slow"` is a credential that the subscriber takes before the KeyStores
  have stored all their shares. `"restart"` is of a KeyStore, perhaps with its
  file open; `"subscriber"` a restart of the subscriber, perhaps in the
  middle of a request (`"half"` in `backlog`).
* `newest`, `crashed` and `stale` are histories for the properties: `crashed[i]`
  counts the crashes of a policy module, `stale[i]` the requests that it judged
  by a verdict left behind.

### ShamirSecretSharing

The state machine is the loop of `split_string`, one letter per step, with the
coefficients chosen freely from `Coefs`. `split_number`, `gcdD`, `modInverse`
and `join_shares` are the C functions with C's remainder, which has the sign of
the dividend (`Rem`). The text is modelled by what it does: a chunk is two
digits, 256 is the pair of digits `G0`, and `strtol` alone reads `G0` as 0. The
key is a C string and ends at its first zero byte. A share line's fixed
characters after its number (`t` and `AA`), which no join reads, are left out.

### KeyNoteQuery

An assertion is the record of what the search reads: who said it, its
licensees, the value of its conditions, and whether its signature verifies.
Licensees are kept twice, as the code does: `keys` in the order of
`as_keylist`, which is built from the front, and `lics`, the sets of keys that
satisfy the expression. The recursion of `rec_evaluate_query` is a stack of
frames `[as, key, num]`: the assertion, the place in its list of keys, and the
place in the chain of that key's assertions. `NextPolicy` is the loop of
`keynote_evaluate_query`; `Keypred` is the test that ends a branch.
`kresult` has the three marks of an assertion: new, being worked on (so that a
cycle is cut), done. The chains of the hash table are in any order.

SEEMQTT added the Delegate field: `insert_delegation` builds a tree (`root`,
`kids`) beside the search, and `validate_delgation` decides by the tree at the
end. The tree compares the text of the licensees with the authorizer's, so it
knows the first licensee only. Both are recursive C functions, and are defined
here by what they come to: `Under(n)` is the least set that `n` and the kids of
its members are in, `Places(a)` are the nodes at which the search for a place
would stop, and it stops at the one that `ComesFirst`, before which there is
none. The tree starts empty: `tree_root` is static and never reset, and a
process puts one query, as the policy modules do.

`Worth(a, v, U)` says that `a` is worth `v` if what is in `U` is; `Closed(v, U)`
that `U` has all that is worth `v` by `U`. `Founded` says that the results lie
in every closed set, that is, in the least: this is what a chain of trust is,
without speaking of the search.

### KeyNoteGrammar

The value of Conditions and of Licensees is worked out by the actions of the
grammar, in the order of a bottom-up parse; what must not be evaluated is
parsed nevertheless, with flags up. `Code`, `ProgCode` and `KeyCode` list the
actions of an expression in this order, and each step of the specification does
one, on the value stacks `ints` and `strs`, the flags `keynote_exceptionflag`
and `keynote_donteval` and the groups of the last regular expression. A string
that is not copied while a flag is up is `NULL`. Licensees are parsed twice, to
record (when the assertion is added) and to evaluate. Every operator of the
grammar is there: logical, numerical with ints and floats, string, regular
expressions, dereference, the hint of a clause and nested blocks, `k-of`.

`ValueIsMeaning` compares the outcome with recursive definitions that know no
flags. It is about the programs of `Plain`: not those in which the parser itself
is wrong, which section 5 names.

### KeyNoteSession

The calls of the library on one or more sessions: `kn_init`, `kn_close`,
`kn_add_action`, `kn_remove_action`, the clean-up of the attributes, adding and
removing authorizers and assertions, `kn_get_failed`, and `kn_do_query`, which is
several steps: `keynote_fix_fields` on each assertion of the table, which is
walked meanwhile (`Move`, `MoveFails`, `NextBucket`, `AllInPlace`), and
`keynote_evaluate_query`, which checks signatures. A field is parsed by the
first query after its assertion came and by later ones if it uses an action
attribute; then the authorizer, by which an assertion is hashed, may change.
Each call names a session and works on the one last used when that is the same;
the table of buckets and the attributes are those of the session.

### KeyNoteAssertion

A text is a sequence of lines `[word, value]`. `keynote_parse_assertion` is the
loop that splits it into fields, one field a step, with the state of `struct
assertion`; then the fields that matter for a signature are evaluated. There are
two signers: `keynote sign`, which works on what the parser found, and the
publisher's `kn_GenCredential`, which signs the bytes of its file and puts the
field behind them. `kn_verify_assertion` and `keynote sigver` read the result.
`SigMatches` is the tests of `keynote_sigverify_assertion` that come before any key
is looked at: there is a signature, its algorithm is known, and the key is of
that algorithm. `kn_read_asserts` cuts a file at its empty lines
(`Cuts`) and its result is the set of the pieces.

Texts may be changed in a line at any time; a signature can be put into a line
only if it was made. A signature is the pair that made it with the text it was
made over, and `read` is what that text says: of each keyword the value of the
last line (`ReadAll`), as an empty Local-Constants field may be repeated.
`IsAssertion` is the definition of a well-formed text that the parser's loop is
compared with.

### KeyNoteCommand

`keynote verify` as the policy module starts it. The options and operands are
handled one by one. A file of attributes or of keys is read by the lexer with
its start conditions into tokens, and these by the LALR parser with the tables
of `z.tab.c`: shifts and reductions are steps, the stack has `YYMAXDEPTH`
places.

A file is a sequence of bytes, of which there are the classes that the patterns
of `keynote-ver.l` tell apart (`Named`, `Letters`, `Strays`, the zero byte); the
patterns are operators on a text and a place (`Begin`, `WordEnd`,
`StringEnds`). A string goes to the parser as `mystrncpy` copies it, except for
octal numbers, which are in `KeyNoteKeys`. `buf` keeps
what earlier and longer files left behind the end of the next, and `text` is what
`kv_scan_string` takes of it: all bytes up to the first zero, of however many
files they are. Adding an assertion clears its own bytes (`memset`), and no more.

Assertions have the kinds of failure that the report can tell apart, and the
verdict is constrained by what `KeyNoteQuery` shows of it (`Founded`). What is
printed is abstracted to a label and what the policy module or a reader can
tell: the value, or the number of the assertion and the loop that reports it.

The properties are about places: `PairsIn` says where in a file the pairs begin
that count, without start conditions, tokens or tables: those that are met by
going from the end of a pair to the end of the next (`Closed`). `KeyText` says
what is in the buffer for a -k file without the buffer: at each place, the byte
of the last file that is long enough. `AssertionPlaces` says which options
and operands are assertions. A sequence of the session is compared with these
places in their order, by a one-to-one map (`Places`, `LastFirst`).

### KeyNoteKeys

A text is a sequence of characters (cells below 256) and names of algorithms
(from 257). `Generate`, `PrintKey` and `PrintFails` are `keynote-keygen`: with
`print_key`'s line breaks and offsets, and a file that may be cut short;
`WriteByHand` is a text by somebody else. `Read` and the loop of `mystrncpy`,
one action for each way through its body, are how the lexer gets a string;
`kn_decode_key` with the two ASCII encodings, `kn_keycompare` and
`keynote_keyhash` follow. The encodings of libcrypto are external.

## 4. The runs

| run | instance | checks |
|---|---|---|
| `KeyStore` | 3 rows, 2 publishers, 2 topics, 2 keys, 2 shares, a noise value, every mode, symmetric | `TypeOK`, `TableConsistent`, `AcksAreKept`, `FileShareIsCurrent`, `ImplementsShareStore` |
| `SecMqtt` | 2 KeyStores of 3 rows, all faults (2 of a behaviour), 3 handshakes, 3 topic keys of 2 uses, both builds | `TypeOK`, `CheckedKeyIsHeld`, `InStepUntilRetry`, `KeyUseIsBounded`, `SharesGoForward` |
| `SecMqttLive` | 2 KeyStores of 2 rows, all faults but slowness (2 of a behaviour), fairness | `WaitEnds`, `ProtocolSucceeds` |
| `Shamir` | prime 257; all bytes and coefficients with 2 of 3, keys of 2 bytes at boundary values with 3 of 4 | `AnyQuorumRecovers`, `FewerTellNothing` |
| `Subscriber` | 3 KeyStores and policy modules, quorum 2, 2 topic keys, all faults (2 of a behaviour), fairness | `TypeOK`, `RestsWithKey`, `AnswersFollowVerdicts`, `KeyGoesForward`, `ComShareEnds` |
| `KeyNoteQuery` | up to 4 assertions of POLICY, an authority and a publisher; a subscriber asks; 3 values | `TypeOK`, `Founded`, `SettledWithoutCycles`, `DelegateIsObeyed`, `Returns` |
| `KeyNoteGrammar` | programs of every operator, tests of up to three parts, nested clauses; Licensees of up to four keys | `SkippingIsContained`, `ValueIsMeaning` |
| `KeyNoteSession` | 2 sessions, 2 keys, 2 buckets, 3 texts, 2 assertions, 1 authorizer, 1 attribute | `UniquePlace`, `QuerySeesPresent`, `SignaturesAreCurrent`, `QueryEnds` |
| `KeyNoteAssertion` | texts of up to 3 lines and a signature, 3 pairs of keys, one signing, one edit | `TypeOK`, `TakesWellFormed`, `SignaturesAreAboutTheText` |
| `KeyNoteCommand` | the policy module's command line with every file out of the ordinary, and others with options repeated or left out | `TypeOK`, `QueryIsAboutTheFiles`, `GrantsHaveGrounds`, `FailuresAreReported`, `CommandEnds` |
| `KeyNoteKeys` | 3 pairs, all offsets and lengths of a few, texts by hand, all strings of up to 5 of 7 characters | `TextsReadBack`, `SameKeysMeet` |
| `SecMqttConnectedMeansChecked` | 2 KeyStores, slow; a violation is expected | a comment of the source; section 5 |

Where no `TypeOK` is listed, the type invariant is the first conjunct of the
first property.

### What they show

`KeyStore`: the searches agree in every table that any messages can produce,
in every mode, including full tables and rows of garbage; the table and the file
implement a store of keys and shares.

`SecMqtt`: with two faults at any point, no stale acknowledgement makes the
publisher believe that a KeyStore has a key it does not have, the first
handshake of every boot is honest, garbage is stored only after a boot ran
Phase I twice, the key use is bounded on all paths, and a KeyStore's share never
goes back. `SecMqttLive`: the wait for acknowledgements ends, whatever is lost;
the other wait of `SecConnect`, for `connected()` after a refusal, does not
(section 5). Without faults the handshake succeeds and the shares of every topic
key arrive.

`Shamir`: every quorum in every order joins to the key in both copies of the
code, and one share less takes every value for every letter.

`Subscriber`: whatever is lost, late, garbled or restarted, the subscriber never
goes back to an older key, since quorums intersect and files go forward; a wrong
key joined while topic keys change is replaced once they stop changing, if no
credential overtakes its shares and no policy module ends; a
request is judged by its own verdict, but for one later request per crash of
the policy module, which may be judged by the verdict that the crash left behind;
and asking for shares ends.

`KeyNoteQuery`: however hashes order the search, and whatever cycles the
credentials have, no value is without a chain; without cycles every value is
right when it is given and stays; with plain credentials nobody is authorized
over an assertion that must not be delegated, and one chain that may be
delegated is enough if no key has two assertions; and the query ends. That the
values can be too low with cycles (a value given while the cycle was cut is
kept) is why `SettledWithoutCycles` has its condition.

`KeyNoteGrammar`: with the exceptions of section 5 the flags pass over exactly
what the definition does not look at, and are down again at the end; the order
of evaluation, the type of each operand and the value on each error are those of
the definition; recording finds each key once.

`KeyNoteSession`: a query that moves assertions while it walks the table leaves
each in one place, the place of its authorizer, and visits none for ever; fields
and verdicts that are kept are those that would be computed now.

`KeyNoteAssertion`: of all texts the parser takes those that are well-formed and
no other, in particular after each signer, except for those of section 5; and a
signature that verifies was made by the Authorizer's pair, with that algorithm,
over the text as the parser reads it, also after an edit.

`KeyNoteCommand`: what the query gets is what the files say, with comments,
blanks, escapes and repetitions; for a -k file that is what the file says
together with what is behind its end in the buffer (section 5), at whatever byte
the two meet, in a comment, in a string or behind a backslash; a value
above the lowest has a good assertion and a key as its grounds, each failure is
in the report, and the command ends.

`KeyNoteKeys`: what the generator prints reads back as the pair it printed, for
every offset and length, or not at all if the file was cut; malformed texts are
refused; two texts are found under one hash and compare equal if and only if
they denote one key.

### Bounds

`KeyStore`: three rows is the least number in which two publishers with two
topics each do not fit, so that both refusals (a new publisher, a new topic) and
the coexistence of rows occur; two of each value is enough to overwrite one with
another.

`SecMqtt`: a stale message of one handshake matters to the next, and three
handshakes let a reboot come between; two faults let one be the answer to
another (a restart of a deaf KeyStore, a reboot after a broken link). Two
KeyStores suffice to have one with and one without a message. Three rows hold
the real row and two of garbage, and the third piece of garbage finds the table
full.

`Subscriber`: three KeyStores with quorum two are the deployed numbers, and the
least in which a second quorum differs from the first and still intersects it;
two topic keys suffice to mix, and to go back.

`Shamir`: letters are shared independently of each other, which is why one letter
under all coefficients and a few letters under boundary ones complete each
other.

`KeyNoteQuery`: three values are the least with one between refusal and the
highest. Two lists complete each other: a policy with two credentials of any
shape (also `&&`, `||`, cycles, a failed signature), and policies and
credentials of one licensee in any number up to four, which is a chain as long
as the principals allow beside a second policy.

`KeyNoteGrammar`: a flag is wrong for its neighbours; a test of three parts has
an operand on either side of one that is passed over, and a clause in a block in
a clause has one in front and one behind. Numbers are small and floats are
quarters.

`KeyNoteSession`: two keys in two buckets are the least for which a change of the
attribute moves an assertion, and two assertions the least for one to be moved
into a bucket that is still to come, or into one that is done, next to another.
Two sessions show that one's attributes are not the other's.

`KeyNoteAssertion`: each line has a neighbour on either side, where blanks,
comments and the short forms of keywords matter. One signature and one edit
are enough for a text that differs from the signed one.

`KeyNoteCommand`: a buffer of seven bytes is filled by one file and grown by
another. Over any of some thirty key files, with strings, escapes, comments and
zero bytes, any file is read of up to four of the bytes letter, quote, `#` and
blank, which can end in each part of the older one, open a string that the
older one closes, or close one that it opens. A stack of nine overflows at the
third pair (that of the program at some 2500). Anything unexpected may come in
up to two of the four places of a pair.

`KeyNoteKeys`: the lengths put a line break before, inside and behind the name
and between the digits of one byte, and the offsets those of the options; five
characters are one more than the longest escape.

`MaxPhase`, `MaxKey`, `MaxFaults`, `MaxSessions`, `MaxAssertions`,
`MaxAuthorizers`, `MaxActions`, `MaxSigned`, `MaxEdits`, `MaxKeys` and `MaxCuts`
bound what else grows without limit; at a bound the action is not taken. That,
and loops and commands that end, is why deadlock is checked in `KeyStore` only:
nothing else is meant to go on for ever in every state.

The proofs remove all these bounds for the safety properties of `KeyStore`,
`SecMqtt`, `Subscriber`, `KeyNoteSession`, `KeyNoteAssertion` and
`KeyNoteCommand`, and for those of `KeyNoteQuery`. For the other properties,
and for liveness, the instances are all there is.

### Fairness

All fairness is weak. `SecMqtt!Fairness`: the sketch's loop keeps running
(`SecConnect`, `SecCallback`, `SecDisconnect`), the clock does while it waits
(`SecConnectReturns`), a KeyStore keeps taking messages, and a broker comes
back. These are the schedulers of the board, of the clock and of the KeyStore's
`mosquitto_loop`; each has nothing else to do. Publishing is not fair: no
property depends on the sketch having data. No fault is ever fair.

`Subscriber!Fairness`: `ComShare` goes on, as it is called in the subscriber's
only thread, and a policy module that runs evaluates what is in its backlog.
That somebody starts one that ended is not assumed, nor that KeyStores write.
`ProtocolSucceeds` is conditional on a behaviour without faults, `WaitEnds` is
not.

`KeyNoteQuery`, `KeyNoteCommand` and the query of `KeyNoteSession`
(`QueryStep`) are calls in a process of one thread that waits for nothing: they
go on while they can. That a caller puts a query is not assumed.

## 5. What the runs found

`SecMqttConnectedMeansChecked` checks what the comment at `seemqtt.cpp:65` says:
after the acknowledgement is checked the encrypted session key is published. TLC
shows a behaviour in which the code does something else: `SecConnect`
(`seemqtt.cpp:209`) draws new keys and leaves the verdicts as they are, so that
after a timeout the late acknowledgements of the first handshake leave
`CONNECT_GOOD_NONCE` behind, and the next handshake takes it for its own.

Seen while modelling, without a run of their own. The modules have each of these
as it is in the code, except for those marked with *, which are in what section 7
leaves out; a property that would fail on one says so in its condition.

*Publisher, KeyStore, subscriber*

* The second Phase I of a boot can be decrypted by nobody: `Gid` was changed in
  place (`seemqtt.cpp:1060`, set once at `:998`).
* A refused connection, and `SecConnect` spins for ever (`seemqtt.cpp:52`),
  although the sketch has a retry (`SEEMQTT_TEST.ino:167`).
* A late `CONNECT_BAD_NONCE` ends the next wait at once, by the same missing
  reset as above.
* A share that fails its tag check is stored: the test is on `rc`, the result is
  in `res` (`KeyStore_ibe.c:612`, compare `:827`).
* `AddsymK` returns -1 also when it updated a known publisher, and `KsCallback`
  prints that the key was not saved. A KeyStore acknowledges a key before
  `AddsymK` can refuse it. `Addshare` can refuse a share, and `SaveShar` then
  writes `db[-1]` to the file (`Stray`).
* A KeyStore that reconnects has a clean session and does not subscribe again
  (the fault `"deaf"`).
* With IBE the sharing mode is looked for in the argument that holds something
  else (`KeyStore_ibe.c:101`, `:105`-`:112`), so key splitting cannot be chosen.
  With RSA the hash that the check compares with was set by an earlier message,
  if by any.
* The messages of key splitting, as the publisher sends them, are not those the
  KeyStore decrypts (GCM of 48 bytes, CBC of 80).*
* The topic key changes while the subscriber asks: it joins what are not shares
  of one key, and prints that the key was combined (`subscriber.c:399`, `:391`).
* A random key with a zero byte is shared up to that byte only
  (`shamirsecretshare.c:175`, `:291`).
* A policy module that reads its share file while the KeyStore has it open ends
  or answers garbage, and then leaves behind an output file whose verdict it
  answers the next request with. One whose requester disappears in the middle of
  a request reads for ever. An empty output file makes it use a token that is
  not there.*

*KeyNote, the search and the fields*

* The verdict of the Delegate tree replaces that of the search
  (`parse_assertion.c:573`): a chain that is enough by itself is not if there is
  another policy or a second credential beside it (compare `rfc2704.txt:1129`).
  A Delegate field that is neither 0 nor 1 keeps its assertion out of the tree
  (`parse_assertion.c:134`), and the assertions beside it may then be taken for a
  chain without it: hence `PlainCredentials`. Where the field is missing, a
  null pointer is parsed.* The tree is never reset
  (`parse_assertion.c:413`).*
* The first clause of a block clears the exception of the test that guards the
  block (`k.tab.c:2816`; by the comment above it the test should be false); `&&`
  and `||` in an operand that is passed over turn evaluation on again; a nested
  block clears the groups of the regular expression (`rfc2704.txt:1246`). A
  single key in parentheses is a syntax error in Licensees.*
* `kn_remove_authorizer` removes the key after the one it found
  (`auxil.c:235`, `man/keynote.3:337`). An assertion with a malformed Authorizer
  is taken out of the table and the query fails, but `kn_get_failed` does not
  report it (`man/keynote.3:386`). Cleaning up the attributes removes the
  built-in ones.* A field that once was malformed is never parsed again, and a
  verdict on the signature is kept when the Authorizer is an attribute.
* `kn_remove_action` of a name that is not defined indexes a small table with
  `HASHTABLESIZE`;* `_ACTION_AUTHORIZERS` and `_VALUES` are computed once;*
  `keynote_lex_add` and `kn_read_asserts` free a block that `realloc` moved
  (`lex.kn.c:2618`, `environment.c:911`);* SHA-256 is written to arrays of 20
  bytes.*

*KeyNote, texts and the command*

* A credential of the publisher that begins with a blank line or has an empty
  line never verifies. An empty Local-Constants field may be repeated.
* A stray character cuts a file of attributes silently: `kvlex` returns -1,
  which is the end (the comment says that -1 is for failure). An empty one is a
  syntax error. More than some 2500 pairs overflow the parser's stack.
* A key file is read over the one before (`keynote-verify.c:158`; only a -l file
  is cleared behind itself, `:295`), and the lexer goes on through what is left of
  it (`keynote-ver.l:283`), where the manual says "Add a key from file"
  (`man/keynote.1:230`). A shorter file is therefore rejected, or is taken for a
  key that is in no file: `"alicexyz"` and then a file of the four bytes `"bob`
  make `bobcexyz`; `"alice"#"mallory"` and then eight blanks make `mallory`, out
  of a comment. An empty file is taken for the old key.
* More than 14 values of `-r` copy memory from behind the old array.*
* `keynote sign` with print-offset 0 prints continuation lines that are no
  continuation.* A string continued over a blank line is none for the lexer
  (`keynote.l:71`, `rfc2704.txt:536`). A key name with a colon behind it is
  accepted by the generator and does not read back.* Results of writing are not
  looked at in `print_key`. Binary keys cannot be used (`signature.c:434`,
  `man/keynote.3:752`), and what is no hexadecimal digit counts as 0.

## 6. The proofs

For every value of the constants:

| module | theorem | states |
|---|---|---|
| `KeyStoreProofs` | `TypeCorrectness` | `Spec => []TypeOK` |
| | `TableConsistency` | `Spec => []TableConsistent` |
| | `AckedKeys` | `Spec => []AcksAreKept` |
| | `CurrentShareFile` | `Spec => []FileShareIsCurrent` |
| | `Refinement` | `Spec => ImplementsShareStore` |
| `SecMqttProofs` | `TypeCorrect` | `Spec => []TypeOK` |
| | `AcknowledgedKeyIsHeld` | `Spec => []CheckedKeyIsHeld` |
| | `PhasesKeepStep` | `Spec => []InStepUntilRetry` |
| | `KeyUse` | `Spec => []KeyUseIsBounded` |
| | `NoShareComesBack` | `Spec => SharesGoForward` |
| `SubscriberProofs` | `TypeCorrect` | `Spec => []TypeOK` |
| | `VerdictsAreFollowed` | `Spec => []AnswersFollowVerdicts` |
| | `KeyIsReached` | `Spec => []RestsWithKey` |
| | `NoKeyComesBack` | `Spec => KeyGoesForward` |
| `KeyNoteQueryProofs` | `SearchIsTyped` | `Spec => []SearchTypeOK` |
| | `ValuesAreFounded` | `Spec => []Founded` |
| | `ValuesAreRight` | `Spec => []SettledWithoutCycles` |
| `KeyNoteQueryDelegate` | `TypeCorrect` | `Spec => []TypeOK` |
| | `DelegateFieldsAreObeyed` | `Spec => []DelegateIsObeyed` |
| `KeyNoteSessionProofs` | `TypeCorrect` | `Spec => []TypeOK` |
| | `AssertionsHaveOnePlace` | `Spec => []UniquePlace` |
| | `QueriesSeeThePresent` | `Spec => []QuerySeesPresent` |
| | `VerdictsAreOfNow` | `Spec => []SignaturesAreCurrent` |
| `KeyNoteAssertionProofs` | `TypeCorrect` | `Spec => []TypeOK` |
| | `ParserIsRight` | `Spec => []TakesWellFormed` |
| | `SignaturesAreMeant` | `Spec => []SignaturesAreAboutTheText` |
| `KeyNoteCommandProofs` | `TypeCorrect` | `Spec => []TypeOK` |
| | `QueryIsRight` | `Spec => []QueryIsAboutTheFiles` |
| | `LongFilesAreTheirOwn` | what `KeyText` is where no earlier file is longer |
| | `GrantsAreGrounded` | `Spec => []GrantsHaveGrounds` |
| | `FailuresAreTold` | `Spec => []FailuresAreReported` |

In `SecMqttProofs`, `SubscriberProofs`, `KeyNoteSessionProofs`,
`KeyNoteAssertionProofs` and `KeyNoteCommandProofs` the theorem `Inductive` is `Spec => []IInv` for the
inductive invariant `IInv` of the module, of which the others are consequences.

*Assumptions*: `MAXDBROW` is a positive natural (`RowsAssumption`), the zero
bytes are no hash, key or share (`ZeroAssumption`), the two special values of the
file are no rows (`FileAssumption`). `CountAssumption` of `SecMqtt` says that
there is a KeyStore, a row and a use of a topic key, and that the bounds are
naturals; `QuorumAssumption` of `Subscriber` that a quorum is no more than all
KeyStores. That two quorums intersect is not assumed of the constants: it is a
condition in `KeyGoesForward`, `2 * SSS_T > KSN_NUM`, which the deployed numbers
meet. `QueryAssumption` types the constants of `KeyNoteQuery`.
`SessionAssumption` and `AssertionAssumption` type the constants of
`KeyNoteSession` and `KeyNoteAssertion` and say that what stands for a missing or
a malformed value is none of the values; the files at the beginning have no
signature that nobody has made. `CommandAssumption` says that command lines and
files are such as the program can be given, that the buffer is not empty and
that the parser's stack has room for two states (the program has 10000), and
that what stands for a missing file is no string. A file is any sequence of
bytes. What the classes of bytes are is the only thing it says of them: a letter
is no other byte, and no class is the zero byte.
The numbers of rows, KeyStores, publishers, topics, faults, principals,
assertions, lines, signatures, sessions, buckets, values, options, bytes of a
file and states on a stack are not bounded.

*KeyStore.* The inductive invariant `Inv` is the conjunction of the invariants of
the run `KeyStore`, by their parts, and of `FileHasTopic` (the file never has a
row without topic). None of them is inductive alone. `OneKeyPerDevice` is
preserved by `AddsymK` because it writes all the rows of a device, and by
`Addshare` because the row it takes is a used row of that device or a row that
is free and gets the key of one. `OneRowPerTopic` needs that a row without
topic is the only one of its device, which is its second conjunct: otherwise the
scan could give that row a topic which a later row has. `FreeRowsAreZero` is
what makes a search that does not test `isuded` right. `FileHasTopic` is needed
for `FileShareIsCurrent`: a new row has no topic yet and must not match the
file. The globals of the callback do not reach the table except through the
actions' own tests, and their types are a second, independent invariant
(`GlobalsTypeOK`).

Two lemmas, `AddsymKCases` and `AddshareCases`, say what the operations do to a
table case by case; each step of the process is one of these cases. Existence
of a first and of a last row is proved from well-foundedness of the naturals
(`LeastNatural`, `MinOfRows`, `MaxOfRows`).

The refinement maps the table to the two partial maps of `ShareStore`: the key
of a device is that of any of its used rows, the share that of any used row with
the topic. That "any" is well defined is `OneKeyPerDevice` and
`OneRowPerTopic`, so the step lemmas are about one row. A refused entry and a
message of an unknown publisher are stutters, as is all of the splitting mode's
Phase II.

*SecMqtt.* `IInv` is about four places in which a generation can be: with the
publisher, in a KeyStore's queue, in its table, in an acknowledgement on its way.
`Tables` is what `KeyStore`'s invariants become with one device. `Keys` puts the
generations in order: for every acknowledgement that was counted or may still
come (`Seen`), the KeyStore's row has that key or a later one and its queue has
later ones only. It is needed because the acknowledgement is counted long after
the row was written, and other Phase I messages may come in between. `Shares` is
the same order for the shares. `InStep` says that in the first handshake of a
boot no share is behind a master key in a queue, and those there are for the key
in the table. This depends on Phase II beginning when all KeyStores have
acknowledged, that is, on `Handshake`: until a retry, `verified[i]` implies that
the acknowledgement is of the current generation. After a retry it does not
(section 5), which is why the property has its condition. `Uses` bounds by
`sk_counter` what was published under the current key, and says that later keys
are unused, so that a new key starts from zero on every path that draws one.

*Subscriber.* The step that matters is `ComShareReturns`: the key it joins must
not be older than the newest joined before. `Quorate` says why: there is a set
`A` of `SSS_T` KeyStores that have nothing older than `newest` in the file, in
the hands of `SaveShar` or in the queue (`AtLeast`), and every answer was given by
a KeyStore of its own (`src`), which has nothing older than its answer and gave
one no older than `newest` if it is in `A`. A new quorum of answers meets `A` by counting
(`2 * SSS_T > KSN_NUM`), so what it joins is `newest` or later, and the KeyStores
that answered are the next `A`. `AtLeast` is stable as queues are in order
(`InOrder`); a restart or a broken link only takes something away. `Asking` makes
an answer that of the module being asked: no request but the current one can be
answered. `LeftBehind` counts: each crash leaves at most one verdict behind,
which still is in the output file or has judged one request. `Undisturbed` is for `RestsWithKey`:
without faults every KeyStore's last share is of the topic key, every module
answers, and once the last credential is being handled the queues are empty, so
that all answers are shares of that key.

*KeyNoteQuery.* The inductive invariant `IInv` is `SearchTypeOK`, `Strength` and
`Founded`. `Founded` is about the assertions that are done, and becomes so when a
frame is popped: the value given there is bounded by the assertion's conditions
and by what its licensees have, which is `Strength` (a value that is still
worked on is never above the conditions, the bottom of the stack is the policy
that is being asked, and a policy is a trusted assertion). The value of a key is
that of the best of its assertions that are done, or the highest if it asks
(`KeypredIsHad`); these lie in every closed set by hypothesis, so the new
value is worth itself by the set (`FinishIsWorth`), and a closed set has it.
Closed sets are quantified over in the invariant, so no induction over chains is
needed: the least one need not be constructed. `GreatestValue` gives the
greatest value of a set that is not empty.

For `SettledWithoutCycles`, `SInv` has the condition of the property, `Acyclic`. Then a
frame is never above a frame of the same assertion, since each depends on the one
above it; so a search never meets an assertion "in progress", and no value is
given while one of those it depends on is still open. `LookedAt` is the progress of a
frame: what it has come past has a value or waits for one. Its place in the
chain of a key is a number, the assertions of that key are not numbered, and
`Rank` translates; that ranks have no gap (`NoneFoundAtTheEnd`) is proved from the
least assertion that would be behind one. `DoneFirst` is the result: an assertion
with a value has those it depends on done, unless its conditions are at the
bottom or the key asks. Then its value is what theirs make it (`Settled`), and
stays, as theirs do. `PoliciesInTurn` keeps the loop over the policies from
finding one that an earlier search has evaluated.

*KeyNoteQueryDelegate.* That an assertion has one place in the tree needs that
`insert_delegation` is called for it once, and that what is in the tree was put
there by such a call: `TInv` says that the nodes are assertions that are done.
`DInv` joins to it that the stack holds the assertions in progress, each once
(`InOrder`), that an assertion is entered only with conditions above the bottom
(`Started`), and, if no assertion has POLICY for a licensee, that policies are not
entered by the search (`NoneLicensesPOLICY`, with `PoliciesInTurn`). `FramesStep`
is the lemma that these share: what holds of every new frame, and is kept while
a frame goes forward, holds of the stack.

`DelegateIsObeyed` has two halves, each with an invariant. For `NoneWithoutChain`,
`PInv` says (`Edges`) that an edge of the tree is a licence that may be used, and
is worth something if what it leads to is; there are others, since a new leaf is
put under an assertion that was done before it, but these lead to a set `B` under
which no key asks: the assertion above did not wait for this one, which was
waiting itself (`Known`, `WaitingDoNotAsk`). The root is a policy as soon as nobody
waits for it (`RootIsWanted`). So when the tree is judged the way from the root
to a leaf that names a key that asks has no edge to `B`, and all on it are worth
something, from the leaf upwards (`GoodWay`). `ShortWay` gives a way on which no
assertion is twice, and which is therefore not longer than the list of
assertions, as `Chains` wants it.

For `ChainIsEnough`, where no key has two assertions, the search goes down one way
while nothing is done (`NothingDone`), and comes back on it. `QInv` has a set `G`
that is closed under leading on to the first of the keys that ask (`Leaders`); what
the search has come back from, if it is in `G`, is the root of a tree with a leaf
that names this key (`Shown`), and becomes the kid of the next one
(`EndIsShown`). What comes to its end leads on from nothing else that is in `G`,
as it would have had to be done before (`NoneBefore`). A chain is in every such
`G` (`ChainLeadsOn`), and so has its answer. In both halves the sets are only said
to exist, or quantified over, so no induction over chains is needed.

*KeyNoteSession.* `Rest` and `SessionsOK` are what holds between calls: ids are
below the session's counter and unique in its table, and what was parsed of an
assertion agrees with its text, as far as no attribute is in it (`Kept`); it is
there once, but not necessarily in its bucket, since a query that fails stops in
the middle of moving. `QueryOK` has a stage of its own for the query: before
`keynote_fix_fields` nothing is marked; after it every field is evaluated under
the attribute of now, and what is in front of the current bucket need not move
again; in the end nothing has to move. An assertion that is moved to a bucket
already done is in its place there, and one that is moved ahead is met again and
left. `Unique` is preserved because a move takes out of one bucket what it puts
into another (`Without`, `Adding`).

*KeyNoteAssertion.* The proof follows the parser's loop. `Scanned` is the loop's
invariant: from the first line that is not white to the place where the loop is
nothing is out of place, and for each keyword `at` has the last line with it.
`Scanned` to the end of the text, or to the blank line that ends the assertion,
is `IsAssertion`; and each early return of the loop contradicts it on the line
it is at, for every end that the text could have. For signatures, `at` being the
last line makes what is read from the assertion a function of its content
(`ReadAll`). A signature has the `read` of its own content from the moment it is
made, so two contents that are equal read the same, and a signature that
verifies is of the pair of the Authorizer as it is read now. That a signed file
verifies needs where the signature stands (`StandsAt`): behind exactly what was
signed. Between the signing and the writing of the file, `JustSigned` has what the
writing relies on.

*KeyNoteCommand.* `IInv` follows a file from its bytes to the session. `Stack`
says that the parser's stack is a path in its automaton (`Edges`, ten of them),
which is all that a reduction needs of the states below its right-hand side: the
name of a pair is where the action looks for it. `Lexed` is the lexer's part: the
place `e` where the last pair that was read ends is met from the start of the
file, no pair that counts reaches over it (`Read`), and the lexer is at `e`, behind
the name or behind the "=" of what begins there, as its start condition says.
`Reading` joins both. Of the states of the parser, with the
lookahead and the start condition, six combinations are on the way to a string
(`BeforeString`), one has just read it (`AtString`), two hold a pair that is not
in the session yet (`BehindString`); `Pending` says of this one which it is and
that the others are there. It is the last one of those read, so the session's
order, newest first, is that of the places (`LastFirst`). Where the lexer gives
up, no further pair begins at `e`, so that what is there is all that is said
(`LastPair`, `AllPairs`), or the parse fails and the command with it (`NoPair`).

For keys there is the buffer: `Holds` says that each of its bytes is the one that
was written there last, and that it is longer than every file so far, so that there
is a zero byte behind what was written. `text` is then `TextOf` the option, of
however many files it is (`StringIsText`). `ReadingKey` has the one key of the
text before it is met, on its way, and among those that ask. A text
with anything behind its key is refused with `keynote_errno` set or by the
parser, so an accepted one has its one key among those that ask.
`LongFilesAreTheirOwn` says where this text is of one file: a -k file that is no
shorter than the -k and -l files before it is read as its own bytes, as the only
writer of each of its places that counts.

`Assertions` gives each assertion of the session its place on the command line,
until the query judges them. Then `Reports` keeps that assignment through the
removals: `Accounted` says that ids of the table and ids of the report together
are all there were, and that a reported one has the kind the report says. That no
id is in both follows by counting (there are as many as there were places). An
assertion with an error is never met after the loop for `SYNTAX`, nor one with a
false signature after that for `SIGNATURE`: this is why the third loop reports
nothing under a wrong reason. `Grounds` is established by the query and is not
disturbed, since the session only loses assertions afterwards.

No fact about a file is proved by induction over it: `Lexed` moves from one token
to the next with the lexer, and the least or greatest place with a property exists
because the naturals are well-founded (`LeastNatural`).

Attempts at proofs changed the model in six places. `SigMatches` had left out
that a signature of an unknown algorithm is false at once (`signature.c:814`),
and with an Authorizer without a key the invariant failed. `MAXDBROW` was not
assumed to be positive in `SecMqtt`. `Edit` could put a signature in a file that
nobody had made yet. In `KeyNoteCommand`, an assertion's file that did not fit
got a new buffer whose last byte was taken from the old one, which has none
there; `YYMAXDEPTH` could be 1, with which the first state alone is too many;
and the conclusion of `GrantsHaveGrounds` does not hold when the lowest of the
values is the grant itself, which its condition now says.

*Only model-checked*:

* all liveness: fairness and ENABLED are beyond the prover;
* `KeyNoteGrammar`, `KeyNoteKeys` and `ShamirSecretSharing`, whose definitions are
  recursive over expressions, texts and numbers.

## 7. What is left out

* *Cryptography.* Encryption succeeds under its key and gives noise under another;
  random values are new each time they are drawn; a signature is the pair and the
  text. Generating keys, the pairing library and the encodings of libcrypto are
  external, except for the state that `ibe_encryption` changes.
* *RSA mode and key-splitting mode of the publisher*: planned. `KeyStore` has
  those of the KeyStore.
* *Data messages at the subscriber*: the handler decrypts and prints, and changes
  no state. The subscriber's own reconnection has the form of the KeyStore's
  and is not repeated.
* *The composition of `SecMqtt` and `Subscriber`*: they meet in the order of
  Phase II's messages and in the share file. `SecMqtt!SharesGoForward` is what
  `Subscriber` assumes of the KeyStores by taking their messages in order.
* *The composition of `Subscriber` and KeyNote*: in `Subscriber` the verdict is a
  nondeterministic choice; `KeyNoteCommand` and `KeyNoteQuery` are about which.
  The modules of KeyNote meet in the same way: what one assumes of an assertion
  (`cond`, `sig`, a kind) is what another is about.
* *A second topic or a second publisher in `SecMqtt`*: a `SecMqtt` object has
  one of each; `KeyStore` has several.
* *Memory.* Running out of it, buffers of fixed size and lengths of messages are
  not modelled, save those named above; `db[-1]` is one value.
* *The 5-second timer and delays.* The timer branch may be taken at any turn of
  `loop()`.
* *In KeyNote*: the generated tables of `k.tab.c` and `lex.kn.c` (those of
  `z.tab.c` are modelled), a second node of one assertion in the tree (POLICY as a
  licensee is searched for, and later asked as a policy), overflow of ints and rounding of floats, attributes
  that are regular expressions or callbacks, the removal of attributes that are
  not there, the reading back of a session's lists.
* *The key generator under `Tools/`* runs through cryptographic calls once; *the
  benchmark sketches* measure; *GMP and PBC* are vendored. None has state over
  time that this system depends on.
