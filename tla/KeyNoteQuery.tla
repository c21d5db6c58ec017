----------------------------- MODULE KeyNoteQuery -----------------------------
(***************************************************************************)
(* The compliance checker of KeyStore/KeyNote, by which a policy module    *)
(* decides whether a subscriber gets its share: a depth-first search from  *)
(* the POLICY assertions through the credentials to the keys that ask      *)
(* (parse_assertion.c), and the tree that SEEMQTT added to it for the      *)
(* Delegate field.                                                         *)
(*                                                                         *)
(* The recursion is an explicit stack, a frame for each call of            *)
(* rec_evaluate_query.  An assertion is a record:                          *)
(*   auth   its authorizer                                                 *)
(*   keys   its licensees in the order of as_keylist, which is built from  *)
(*          the front, so that the first of the text comes last            *)
(*   lics   the Licensees expression as the sets of keys that satisfy it;  *)
(*          &&, || and k-of are all of this kind                           *)
(*   cond   the value of its Conditions, 0 after an error in them          *)
(*   local  it was added as a trusted one, and needs no signature          *)
(*   sig    its signature verifies                                         *)
(*   deleg  the Delegate field: "1", "0", or "?" for anything else         *)
(* The chains of the hash table are in the order of the list, which is any *)
(* order: an assertion is first put where the hash of its text says.       *)
(* Running out of memory is left out.                                      *)
(***************************************************************************)
EXTENDS Integers, FiniteSets, SequencesExt

CONSTANTS
    Principal,       \* keys, and POLICY
    POLICY,
    Values,          \* ks_values_num: compliance values are 0 .. Values - 1
    Authorizers,     \* ks_action_authorizers, the last one added first
    AssertionLists   \* the assertions a session may hold

Value == 0 .. Values - 1
Top == Values - 1
None == 0            \* no assertion

Assertion ==
    [auth : Principal, keys : Seq(Principal), lics : SUBSET SUBSET Principal,
     cond : Value, local : BOOLEAN, sig : BOOLEAN, deleg : {"0", "1", "?"}]

ASSUME QueryAssumption ==
    /\ POLICY \in Principal
    /\ Values \in Nat \ {0}
    /\ Authorizers \in Seq(Principal) \ {<<>>}
    /\ AssertionLists \subseteq Seq(Assertion)
    /\ \A l \in AssertionLists : \A a \in DOMAIN l :
           /\ l[a].keys # <<>>
           /\ UNION l[a].lics \subseteq {l[a].keys[k] : k \in DOMAIN l[a].keys}

VARIABLES
    asserts,   \* the assertions of the session
    kresult,   \* as_kresult
    result,    \* as_result
    stack,     \* frames of rec_evaluate_query, the innermost first
    root,      \* tree_root, None when NULL
    kids,      \* next[0 .. child_num - 1] of each assertion's tree node
    pc,        \* where keynote_evaluate_query is
    policy,    \* the POLICY assertion it is at
    prev       \* the best value so far, and at the end the value it returns

searchVars == <<kresult, result, stack>>
treeVars == <<root, kids>>
vars == <<asserts, searchVars, treeVars, pc, policy, prev>>

Id == DOMAIN asserts
InAuthorizers(p) == \E i \in DOMAIN Authorizers : Authorizers[i] = p
AssertionsBy(p) == {a \in Id : asserts[a].auth = p}
Minimum(x, y) == IF x < y THEN x ELSE y

\* keynote_find_assertion: the num-th assertion of p, if there is one.
Find(p, num) ==
    {a \in AssertionsBy(p) :
        Cardinality({b \in AssertionsBy(p) : b < a}) = num}

\* resolve_assertion and the rule of keynote.y for a key: whether the value
\* of p is at least v.
KeyHas_Unfinished(p, v) ==
    \/ v = 0
    \/ InAuthorizers(p)
    \/ \E a \in AssertionsBy(p) : result[a] >= v
KeyHas(p, v) ==
    \/ v = 0
    \/ InAuthorizers(p)
    \/ \E a \in AssertionsBy(p) : kresult[a] = "done" /\ result[a] >= v

\* keynote_parse_keypred: the value of the Licensees field.
Keypred(a) ==
    CHOOSE v \in Value :
        /\ v = 0 \/ \E S \in asserts[a].lics : \A p \in S : KeyHas(p, v)
        /\ \A w \in Value : w > v =>
               ~ \E S \in asserts[a].lics : \A p \in S : KeyHas(p, w)

\* The signature, or that none is needed.
Trusted(a) == asserts[a].local \/ asserts[a].sig

-------------------------------------------------------------------------------
(***************************************************************************)
(* The tree of the Delegate fields.  It compares the text of the fields,   *)
(* and so sees of the Licensees only the first key.                        *)
(***************************************************************************)
Licensee(a) == asserts[a].keys[Len(asserts[a].keys)]
IsFather(a, n) == Licensee(a) = asserts[n].auth
IsChild(a, n) == Licensee(n) = asserts[a].auth

\* What is under n: the least set with n and the kids of all its members.
Under(n) ==
    {m \in Id : \A U \in SUBSET Id :
        n \in U /\ (\A x \in U : Range(kids[x]) \subseteq U) => m \in U}
Nodes == IF root = None THEN {} ELSE Under(root)

\* insert_delegation and validate_delgation come to m before n, or m is n.
ComesFirst(m, n) ==
    \/ n \in Under(m)
    \/ \E x \in Nodes : \E i, j \in DOMAIN kids[x] :
           i < j /\ m \in Under(kids[x][i]) /\ n \in Under(kids[x][j])

May(a) == asserts[a].deleg = "1"

\* a becomes the father of the root, which it keeps only if it may delegate.
Adopted_Always(a) == [kids EXCEPT ![a] = <<root>>]
Adopted(a) == [kids EXCEPT ![a] = IF May(a) THEN <<root>> ELSE <<>>]

\* insert_delegation.  The search for a place goes on past a node that is
\* neither father nor child of a, and past one a is a child of if a must not
\* delegate.  A father that is put above another node than the root is lost.
Places(a) ==
    {n \in Nodes : /\ asserts[a].deleg # "?"
                   /\ IsFather(a, n) \/ (IsChild(a, n) /\ May(a))}
insert_delegation(a) ==
    \/ /\ root = None
       /\ root' = a
       /\ kids' = kids
    \/ /\ root # None /\ Places(a) = {}
       /\ UNCHANGED treeVars
    \/ \E n \in Places(a) :
           /\ \A m \in Places(a) : ComesFirst(n, m)
           /\ \/ /\ IsFather(a, n) /\ n = root
                 /\ root' = a
                 /\ kids' = Adopted(a)
              \/ /\ IsFather(a, n) /\ n # root
                 /\ UNCHANGED treeVars
              \/ /\ ~ IsFather(a, n)
                 /\ root' = root
                 /\ kids' = [kids EXCEPT ![n] = Append(@, a)]

\* validate_delgation: some leaf names the first of the keys that ask.
validate_delgation_Root ==
    root # None /\ kids[root] = <<>> /\ Licensee(root) = Authorizers[1]
validate_delgation ==
    \E n \in Nodes : kids[n] = <<>> /\ Licensee(n) = Authorizers[1]

-------------------------------------------------------------------------------
Init ==
    /\ asserts \in AssertionLists
    /\ kresult = [a \in Id |-> "untouched"]
    /\ result = [a \in Id |-> 0]
    /\ stack = <<>>
    /\ root = None
    /\ kids = [a \in Id |-> <<>>]
    /\ pc = "next"
    /\ policy = None
    /\ prev = 0

\* The start of rec_evaluate_query, up to the first licensee: an assertion
\* whose conditions give nothing is done.  below is the stack it returns to.
Enter_TooHigh(a, below) ==
    /\ result' = [result EXCEPT ![a] =
           IF asserts[a].cond = Top THEN Values ELSE asserts[a].cond]
    /\ kresult' = [kresult EXCEPT ![a] = "in progress"]
    /\ stack' = <<[as |-> a, key |-> 1, num |-> 0]>> \o below
Enter(a, below) ==
    /\ result' = [result EXCEPT ![a] = asserts[a].cond]
    /\ IF asserts[a].cond = 0
       THEN /\ kresult' = [kresult EXCEPT ![a] = "done"]
            /\ stack' = below
       ELSE /\ kresult' = [kresult EXCEPT ![a] = "in progress"]
            /\ stack' = <<[as |-> a, key |-> 1, num |-> 0]>> \o below

\* keynote_evaluate_query comes to the next POLICY assertion.
NextPolicy ==
    /\ pc = "next"
    /\ \E a \in AssertionsBy(POLICY) :
           /\ asserts[a].local
           /\ a > policy
           /\ \A b \in AssertionsBy(POLICY) :
                  asserts[b].local /\ b > policy => a <= b
           /\ policy' = a
           /\ Enter(a, <<>>)
    /\ pc' = "search"
    /\ UNCHANGED <<asserts, treeVars, prev>>

\* There is no further one.
NoMorePolicies ==
    /\ pc = "next"
    /\ \A a \in AssertionsBy(POLICY) : asserts[a].local => a <= policy
    /\ pc' = "returned"
    /\ UNCHANGED <<asserts, searchVars, treeVars, policy, prev>>

frame == stack[1]
keys == asserts[frame.as].keys
found == Find(keys[frame.key], frame.num)

AtNextAssertion == [stack EXCEPT ![1] = [frame EXCEPT !.num = @ + 1]]
AtNextKey ==
    [stack EXCEPT ![1] = [as |-> frame.as, key |-> frame.key + 1, num |-> 0]]

Searching == pc = "search" /\ stack # <<>>
AtAKey == Searching /\ frame.key <= Len(keys)
AtAnAssertion == AtAKey /\ ~ InAuthorizers(keys[frame.key])

\* The key is one of those that ask, or has no further assertion.
NextKey_FirstOnly ==
    /\ AtAKey
    /\ frame.num > 0 \/ InAuthorizers(keys[frame.key]) \/ found = {}
    /\ stack' = AtNextKey
    /\ UNCHANGED <<asserts, kresult, result, treeVars, pc, policy, prev>>
NextKey ==
    /\ AtAKey
    /\ InAuthorizers(keys[frame.key]) \/ found = {}
    /\ stack' = AtNextKey
    /\ UNCHANGED <<asserts, kresult, result, treeVars, pc, policy, prev>>

\* The assertion has its value, or is one that waits for this one: a cycle.
SkipAssertion_Stays ==
    /\ AtAnAssertion
    /\ \E a \in found : kresult[a] # "untouched"
    /\ UNCHANGED vars
SkipAssertion ==
    /\ AtAnAssertion
    /\ \E a \in found : kresult[a] # "untouched"
    /\ stack' = AtNextAssertion
    /\ UNCHANGED <<asserts, kresult, result, treeVars, pc, policy, prev>>

\* The recursive call.
Recurse_Again ==
    /\ AtAnAssertion
    /\ \E a \in found :
           /\ kresult[a] # "done"
           /\ Enter(a, AtNextAssertion)
    /\ UNCHANGED <<asserts, treeVars, pc, policy, prev>>
Recurse ==
    /\ AtAnAssertion
    /\ \E a \in found :
           /\ kresult[a] = "untouched"
           /\ Enter(a, AtNextAssertion)
    /\ UNCHANGED <<asserts, treeVars, pc, policy, prev>>

\* All licensees have been looked at: the value, the signature, the tree.
Finish ==
    /\ Searching
    /\ frame.key > Len(keys)
    /\ LET a == frame.as IN
           /\ result' = [result EXCEPT ![a] =
                  IF Trusted(a) THEN Minimum(@, Keypred(a)) ELSE 0]
           /\ kresult' = [kresult EXCEPT ![a] = "done"]
           /\ insert_delegation(a)
    /\ stack' = Tail(stack)
    /\ UNCHANGED <<asserts, pc, policy, prev>>

\* keynote_evaluate_query takes the value of the POLICY assertion, looks at
\* the tree, and returns at once with the highest value.
Judge ==
    /\ pc = "search"
    /\ stack = <<>>
    /\ prev' = IF ~ validate_delgation THEN 0
               ELSE IF result[policy] > prev THEN result[policy] ELSE prev
    /\ pc' = IF prev' = Top THEN "returned" ELSE "next"
    /\ UNCHANGED <<asserts, searchVars, treeVars, policy>>

Next ==
    \/ NextPolicy \/ NoMorePolicies \/ Judge
    \/ NextKey \/ SkipAssertion \/ Recurse \/ Finish

Spec == Init /\ [][Next]_vars
FairSpec == Spec /\ WF_vars(Next)

-------------------------------------------------------------------------------
Frame == [as : Id, key : Nat \ {0}, num : Nat]

\* The types of the search.
SearchTypeOK ==
    /\ asserts \in AssertionLists
    /\ kresult \in [Id -> {"untouched", "in progress", "done"}]
    /\ result \in [Id -> Value]
    /\ stack \in Seq(Frame)
    /\ pc \in {"next", "search", "returned"}
    /\ policy \in Id \union {None}
    /\ prev \in Value

\* The search never enters an assertion that it is still in: those in
\* progress are exactly those on the stack, each of them once.
StackIsInProgress ==
    /\ {a \in Id : kresult[a] = "in progress"} =
           {stack[i].as : i \in DOMAIN stack}
    /\ \A i, j \in DOMAIN stack : stack[i].as = stack[j].as => i = j

\* No assertion is licensed by a POLICY that it is to license.  (The policies
\* are gone through in any case; one that was met before would be a second time
\* in the tree, which kids does not show.)
NoneLicensesPOLICY ==
    \A a \in Id : \A k \in DOMAIN asserts[a].keys : asserts[a].keys[k] # POLICY

\* Each node has one father and one place with it, and the root has none.
IsTree ==
    /\ \A a \in Id : root \notin Range(kids[a])
    /\ \A a, b \in Id : \A i \in DOMAIN kids[a], j \in DOMAIN kids[b] :
           kids[a][i] = kids[b][j] => a = b /\ i = j

\* The types; the assertions that wait for others are each on the stack once,
\* and the nodes of the tree are assertions, each of them in one place.
TypeOK ==
    /\ SearchTypeOK
    /\ StackIsInProgress
    /\ root \in Id \union {None}
    /\ kids \in [Id -> Seq(Id)]
    /\ NoneLicensesPOLICY => IsTree

(***************************************************************************)
(* What the assertions mean (RFC 2704, 5.3): whether a is worth v when     *)
(* those in U are, and the sets that have all that are worth v when they   *)
(* are.  The least of these sets is the right one.                         *)
(***************************************************************************)
Worth(a, v, U) ==
    /\ Trusted(a)
    /\ asserts[a].cond >= v
    /\ \E S \in asserts[a].lics : \A p \in S :
           InAuthorizers(p) \/ AssertionsBy(p) \intersect U # {}

Closed(v, U) == \A a \in Id : Worth(a, v, U) => a \in U

Have(v) == {a \in Id : kresult[a] = "done" /\ result[a] >= v}

\* No trust comes from nowhere: a value that the search gives an assertion
\* is backed by a chain that ends at the keys that ask, although values are
\* kept for later and the search cuts cycles.  Nor does the answer.
Founded ==
    \A v \in Value \ {0} : \A U \in SUBSET Id : Closed(v, U) =>
        /\ Have(v) \subseteq U
        /\ prev >= v => \E a \in AssertionsBy(POLICY) \intersect U :
                            asserts[a].local

\* Whether no assertion depends on itself.
DependsOn(a) ==
    {b \in Id : \E k \in DOMAIN asserts[a].keys :
                    asserts[b].auth = asserts[a].keys[k]}
Acyclic ==
    \A S \in (SUBSET Id) \ {{}} : \E a \in S : DependsOn(a) \intersect S = {}

\* An assertion that is done has the value that the others give it.
Settled ==
    \A a \in Id : \A v \in Value \ {0} :
        kresult[a] = "done" => (result[a] >= v <=> Worth(a, v, Have(v)))

\* Without cycles the order of the search does not matter: each value is
\* final and right when it is given.
SettledWithoutCycles == Acyclic => Settled

(***************************************************************************)
(* The Delegate field.  The chains from POLICY to the first of the keys    *)
(* that ask in which every assertion but the last may be delegated further *)
(* and every one is worth something.                                       *)
(***************************************************************************)
Chains ==
    {c \in SeqOf(Id, Len(asserts)) :
        /\ c # <<>>
        /\ asserts[c[1]].auth = POLICY /\ asserts[c[1]].local
        /\ Licensee(c[Len(c)]) = Authorizers[1]
        /\ \A i \in 1 .. Len(c) - 1 :
               /\ asserts[c[i]].deleg = "1"
               /\ Licensee(c[i]) = asserts[c[i + 1]].auth
        /\ \A i \in DOMAIN c : result[c[i]] > 0}

\* What the tree is made for: "as has one Licensee" (parse_assertion.c:113), a
\* Delegate field is 0 or 1, and no signature has failed.
PlainCredentials ==
    /\ NoneLicensesPOLICY
    /\ \A a \in Id : /\ Len(asserts[a].keys) = 1
                     /\ asserts[a].lics = {{Licensee(a)}}
                     /\ asserts[a].deleg # "?"
                     /\ Trusted(a)

\* Nobody is authorized over an assertion that must not be delegated, in
\* whatever order the assertions come to the tree.
NoneWithoutChain ==
    PlainCredentials /\ pc = "returned" /\ prev > 0 => Chains # {}

\* One chain that may be delegated is enough, when no key has two assertions,
\* as the policy modules use it.
OneEach == \A a, b \in Id : asserts[a].auth = asserts[b].auth => a = b
ChainIsEnough ==
    PlainCredentials /\ OneEach /\ pc = "returned" /\ Chains # {} => prev > 0

\* The answer is what the Delegate fields say: in no order of the assertions
\* is there an answer without a chain that may be delegated, and, with one
\* assertion for each key, none is missing where there is one.
DelegateIsObeyed == NoneWithoutChain /\ ChainIsEnough

\* The query ends, whatever cycles the credentials have.
Returns == <>(pc = "returned")
===============================================================================
