------------------------- MODULE KeyNoteQueryDelegate -------------------------
(***************************************************************************)
(* The tree of the Delegate fields: that it is one, and that with plain    *)
(* credentials the answer is as the fields say, for any number of them and *)
(* any cycles.                                                             *)
(***************************************************************************)
EXTENDS KeyNoteQueryProofs

\* The nodes, in the tree of SEEMQTT or in a part of it that was lost.
Placed(r, k, n) ==
    n = r \/ k[n] # <<>> \/ \E m \in Id : n \in Range(k[m])

Tree(r, k) ==
    /\ \A a \in Id : r \notin Range(k[a])
    /\ \A a, b \in Id : \A i \in DOMAIN k[a], j \in DOMAIN k[b] :
           k[a][i] = k[b][j] => a = b /\ i = j

\* An assertion that went through the search to its end.
Evaluated(n, kr) == kr[n] = "done" /\ asserts[n].cond # 0

\* Only these come to the tree, and each of them once.
Planted(r, k, kr) ==
    Tree(r, k) /\ \A n \in Id : Placed(r, k, n) => Evaluated(n, kr)

TreeTypeOK == root \in Id \union {None} /\ kids \in [Id -> Seq(Id)]

\* The order of the stack, with or without cycles.
InOrder == OnStack(stack, kresult, result)

TInv == NoneLicensesPOLICY =>
    /\ Frames(stack, kresult, result) /\ PoliciesInTurn
    /\ Planted(root, kids, kresult)

\* The assertions do not change, nor what is said of them alone.
LEMMA SameAsserts ==
    ASSUME UNCHANGED asserts
    PROVE  /\ Id' = Id /\ NoneLicensesPOLICY' = NoneLicensesPOLICY
           /\ \A p : AssertionsBy(p)' = AssertionsBy(p)
           /\ \A s, kr, res : OnStack(s, kr, res)' <=> OnStack(s, kr, res)
           /\ \A s, kr, res : Frames(s, kr, res)' <=> Frames(s, kr, res)
<1>1. Id' = Id
  BY DEF Id
<1>2. \A p : AssertionsBy(p)' = AssertionsBy(p)
  BY <1>1 DEF AssertionsBy
<1>3. \A a : DependsOn(a)' = DependsOn(a)
  BY <1>1 DEF DependsOn
<1>4. \A b : Rank(b)' = Rank(b)
  BY <1>2 DEF Rank
<1>5. \A f, kr : LookedAt(f, kr)' <=> LookedAt(f, kr)
  BY <1>2, <1>4 DEF LookedAt
<1>6. \A s, kr, res : OnStack(s, kr, res)' <=> OnStack(s, kr, res)
  BY <1>1, <1>3, ZenonT(60) DEF OnStack
<1>7. \A s, kr, res : Frames(s, kr, res)' <=> Frames(s, kr, res)
  BY <1>5, <1>6 DEF Frames
<1>8. NoneLicensesPOLICY' = NoneLicensesPOLICY
  BY <1>1 DEF NoneLicensesPOLICY
<1>9. QED BY <1>1, <1>2, <1>6, <1>7, <1>8

\* No step changes the assertions.
LEMMA AssertsStay == [Next]_vars => UNCHANGED asserts
BY DEF Next, NextPolicy, NoMorePolicies, Judge, NextKey, SkipAssertion,
       Recurse, Finish, vars

\* Each step keeps the order of the stack.
LEMMA NextInOrder ==
    ASSUME SearchTypeOK, Strength, InOrder, [Next]_vars
    PROVE  InOrder'
<1> SUFFICES OnStack(stack', kresult', result')
  BY AssertsStay, SameAsserts DEF InOrder
<1>1. /\ stack \in Seq(Frame)
      /\ pc # "search" => stack = <<>>
      /\ OnStack(stack, kresult, result)
  BY StackOfStrength DEF InOrder
<1>2. CASE NextPolicy
  <2>1. PICK a \in Id : Enter(a, <<>>) /\ stack = <<>>
    BY <1>1, <1>2 DEF NextPolicy, AssertionsBy
  <2>2. <<>> \in Seq(Frame) /\ \A i \in DOMAIN <<>> : <<>>[i].as # a
    BY EmptySeq
  <2>3. QED BY <1>1, <2>1, <2>2, OnStackEntered
<1>3. CASE NoMorePolicies \/ Judge \/ UNCHANGED vars
  BY <1>1, <1>3 DEF NoMorePolicies, Judge, vars, searchVars
<1>4. CASE NextKey
  <2> DEFINE f == [as |-> frame.as, key |-> frame.key + 1, num |-> 0]
  <2>1. stack # <<>> /\ stack' = AtNextKey /\ UNCHANGED <<kresult, result>>
    BY <1>4 DEF NextKey, AtAKey, Searching
  <2>2. f \in Frame /\ f.as = frame.as
    BY <1>1, <2>1, FrameFacts
  <2>3. AtNextKey = [stack EXCEPT ![1] = f]
    BY DEF AtNextKey
  <2> HIDE DEF f
  <2>4. QED BY <1>1, <2>1, <2>2, <2>3, OnStackMoved
<1>5. ASSUME stack # <<>>
      PROVE  OnStack(AtNextAssertion, kresult, result)
  <2> DEFINE f == [frame EXCEPT !.num = @ + 1]
  <2>1. f \in Frame /\ f.as = frame.as
    BY <1>1, <1>5, FrameFacts DEF Frame
  <2>2. AtNextAssertion = [stack EXCEPT ![1] = f]
    BY DEF AtNextAssertion
  <2> HIDE DEF f
  <2>3. QED BY <1>1, <1>5, <2>1, <2>2, OnStackMoved
<1>6. CASE SkipAssertion
  <2>1. stack # <<>> /\ stack' = AtNextAssertion /\ UNCHANGED <<kresult, result>>
    BY <1>6 DEF SkipAssertion, AtAnAssertion, AtAKey, Searching
  <2>2. QED BY <1>5, <2>1
<1>7. CASE Recurse
  <2>1. stack # <<>>
    BY <1>7, RecurseFacts
  <2>2. PICK a \in Id : /\ kresult[a] = "untouched" /\ Enter(a, AtNextAssertion)
                        /\ a \in DependsOn(frame.as)
    BY <1>7, RecurseFacts
  <2>3. AtNextAssertion \in Seq(Frame) /\ AtNextAssertion[1].as = frame.as
    BY <1>1, <2>1, FrameFacts, StackFacts DEF AtNextAssertion
  <2>4. OnStack(AtNextAssertion, kresult, result)
    BY <1>5, <2>1
  <2>5. \A i \in DOMAIN AtNextAssertion : AtNextAssertion[i].as # a
    BY <2>2, <2>4 DEF OnStack
  <2>6. QED BY <2>2, <2>3, <2>4, <2>5, OnStackEntered
<1>8. CASE Finish
  BY <1>1, <1>8, OnStackLeft
<1>9. QED BY <1>2, <1>3, <1>4, <1>6, <1>7, <1>8 DEF Next

\* The order says which assertions are in progress.
LEMMA InOrderIsInProgress ==
    ASSUME SearchTypeOK, InOrder
    PROVE  StackIsInProgress
<1>1. \A i \in DOMAIN stack : stack[i].as \in Id
  BY StackIds DEF SearchTypeOK, Frame
<1>2. {a \in Id : kresult[a] = "in progress"} = {stack[i].as : i \in DOMAIN stack}
  <2>1. \A i \in DOMAIN stack : kresult[stack[i].as] = "in progress"
    BY DEF InOrder, OnStack
  <2>2. \A b \in Id : kresult[b] = "in progress" =>
            \E i \in DOMAIN stack : stack[i].as = b
    BY DEF InOrder, OnStack
  <2>3. QED BY <1>1, <2>1, <2>2
<1>3. \A i, j \in DOMAIN stack : stack[i].as = stack[j].as => i = j
  BY DEF InOrder, OnStack
<1>4. QED BY <1>2, <1>3 DEF StackIsInProgress

-------------------------------------------------------------------------------
(***************************************************************************)
(* The frames of the stack, one by one.                                    *)
(***************************************************************************)
\* The innermost frame replaced.
LEMMA TopReplaced ==
    ASSUME stack \in Seq(Frame), stack # <<>>, NEW f \in Frame,
           NEW s, s = [stack EXCEPT ![1] = f]
    PROVE  /\ s \in Seq(Frame) /\ s # <<>> /\ DOMAIN s = DOMAIN stack
           /\ 1 \in DOMAIN s /\ s[1] = f
           /\ \A i \in DOMAIN s : i > 1 => s[i] = stack[i]
<1>1. /\ Len(stack) \in Nat \ {0} /\ DOMAIN stack = 1 .. Len(stack)
      /\ s \in Seq(Frame) /\ DOMAIN s = DOMAIN stack
  BY StackFacts
<1>2. 1 \in DOMAIN s /\ s[1] = f
  BY <1>1
<1>3. \A i \in DOMAIN s : i > 1 => s[i] = stack[i]
  <2>1. SUFFICES ASSUME NEW i \in DOMAIN stack, i > 1 PROVE s[i] = stack[i]
    BY <1>1
  <2>2. i # 1
    BY <1>1, <2>1
  <2>3. QED BY <2>1, <2>2
<1>4. s # <<>>
  <2>1. DOMAIN <<>> = {}
    OBVIOUS
  <2>2. QED BY <1>2, <2>1
<1>5. QED BY <1>1, <1>2, <1>3, <1>4

\* Both ways to move it on.
LEMMA MovedOn ==
    ASSUME stack \in Seq(Frame), stack # <<>>
    PROVE  /\ frame \in Frame /\ frame.as \in Id
           /\ AtNextAssertion \in Seq(Frame) /\ AtNextAssertion # <<>>
           /\ DOMAIN AtNextAssertion = DOMAIN stack /\ 1 \in DOMAIN stack
           /\ AtNextAssertion[1] =
                  [as |-> frame.as, key |-> frame.key, num |-> frame.num + 1]
           /\ \A i \in DOMAIN stack : i > 1 => AtNextAssertion[i] = stack[i]
           /\ AtNextKey \in Seq(Frame) /\ AtNextKey # <<>>
           /\ DOMAIN AtNextKey = DOMAIN stack
           /\ AtNextKey[1] =
                  [as |-> frame.as, key |-> frame.key + 1, num |-> 0]
           /\ \A i \in DOMAIN stack : i > 1 => AtNextKey[i] = stack[i]
<1> DEFINE f == [frame EXCEPT !.num = @ + 1]
           g == [as |-> frame.as, key |-> frame.key + 1, num |-> 0]
<1>1. frame \in Frame /\ frame.as \in Id /\ f \in Frame /\ g \in Frame
  BY FrameFacts
<1>2. f = [as |-> frame.as, key |-> frame.key, num |-> frame.num + 1]
  <2>1. frame \in [as : Id, key : Nat \ {0}, num : Nat]
    BY <1>1 DEF Frame
  <2>2. QED BY <2>1
<1>3. AtNextAssertion = [stack EXCEPT ![1] = f] /\ AtNextKey = [stack EXCEPT ![1] = g]
  BY DEF AtNextAssertion, AtNextKey
<1> HIDE DEF f, g
<1>4. /\ AtNextAssertion \in Seq(Frame) /\ AtNextAssertion # <<>>
      /\ DOMAIN AtNextAssertion = DOMAIN stack /\ 1 \in DOMAIN stack
      /\ AtNextAssertion[1] = f
      /\ \A i \in DOMAIN stack : i > 1 => AtNextAssertion[i] = stack[i]
  BY <1>1, <1>3, TopReplaced
<1>5. /\ AtNextKey \in Seq(Frame) /\ AtNextKey # <<>>
      /\ DOMAIN AtNextKey = DOMAIN stack
      /\ AtNextKey[1] = g
      /\ \A i \in DOMAIN stack : i > 1 => AtNextKey[i] = stack[i]
  BY <1>1, <1>3, TopReplaced
<1>6. QED BY <1>1, <1>2, <1>4, <1>5 DEF g

\* Entering an assertion: it is done at once, or a new frame.
LEMMA Entered ==
    ASSUME SearchTypeOK, NEW a \in Id, NEW s \in Seq(Frame), Enter(a, s)
    PROVE  /\ \A b \in Id : b # a => kresult'[b] = kresult[b] /\ result'[b] = result[b]
           /\ result'[a] = asserts[a].cond
           /\ asserts[a].cond = 0 => kresult'[a] = "done" /\ stack' = s
           /\ asserts[a].cond # 0 =>
                  /\ kresult'[a] = "in progress"
                  /\ 1 \in DOMAIN stack' /\ stack' # <<>>
                  /\ stack'[1] = [as |-> a, key |-> 1, num |-> 0]
                  /\ \A i \in DOMAIN stack' :
                         i > 1 => i - 1 \in DOMAIN s /\ stack'[i] = s[i - 1]
<1>1. /\ \A b \in Id : b # a => kresult'[b] = kresult[b] /\ result'[b] = result[b]
      /\ result'[a] = asserts[a].cond
  BY DEF Enter, SearchTypeOK
<1>2. CASE asserts[a].cond = 0
  BY <1>1, <1>2 DEF Enter, SearchTypeOK
<1>3. CASE asserts[a].cond # 0
  <2> DEFINE f == [as |-> a, key |-> 1, num |-> 0]
  <2>1. stack' = <<f>> \o s /\ kresult'[a] = "in progress"
    BY <1>3 DEF Enter, SearchTypeOK
  <2>2. f \in Frame
    BY DEF Frame
  <2> HIDE DEF f
  <2>3. /\ DOMAIN stack' = 1 .. Len(s) + 1
        /\ \A i \in 1 .. Len(s) + 1 : stack'[i] = IF i = 1 THEN f ELSE s[i - 1]
    <3>1. /\ DOMAIN (<<f>> \o s) = 1 .. Len(s) + 1
          /\ \A i \in 1 .. Len(s) + 1 :
                 (<<f>> \o s)[i] = IF i = 1 THEN f ELSE s[i - 1]
      BY <2>2, PushFacts
    <3>2. QED BY <2>1, <3>1
  <2>4. Len(s) \in Nat /\ DOMAIN s = 1 .. Len(s)
    BY LenProperties
  <2>5. 1 \in DOMAIN stack' /\ stack'[1] = f
    BY <2>3, <2>4
  <2>6. \A i \in DOMAIN stack' :
            i > 1 => i - 1 \in DOMAIN s /\ stack'[i] = s[i - 1]
    BY <2>3, <2>4
  <2>7. stack' # <<>>
    <3>1. DOMAIN <<>> = {}
      OBVIOUS
    <3>2. QED BY <2>5, <3>1
  <2>8. QED BY <1>1, <1>3, <2>1, <2>5, <2>6, <2>7 DEF f
<1>4. QED BY <1>2, <1>3

\* What is so of the assertions of all frames, and of all frames that wait for
\* another one, stays so.
LEMMA FramesStep ==
    ASSUME SearchTypeOK, Strength, [Next]_vars, NEW Q, NEW W,
           \A i \in DOMAIN stack : /\ stack[i].as \in Q
                                   /\ i > 1 => stack[i] \in W,
           \A a \in Id : asserts[a].cond # 0 => a \in Q,
           Recurse => [as |-> frame.as, key |-> frame.key,
                       num |-> frame.num + 1] \in W
    PROVE  \A i \in DOMAIN stack' : /\ stack'[i].as \in Q
                                    /\ i > 1 => stack'[i] \in W
<1>1. stack \in Seq(Frame)
  BY DEF SearchTypeOK
<1>2. CASE NextPolicy
  <2>1. PICK a \in Id : Enter(a, <<>>)
    BY <1>2 DEF NextPolicy, AssertionsBy
  <2>2. <<>> \in Seq(Frame) /\ DOMAIN <<>> = {}
    BY EmptySeq
  <2>4. CASE asserts[a].cond = 0
    <3>1. stack' = <<>>
      BY <2>1, <2>2, <2>4, Entered
    <3>2. QED BY <2>2, <3>1
  <2>5. CASE asserts[a].cond # 0
    <3>0. /\ stack'[1] = [as |-> a, key |-> 1, num |-> 0]
          /\ \A i \in DOMAIN stack' : i > 1 => i - 1 \in DOMAIN <<>>
      BY <2>1, <2>2, <2>5, Entered
    <3>1. \A i \in DOMAIN stack' : ~ (i > 1)
      BY <2>2, <3>0
    <3>2. stack' \in Seq(Frame)
      BY <2>1, <2>2, EnterType
    <3>3. \A i \in DOMAIN stack' : i = 1
      BY <3>1, <3>2, LenProperties
    <3>4. QED BY <2>5, <3>0, <3>1, <3>3
  <2>6. QED BY <2>4, <2>5
<1>3. CASE NoMorePolicies \/ Judge \/ UNCHANGED vars
  BY <1>3 DEF NoMorePolicies, Judge, vars, searchVars
<1>4. CASE NextKey
  <2>1. stack # <<>> /\ stack' = AtNextKey
    BY <1>4 DEF NextKey, AtAKey, Searching
  <2>2. /\ DOMAIN AtNextKey = DOMAIN stack /\ AtNextKey[1].as = stack[1].as
        /\ \A i \in DOMAIN stack : i > 1 => AtNextKey[i] = stack[i]
        /\ DOMAIN stack = 1 .. Len(stack)
    BY <1>1, <2>1, MovedOn, LenProperties DEF frame
  <2>3. QED BY <2>1, <2>2
<1>5. ASSUME stack # <<>>
      PROVE  \A i \in DOMAIN AtNextAssertion :
                 /\ AtNextAssertion[i].as \in Q
                 /\ i > 1 => AtNextAssertion[i] \in W
  <2>1. /\ DOMAIN AtNextAssertion = DOMAIN stack
        /\ AtNextAssertion[1].as = stack[1].as
        /\ \A i \in DOMAIN stack : i > 1 => AtNextAssertion[i] = stack[i]
        /\ DOMAIN stack = 1 .. Len(stack)
    BY <1>1, <1>5, MovedOn, LenProperties DEF frame
  <2>2. QED BY <2>1
<1>6. CASE SkipAssertion
  <2>1. stack # <<>> /\ stack' = AtNextAssertion
    BY <1>6 DEF SkipAssertion, AtAnAssertion, AtAKey, Searching
  <2>2. QED BY <1>5, <2>1
<1>7. CASE Recurse
  <2>1. stack # <<>>
    BY <1>7, RecurseFacts
  <2>2. PICK a \in Id : Enter(a, AtNextAssertion)
    BY <1>7, RecurseFacts
  <2>3. /\ AtNextAssertion \in Seq(Frame) /\ AtNextAssertion[1] \in W
        /\ \A i \in DOMAIN AtNextAssertion : i \in Nat \ {0}
    BY <1>1, <1>7, <2>1, MovedOn, LenProperties
  <2>4. \A k \in DOMAIN AtNextAssertion : AtNextAssertion[k] \in W
    <3>1. SUFFICES ASSUME NEW k \in DOMAIN AtNextAssertion
                   PROVE  AtNextAssertion[k] \in W
      OBVIOUS
    <3>2. CASE k = 1
      BY <2>3, <3>2
    <3>3. CASE k > 1
      BY <1>5, <2>1, <3>3
    <3>4. QED BY <2>3, <3>2, <3>3
  <2>5. CASE asserts[a].cond = 0
    <3>1. stack' = AtNextAssertion
      BY <2>2, <2>3, <2>5, Entered
    <3>2. QED BY <1>5, <2>1, <3>1
  <2>6. CASE asserts[a].cond # 0
    <3>1. /\ stack'[1] = [as |-> a, key |-> 1, num |-> 0]
          /\ \A i \in DOMAIN stack' :
                 i > 1 => /\ i - 1 \in DOMAIN AtNextAssertion
                          /\ stack'[i] = AtNextAssertion[i - 1]
      BY <2>2, <2>3, <2>6, Entered
    <3>2. DOMAIN stack' = 1 .. Len(stack') /\ Len(stack') \in Nat
      BY <2>2, <2>3, EnterType, LenProperties
    <3>3. SUFFICES ASSUME NEW i \in DOMAIN stack'
                   PROVE  stack'[i].as \in Q /\ (i > 1 => stack'[i] \in W)
      OBVIOUS
    <3>4. CASE i = 1
      BY <2>6, <3>1, <3>4
    <3>5. CASE i > 1
      <4>1. i - 1 \in DOMAIN AtNextAssertion /\ stack'[i] = AtNextAssertion[i - 1]
        BY <3>1, <3>5
      <4>2. AtNextAssertion[i - 1].as \in Q /\ AtNextAssertion[i - 1] \in W
        BY <1>5, <2>1, <2>4, <4>1
      <4>3. QED BY <4>1, <4>2
    <3>6. QED BY <3>2, <3>4, <3>5
  <2>7. QED BY <2>5, <2>6
<1>8. CASE Finish
  <2>1. stack # <<>> /\ stack' = Tail(stack)
    BY <1>8 DEF Finish, Searching
  <2>2. \A i \in DOMAIN stack' : /\ i + 1 \in DOMAIN stack /\ i + 1 > 1
                                 /\ stack'[i] = stack[i + 1]
    BY <1>1, <2>1, StackFacts
  <2>3. QED BY <2>2
<1>9. QED BY <1>2, <1>3, <1>4, <1>6, <1>7, <1>8 DEF Next

\* An assertion whose conditions give nothing gets no frame.
Started == \A i \in DOMAIN stack : asserts[stack[i].as].cond # 0

\* The frames of the stack are frames of assertions.
LEMMA StackFrames ==
    ASSUME SearchTypeOK
    PROVE  \A i \in DOMAIN stack : stack[i] \in Frame /\ stack[i].as \in Id
<1>1. stack \in Seq(Frame)
  BY DEF SearchTypeOK
<1>2. \A i \in DOMAIN stack : stack[i].as \in Id
  BY <1>1, StackIds DEF Frame
<1>3. \A i \in DOMAIN stack : stack[i] \in Frame
  BY <1>1, LenProperties, ElementOfSeq
<1>4. QED BY <1>2, <1>3

\* Each step enters an assertion only if it has conditions to speak of.
LEMMA NextStarted ==
    ASSUME SearchTypeOK, Strength, Started, [Next]_vars
    PROVE  Started'
<1> DEFINE Q == {a \in Id : asserts[a].cond # 0}
           W == Frame
<1>1. \A i \in DOMAIN stack : stack[i] \in Frame /\ stack[i].as \in Id
  BY StackFrames
<1>2. \A i \in DOMAIN stack : stack[i].as \in Q /\ (i > 1 => stack[i] \in W)
  BY <1>1 DEF Started
<1>3. Recurse => [as |-> frame.as, key |-> frame.key, num |-> frame.num + 1] \in W
  <2>1. ASSUME Recurse PROVE frame \in Frame
    BY <2>1, RecurseFacts, FrameFacts DEF SearchTypeOK
  <2>2. QED BY <2>1 DEF Frame
<1>4. \A a \in Id : asserts[a].cond # 0 => a \in Q
  OBVIOUS
<1> HIDE DEF Q, W
<1>5. \A i \in DOMAIN stack' : stack'[i].as \in Q
  BY <1>2, <1>3, <1>4, FramesStep
<1>6. QED BY <1>5, AssertsStay DEF Q, Started

-------------------------------------------------------------------------------
(***************************************************************************)
(* The tree.                                                               *)
(***************************************************************************)
\* What is under a node is in every set that has it and is closed.
LEMMA UnderLeast ==
    ASSUME NEW n, NEW U \in SUBSET Id, n \in U,
           \A x \in U : Range(kids[x]) \subseteq U
    PROVE  Under(n) \subseteq U
BY DEF Under

\* The kids are assertions.
LEMMA KidsAreIds ==
    ASSUME TreeTypeOK, NEW n \in Id
    PROVE  /\ kids[n] \in Seq(Id) /\ Range(kids[n]) \subseteq Id
           /\ \A i \in DOMAIN kids[n] : kids[n][i] \in Range(kids[n])
<1>1. kids[n] \in Seq(Id)
  BY DEF TreeTypeOK
<1>2. \A i \in DOMAIN kids[n] : kids[n][i] \in Id
  BY <1>1, LenProperties, ElementOfSeq
<1>3. QED BY <1>1, <1>2 DEF Range

\* The nodes have come to the tree.
LEMMA NodesArePlaced ==
    ASSUME TreeTypeOK, NEW n \in Nodes
    PROVE  n \in Id /\ Placed(root, kids, n) /\ root \in Id
<1>1. root # None /\ n \in Under(root)
  BY DEF Nodes
<1>2. root \in Id
  BY <1>1 DEF TreeTypeOK
<1> DEFINE U == {m \in Id : Placed(root, kids, m)}
<1>3. root \in U
  BY <1>2 DEF Placed
<1>4. \A x \in U : Range(kids[x]) \subseteq U
  BY KidsAreIds DEF Placed
<1>5. U \in SUBSET Id
  OBVIOUS
<1> HIDE DEF U
<1>6. n \in U
  BY <1>1, <1>3, <1>4, <1>5, UnderLeast
<1>7. QED BY <1>2, <1>6 DEF U

\* The root is under no other node, nor after one.
LEMMA RootComesFirst ==
    ASSUME TreeTypeOK, Tree(root, kids), NEW n \in Nodes, ComesFirst(n, root)
    PROVE  n = root
<1>1. ASSUME NEW y \in Id, root \in Under(y), y # root
      PROVE  FALSE
  <2> DEFINE U == Id \ {root}
  <2>1. \A x \in U : Range(kids[x]) \subseteq U
    BY KidsAreIds DEF Tree
  <2>2. U \in SUBSET Id /\ y \in U /\ root \notin U
    BY <1>1
  <2> HIDE DEF U
  <2>3. QED BY <1>1, <2>1, <2>2, UnderLeast
<1>2. n \in Id
  BY NodesArePlaced
<1>3. ASSUME NEW x \in Nodes, NEW i \in DOMAIN kids[x], NEW j \in DOMAIN kids[x],
             root \in Under(kids[x][j])
      PROVE  FALSE
  <2>1. x \in Id
    BY NodesArePlaced
  <2>2. kids[x][j] \in Id /\ kids[x][j] # root
    BY <2>1, KidsAreIds DEF Tree
  <2>3. QED BY <1>1, <1>3, <2>2
<1>4. QED BY <1>1, <1>2, <1>3 DEF ComesFirst

\* A node with another kid.
Grown(n, a) == [kids EXCEPT ![n] = Append(kids[n], a)]

\* What insert_delegation can do.
LEMMA Inserted ==
    ASSUME TreeTypeOK, NEW a \in Id, insert_delegation(a)
    PROVE  \/ root = None /\ root' = a /\ kids' = kids
           \/ root # None /\ UNCHANGED <<root, kids>>
           \/ /\ root \in Id /\ IsFather(a, root)
              /\ root' = a /\ kids' = Adopted(a)
           \/ \E n \in Nodes :
                  /\ IsChild(a, n) /\ May(a) /\ root' = root /\ root # None
                  /\ kids' = Grown(n, a)
<1>1. CASE root = None
  BY <1>1 DEF insert_delegation, Places, Nodes
<1>2. CASE root # None
  <2>1. root \in Id
    BY <1>2 DEF TreeTypeOK
  <2>2. CASE Places(a) = {} /\ UNCHANGED treeVars
    BY <1>2, <2>2 DEF treeVars
  <2>3. CASE \E n \in Places(a) :
                 \/ /\ IsFather(a, n) /\ n = root
                    /\ root' = a
                    /\ kids' = Adopted(a)
                 \/ /\ IsFather(a, n) /\ n # root
                    /\ UNCHANGED treeVars
                 \/ /\ ~ IsFather(a, n)
                    /\ root' = root
                    /\ kids' = [kids EXCEPT ![n] = Append(@, a)]
    BY <1>2, <2>1, <2>3 DEF Places, treeVars, Grown
  <2>4. QED BY <1>2, <2>2, <2>3 DEF insert_delegation
<1>3. QED BY <1>1, <1>2

\* Adding a kid.
LEMMA Appended ==
    ASSUME TreeTypeOK, NEW a \in Id, NEW n \in Id
    PROVE  /\ Grown(n, a) \in [Id -> Seq(Id)]
           /\ \A m \in Id : m # n => Grown(n, a)[m] = kids[m]
           /\ Range(Grown(n, a)[n]) = Range(kids[n]) \cup {a}
           /\ DOMAIN Grown(n, a)[n] = DOMAIN kids[n] \cup {Len(kids[n]) + 1}
           /\ Grown(n, a)[n][Len(kids[n]) + 1] = a /\ Grown(n, a)[n] # <<>>
           /\ \A i \in DOMAIN kids[n] : Grown(n, a)[n][i] = kids[n][i]
<1>1. kids \in [Id -> Seq(Id)] /\ kids[n] \in Seq(Id)
  BY DEF TreeTypeOK
<1>2. /\ Append(kids[n], a) \in Seq(Id)
      /\ Len(Append(kids[n], a)) = Len(kids[n]) + 1
      /\ \A i \in 1 .. Len(kids[n]) : Append(kids[n], a)[i] = kids[n][i]
      /\ Append(kids[n], a)[Len(kids[n]) + 1] = a
  BY <1>1, AppendProperties
<1>3. /\ Len(kids[n]) \in Nat /\ DOMAIN kids[n] = 1 .. Len(kids[n])
      /\ DOMAIN Append(kids[n], a) = 1 .. Len(kids[n]) + 1
  BY <1>1, <1>2, LenProperties
<1>4. Grown(n, a)[n] = Append(kids[n], a) /\ \A m \in Id : m # n => Grown(n, a)[m] = kids[m]
  BY <1>1 DEF Grown
<1>5. DOMAIN Grown(n, a)[n] = DOMAIN kids[n] \cup {Len(kids[n]) + 1}
  BY <1>3, <1>4
<1>6. Range(Grown(n, a)[n]) = Range(kids[n]) \cup {a}
  <2>1. \A i \in DOMAIN kids[n] : Grown(n, a)[n][i] = kids[n][i]
    BY <1>2, <1>3, <1>4
  <2>2. Grown(n, a)[n][Len(kids[n]) + 1] = a
    BY <1>2, <1>4
  <2>3. QED BY <1>5, <2>1, <2>2 DEF Range
<1>7. Grown(n, a)[n] # <<>>
  <2>1. DOMAIN <<>> = {}
    OBVIOUS
  <2>2. QED BY <1>5, <2>1
<1>8. Grown(n, a) \in [Id -> Seq(Id)]
  BY <1>1, <1>2 DEF Grown
<1>9. QED BY <1>2, <1>3, <1>4, <1>5, <1>6, <1>7, <1>8

\* A new father of the root.
LEMMA AdoptedFacts ==
    ASSUME TreeTypeOK, NEW a \in Id, root \in Id
    PROVE  /\ Adopted(a) \in [Id -> Seq(Id)]
           /\ \A m \in Id : m # a => Adopted(a)[m] = kids[m]
           /\ Adopted(a)[a] = IF May(a) THEN <<root>> ELSE <<>>
           /\ Range(Adopted(a)[a]) = IF May(a) THEN {root} ELSE {}
           /\ \A i \in DOMAIN Adopted(a)[a] : i = 1 /\ Adopted(a)[a][i] = root
<1>1. <<root>> \in Seq(Id) /\ <<>> \in Seq(Id)
  OBVIOUS
<1>2. /\ Adopted(a) \in [Id -> Seq(Id)]
      /\ \A m \in Id : m # a => Adopted(a)[m] = kids[m]
      /\ Adopted(a)[a] = IF May(a) THEN <<root>> ELSE <<>>
  BY <1>1 DEF Adopted, TreeTypeOK
<1>3. /\ DOMAIN <<root>> = {1} /\ <<root>>[1] = root /\ DOMAIN <<>> = {}
  OBVIOUS
<1>4. /\ Range(Adopted(a)[a]) = IF May(a) THEN {root} ELSE {}
      /\ \A i \in DOMAIN Adopted(a)[a] : i = 1 /\ Adopted(a)[a][i] = root
  <2>1. CASE May(a)
    BY <1>2, <1>3, <2>1 DEF Range
  <2>2. CASE ~ May(a)
    BY <1>2, <1>3, <2>2 DEF Range
  <2>3. QED BY <2>1, <2>2
<1>5. QED BY <1>2, <1>4

\* insert_delegation leaves the tree of the type it has.
LEMMA InsertType ==
    ASSUME TreeTypeOK, NEW a \in Id, insert_delegation(a)
    PROVE  root' \in Id \union {None} /\ kids' \in [Id -> Seq(Id)]
<1>1. CASE root = None /\ root' = a /\ kids' = kids
  BY <1>1 DEF TreeTypeOK
<1>2. CASE UNCHANGED <<root, kids>>
  BY <1>2 DEF TreeTypeOK
<1>3. CASE root \in Id /\ root' = a /\ kids' = Adopted(a)
  BY <1>3, AdoptedFacts
<1>4. CASE \E n \in Nodes : /\ root' = root
                            /\ kids' = Grown(n, a)
  <2>1. PICK n \in Nodes : /\ root' = root
                           /\ kids' = Grown(n, a)
    BY <1>4
  <2>2. n \in Id
    BY NodesArePlaced
  <2>3. QED BY <2>1, <2>2, Appended DEF TreeTypeOK
<1>5. QED BY <1>1, <1>2, <1>3, <1>4, Inserted

\* A tree stays one when an assertion comes to it for the first time.
LEMMA InsertTree ==
    ASSUME TreeTypeOK, Tree(root, kids), NEW a \in Id, insert_delegation(a),
           ~ Placed(root, kids, a)
    PROVE  /\ Tree(root', kids')
           /\ \A n \in Id : Placed(root', kids', n) =>
                                n = a \/ Placed(root, kids, n)
<1>0. /\ root # a /\ kids[a] = <<>> /\ \A m \in Id : a \notin Range(kids[m])
      /\ DOMAIN kids[a] = {} /\ Range(kids[a]) = {}
  <2>1. root # a /\ kids[a] = <<>> /\ \A m \in Id : a \notin Range(kids[m])
    BY DEF Placed
  <2>2. DOMAIN <<>> = {}
    OBVIOUS
  <2>3. QED BY <2>1, <2>2 DEF Range
<1>1. CASE root = None /\ root' = a /\ kids' = kids
  BY <1>0, <1>1 DEF Tree, Placed
<1>2. CASE UNCHANGED <<root, kids>>
  BY <1>2
<1>3. CASE root \in Id /\ root' = a /\ kids' = Adopted(a)
  <2> DEFINE k == Adopted(a)
  <2>1. /\ \A m \in Id : m # a => k[m] = kids[m]
        /\ Range(k[a]) \subseteq {root}
        /\ \A i \in DOMAIN k[a] : i = 1 /\ k[a][i] = root
    BY <1>3, AdoptedFacts
  <2> HIDE DEF k
  <2>2. \A m \in Id : a \notin Range(k[m])
    BY <1>0, <2>1
  <2>3. ASSUME NEW x \in Id, NEW y \in Id, NEW i \in DOMAIN k[x],
               NEW j \in DOMAIN k[y], k[x][i] = k[y][j]
        PROVE  x = y /\ i = j
    <3>1. \A m \in Id : \A l \in DOMAIN kids[m] : kids[m][l] # root
      BY KidsAreIds DEF Tree
    <3>2. CASE x = a /\ y = a
      BY <2>1, <3>2
    <3>3. CASE x = a /\ y # a
      BY <2>1, <2>3, <3>1, <3>3
    <3>4. CASE x # a /\ y = a
      BY <2>1, <2>3, <3>1, <3>4
    <3>5. CASE x # a /\ y # a
      <4>1. k[x] = kids[x] /\ k[y] = kids[y]
        BY <2>1, <3>5
      <4>2. QED BY <2>3, <4>1 DEF Tree
    <3>6. QED BY <3>2, <3>3, <3>4, <3>5
  <2>4. Tree(a, k)
    BY <2>2, <2>3 DEF Tree
  <2>5. \A n \in Id : Placed(a, k, n) => n = a \/ Placed(root, kids, n)
    <3>1. SUFFICES ASSUME NEW n \in Id, Placed(a, k, n), n # a
                   PROVE  Placed(root, kids, n)
      OBVIOUS
    <3>2. CASE k[n] # <<>>
      BY <2>1, <3>1, <3>2 DEF Placed
    <3>3. CASE \E m \in Id : n \in Range(k[m])
      <4>1. PICK m \in Id : n \in Range(k[m])
        BY <3>3
      <4>2. n = root \/ n \in Range(kids[m])
        BY <2>1, <4>1
      <4>3. QED BY <4>2 DEF Placed
    <3>4. QED BY <3>1, <3>2, <3>3 DEF Placed
  <2>6. QED BY <1>3, <2>4, <2>5 DEF k
<1>4. CASE \E n \in Nodes : /\ root' = root /\ root # None
                            /\ kids' = Grown(n, a)
  <2>1. PICK n \in Nodes : /\ root' = root /\ root # None
                           /\ kids' = Grown(n, a)
    BY <1>4
  <2>2. n \in Id /\ Placed(root, kids, n)
    BY NodesArePlaced
  <2> DEFINE k == Grown(n, a)
             e == Len(kids[n]) + 1
  <2>2a. n \in Id
    BY <2>2
  <2>2b. \A m \in Id : m # n => k[m] = kids[m]
    BY <2>2a, Appended
  <2>2c. Range(k[n]) = Range(kids[n]) \cup {a}
    BY <2>2a, Appended
  <2>2d. DOMAIN k[n] = DOMAIN kids[n] \cup {e} /\ k[n][e] = a
    BY <2>2a, Appended
  <2>2e. \A i \in DOMAIN kids[n] : k[n][i] = kids[n][i]
    BY <2>2a, Appended
  <2> HIDE DEF k, e
  <2>3. /\ \A m \in Id : m # n => k[m] = kids[m]
        /\ Range(k[n]) = Range(kids[n]) \cup {a}
        /\ DOMAIN k[n] = DOMAIN kids[n] \cup {e} /\ k[n][e] = a
        /\ \A i \in DOMAIN kids[n] : k[n][i] = kids[n][i]
    BY <2>2b, <2>2c, <2>2d, <2>2e
  <2>4. \A m \in Id : root \notin Range(k[m])
    BY <1>0, <2>3 DEF Tree
  <2>5. \A x \in Id : \A i \in DOMAIN k[x] :
            \/ x = n /\ i = e /\ k[x][i] = a
            \/ i \in DOMAIN kids[x] /\ k[x][i] = kids[x][i]
    BY <2>3
  <2>6. \A x \in Id : \A i \in DOMAIN kids[x] : kids[x][i] # a
    BY <1>0, KidsAreIds
  <2>7. ASSUME NEW x \in Id, NEW y \in Id, NEW i \in DOMAIN k[x],
               NEW j \in DOMAIN k[y], k[x][i] = k[y][j]
        PROVE  x = y /\ i = j
    <3>1. CASE k[x][i] = a
      <4>1. x = n /\ i = e
        BY <2>5, <2>6, <3>1
      <4>2. y = n /\ j = e
        BY <2>5, <2>6, <2>7, <3>1
      <4>3. QED BY <4>1, <4>2
    <3>2. CASE k[x][i] # a
      <4>1. /\ i \in DOMAIN kids[x] /\ k[x][i] = kids[x][i]
            /\ j \in DOMAIN kids[y] /\ k[y][j] = kids[y][j]
        BY <2>5, <2>7, <3>2
      <4>2. kids[x][i] = kids[y][j]
        BY <2>7, <4>1
      <4>3. QED BY <4>1, <4>2 DEF Tree
    <3>3. QED BY <3>1, <3>2
  <2>8. Tree(root, k)
    BY <2>4, <2>7 DEF Tree
  <2>9. \A m \in Id : Placed(root, k, m) => m = a \/ Placed(root, kids, m)
    <3>1. SUFFICES ASSUME NEW m \in Id, Placed(root, k, m), m # a
                   PROVE  Placed(root, kids, m)
      OBVIOUS
    <3>2. CASE k[m] # <<>>
      BY <2>2, <2>3, <3>2 DEF Placed
    <3>3. CASE \E l \in Id : m \in Range(k[l])
      <4>1. PICK l \in Id : m \in Range(k[l])
        BY <3>3
      <4>2. m \in Range(kids[l])
        BY <2>3, <3>1, <4>1
      <4>3. QED BY <4>2 DEF Placed
    <3>4. QED BY <3>1, <3>2, <3>3 DEF Placed
  <2>10. QED BY <2>1, <2>8, <2>9 DEF k
<1>5. QED BY <1>1, <1>2, <1>3, <1>4, Inserted

\* The assertion that comes to its end, and what becomes of the others.
LEMMA Finished ==
    ASSUME SearchTypeOK, InOrder, Started, Finish
    PROVE  /\ frame.as \in Id /\ stack # <<>> /\ insert_delegation(frame.as)
           /\ kresult[frame.as] = "in progress" /\ kresult'[frame.as] = "done"
           /\ result[frame.as] = asserts[frame.as].cond
           /\ asserts[frame.as].cond # 0
           /\ \A b \in Id : b # frame.as =>
                  kresult'[b] = kresult[b] /\ result'[b] = result[b]
<1>1. stack # <<>> /\ stack \in Seq(Frame)
  BY DEF Finish, Searching, SearchTypeOK
<1>2. 1 \in DOMAIN stack /\ frame.as \in Id
  BY <1>1, MovedOn
<1>3. /\ kresult[frame.as] = "in progress"
      /\ result[frame.as] = asserts[frame.as].cond
      /\ asserts[frame.as].cond # 0
  BY <1>2 DEF InOrder, OnStack, Started, frame
<1>4. /\ kresult'[frame.as] = "done"
      /\ \A b \in Id : b # frame.as =>
             kresult'[b] = kresult[b] /\ result'[b] = result[b]
  BY <1>2 DEF Finish, SearchTypeOK
<1>5. insert_delegation(frame.as)
  BY DEF Finish
<1>6. QED BY <1>1, <1>2, <1>3, <1>4, <1>5

\* A frame is not at a key and past all keys.
LEMMA NotBoth == ASSUME SearchTypeOK, Recurse PROVE ~ Finish
<1>1. stack # <<>> /\ stack \in Seq(Frame)
  BY RecurseFacts DEF SearchTypeOK
<1>2. frame.key \in Nat /\ Len(keys) \in Nat
  <2>1. frame \in Frame /\ frame.as \in Id
    BY <1>1, MovedOn
  <2>2. keys \in Seq(Principal)
    BY <2>1, AssertionFields DEF SearchTypeOK, keys
  <2>3. QED BY <2>1, <2>2, LenProperties DEF Frame
<1>3. QED BY <1>2 DEF Finish, Recurse, AtAnAssertion, AtAKey

\* Entering leaves alone what is evaluated.
LEMMA EnteredIsNew ==
    ASSUME SearchTypeOK, NEW a \in Id, NEW s \in Seq(Frame), Enter(a, s),
           kresult[a] = "untouched"
    PROVE  \A n \in Id : Evaluated(n, kresult') <=> Evaluated(n, kresult)
<1>1. SUFFICES ASSUME NEW n \in Id
               PROVE  Evaluated(n, kresult') <=> Evaluated(n, kresult)
  OBVIOUS
<1>2. CASE n = a
  <2>1. ~ Evaluated(n, kresult)
    BY <1>2 DEF Evaluated
  <2>2. ~ Evaluated(n, kresult')
    BY <1>2, Entered DEF Evaluated
  <2>3. QED BY <2>1, <2>2
<1>3. CASE n # a
  <2>1. kresult'[n] = kresult[n]
    BY <1>3, Entered
  <2>2. QED BY <2>1 DEF Evaluated
<1>4. QED BY <1>2, <1>3

\* A step evaluates at most the assertion of the innermost frame.
LEMMA NextEvaluated ==
    ASSUME SearchTypeOK, Strength, InOrder, Started, [Next]_vars,
           \A a \in Id : NextPolicy /\ policy' = a => kresult[a] = "untouched"
    PROVE  \A n \in Id : Evaluated(n, kresult') <=>
               Evaluated(n, kresult) \/ (Finish /\ n = frame.as)
<1>1. CASE NextPolicy
  <2>1. PICK a \in Id : policy' = a /\ Enter(a, <<>>)
    BY <1>1 DEF NextPolicy, AssertionsBy
  <2>2. <<>> \in Seq(Frame) /\ kresult[a] = "untouched"
    BY <1>1, <2>1, EmptySeq
  <2>3. \A n \in Id : Evaluated(n, kresult') <=> Evaluated(n, kresult)
    BY <2>1, <2>2, EnteredIsNew
  <2>4. ~ Finish
    BY <1>1 DEF NextPolicy, Finish, Searching
  <2>5. QED BY <2>3, <2>4
<1>2. CASE Recurse
  <2>1. stack # <<>> /\ stack \in Seq(Frame)
    BY <1>2, RecurseFacts DEF SearchTypeOK
  <2>2. PICK a \in Id : kresult[a] = "untouched" /\ Enter(a, AtNextAssertion)
    BY <1>2, RecurseFacts
  <2>3. AtNextAssertion \in Seq(Frame)
    BY <2>1, MovedOn
  <2>4. \A n \in Id : Evaluated(n, kresult') <=> Evaluated(n, kresult)
    BY <2>2, <2>3, EnteredIsNew
  <2>5. ~ Finish
    BY <1>2, NotBoth
  <2>6. QED BY <2>4, <2>5
<1>3. CASE Finish
  <2>1. SUFFICES ASSUME NEW n \in Id
                 PROVE  Evaluated(n, kresult') <=>
                            Evaluated(n, kresult) \/ n = frame.as
    BY <1>3
  <2>2. CASE n = frame.as
    BY <1>3, <2>2, Finished DEF Evaluated
  <2>3. CASE n # frame.as
    BY <1>3, <2>3, Finished DEF Evaluated
  <2>4. QED BY <2>2, <2>3
<1>4. CASE NoMorePolicies \/ Judge \/ NextKey \/ SkipAssertion \/ UNCHANGED vars
  <2>1. kresult' = kresult
    BY <1>4 DEF NoMorePolicies, Judge, NextKey, SkipAssertion, vars, searchVars
  <2>2. Finish => \A n \in Id : kresult'[n] = kresult[n]
    BY <2>1
  <2>3. ~ Finish
    <3>1. SUFFICES ASSUME Finish PROVE FALSE
      OBVIOUS
    <3>2. kresult[frame.as] = "in progress" /\ kresult'[frame.as] = "done"
      BY <3>1, Finished
    <3>3. QED BY <2>1, <3>2
  <2>4. QED BY <2>1, <2>3
<1>5. QED BY <1>1, <1>2, <1>3, <1>4 DEF Next

\* Only the end of an evaluation changes the tree.
LEMMA TreeStays == [Next]_vars /\ ~ Finish => UNCHANGED <<root, kids>>
BY DEF Next, NextPolicy, NoMorePolicies, Judge, NextKey, SkipAssertion,
       Recurse, vars, treeVars

\* Each step leaves the tree of the type it has: only Finish inserts.
LEMMA NextTreeType ==
    ASSUME SearchTypeOK, TreeTypeOK, InOrder, Started, [Next]_vars
    PROVE  TreeTypeOK'
<1>1. Id' = Id
  BY AssertsStay, SameAsserts
<1>2. root' \in Id \union {None} /\ kids' \in [Id -> Seq(Id)]
  <2>1. CASE Finish
    BY <2>1, Finished, InsertType
  <2>2. CASE ~ Finish
    BY <2>2, TreeStays DEF TreeTypeOK
  <2>3. QED BY <2>1, <2>2
<1>3. QED BY <1>1, <1>2 DEF TreeTypeOK

\* Each step keeps the tree a tree of what is evaluated.
LEMMA NextPlanted ==
    ASSUME SearchTypeOK, Strength, TreeTypeOK, InOrder, Started,
           Planted(root, kids, kresult), [Next]_vars,
           \A a \in Id : NextPolicy /\ policy' = a => kresult[a] = "untouched"
    PROVE  Planted(root', kids', kresult')
<1>1. \A n \in Id : Evaluated(n, kresult') <=>
          Evaluated(n, kresult) \/ (Finish /\ n = frame.as)
  BY NextEvaluated
<1>2. CASE Finish
  <2>1. /\ frame.as \in Id /\ insert_delegation(frame.as)
        /\ kresult[frame.as] = "in progress"
    BY <1>2, Finished
  <2>2. ~ Evaluated(frame.as, kresult)
    BY <2>1 DEF Evaluated
  <2>3. ~ Placed(root, kids, frame.as) /\ Tree(root, kids)
    BY <2>1, <2>2 DEF Planted
  <2>4. /\ Tree(root', kids')
        /\ \A n \in Id : Placed(root', kids', n) =>
                             n = frame.as \/ Placed(root, kids, n)
    BY <2>1, <2>3, InsertTree
  <2>5. QED BY <1>1, <1>2, <2>4 DEF Planted
<1>3. CASE ~ Finish
  BY <1>1, <1>3, TreeStays DEF Planted
<1>4. QED BY <1>2, <1>3

-------------------------------------------------------------------------------
\* What holds of the search and of the tree.
DInv == InOrder /\ Started /\ TreeTypeOK /\ TInv

\* The search starts with an empty stack and an empty tree.
LEMMA InitDInv == Init => DInv
<1> SUFFICES ASSUME Init PROVE DInv
  OBVIOUS
<1>1. /\ DOMAIN stack = {} /\ \A a \in Id : kresult[a] = "untouched"
      /\ kids = [a \in Id |-> <<>>] /\ root = None
  BY DEF Init
<1>2. InOrder /\ Started
  BY <1>1 DEF InOrder, OnStack, Started
<1>3. <<>> \in Seq(Id) /\ DOMAIN <<>> = {}
  BY EmptySeq
<1>4. TreeTypeOK
  BY <1>1, <1>3 DEF TreeTypeOK
<1>5. \A a \in Id : /\ kids[a] = <<>> /\ DOMAIN kids[a] = {}
                    /\ Range(kids[a]) = {} /\ a # None
  <2>1. \A a \in Id : a \in Nat \ {0}
    BY InitType, AssertionFields DEF SearchTypeOK
  <2>2. QED BY <1>1, <1>3, <2>1 DEF Range, None
<1>6. Planted(root, kids, kresult)
  BY <1>1, <1>5 DEF Planted, Tree, Placed
<1>7. Frames(stack, kresult, result)
  BY <1>1, <1>2 DEF Frames, InOrder
<1>8. PoliciesInTurn
  BY <1>1 DEF PoliciesInTurn, AssertionsBy
<1>9. QED BY <1>2, <1>4, <1>6, <1>7, <1>8 DEF DInv, TInv

\* The search does not go to POLICY, if nobody licenses it.
LEMMA NotToPOLICY ==
    ASSUME SearchTypeOK, NoneLicensesPOLICY, Recurse
    PROVE  keys[frame.key] # POLICY
<1>1. frame.key \in DOMAIN keys /\ stack # <<>> /\ stack \in Seq(Frame)
  BY RecurseFacts DEF SearchTypeOK
<1>2. frame.as \in Id
  BY <1>1, MovedOn
<1>3. QED BY <1>1, <1>2 DEF NoneLicensesPOLICY, keys

\* Each step keeps the order of the stack and the tree.
LEMMA NextDInv == SearchTypeOK /\ Strength /\ DInv /\ [Next]_vars => DInv'
<1> SUFFICES ASSUME SearchTypeOK, Strength, DInv, [Next]_vars PROVE DInv'
  OBVIOUS
<1>1. InOrder /\ Started /\ TreeTypeOK /\ TInv
  BY DEF DInv
<1>2. InOrder' /\ Started' /\ TreeTypeOK'
  BY <1>1, NextInOrder, NextStarted, NextTreeType
<1>3. UNCHANGED asserts
  BY AssertsStay
<1>4. ASSUME NoneLicensesPOLICY
      PROVE  /\ Frames(stack', kresult', result') /\ PoliciesInTurn'
             /\ Planted(root', kids', kresult')
  <2>1. /\ Frames(stack, kresult, result) /\ PoliciesInTurn
        /\ Planted(root, kids, kresult)
    BY <1>1, <1>4 DEF TInv
  <2>2. Recurse => keys[frame.key] # POLICY
    BY <1>4, NotToPOLICY
  <2>3. /\ Frames(stack', kresult', result') /\ PoliciesInTurn'
        /\ \A a \in Id : NextPolicy /\ policy' = a => kresult[a] = "untouched"
    BY <2>1, <2>2, NextFrames
  <2>4. Planted(root', kids', kresult')
    BY <1>1, <2>1, <2>3, NextPlanted
  <2>5. QED BY <2>3, <2>4
<1>5. TInv'
  <2>1. /\ NoneLicensesPOLICY' = NoneLicensesPOLICY
        /\ \A s, kr, res : Frames(s, kr, res)' <=> Frames(s, kr, res)
        /\ \A r, k, kr : Planted(r, k, kr)' <=> Planted(r, k, kr)
    BY <1>3, SameAsserts DEF Planted, Tree, Placed, Evaluated
  <2>2. QED BY <1>4, <2>1 DEF TInv
<1>6. QED BY <1>2, <1>5 DEF DInv

\* The invariant of the tree, whatever the assertions, keys and cycles are:
\* what is in it was put there once, at the end of its evaluation.
THEOREM DelegateInvariance == Spec => []DInv
<1>1. IInv => SearchTypeOK /\ Strength
  BY DEF IInv
<1>2. QED BY <1>1, InitDInv, NextDInv, Invariance, PTL DEF Spec

\* Each variable is what it is meant to be, those in evaluation are on the
\* stack, each once, and what insert_delegation makes of the assertions is a
\* tree: validate_delgation comes to each of them at most once, and to its end.
THEOREM TypeCorrect == Spec => []TypeOK
<1>1. SearchTypeOK /\ DInv => TypeOK
  <2> SUFFICES ASSUME SearchTypeOK, DInv PROVE TypeOK
    OBVIOUS
  <2>1. StackIsInProgress
    BY InOrderIsInProgress DEF DInv
  <2>2. NoneLicensesPOLICY => IsTree
    BY DEF DInv, TInv, Planted, Tree, IsTree
  <2>3. QED BY <2>1, <2>2 DEF TypeOK, DInv, TreeTypeOK
<1>2. QED BY <1>1, DelegateInvariance, SearchIsTyped, PTL

-------------------------------------------------------------------------------
(***************************************************************************)
(* The way from the root to a node.                                        *)
(***************************************************************************)
IsWay(c, k, n) ==
    /\ c \in [1 .. k -> Id] /\ c[1] = root /\ c[k] = n
    /\ \A i \in 1 .. k - 1 : c[i + 1] \in Range(kids[c[i]])

\* There is one to each node.
LEMMA WayToNode ==
    ASSUME TreeTypeOK, root \in Id, NEW n \in Under(root)
    PROVE  \E k \in Nat \ {0} : \E c : IsWay(c, k, n)
<1> DEFINE U == {m \in Id : \E k \in Nat \ {0} : \E c : IsWay(c, k, m)}
<1>1. root \in U
  <2> DEFINE c == [i \in 1 .. 1 |-> root]
  <2>1. c \in [1 .. 1 -> Id] /\ c[1] = root /\ 1 .. 1 - 1 = {}
    OBVIOUS
  <2> HIDE DEF c
  <2>2. IsWay(c, 1, root)
    BY <2>1 DEF IsWay
  <2>3. QED BY <2>2
<1>2. ASSUME NEW x \in U, NEW m \in Range(kids[x])
      PROVE  m \in U
  <2>1. PICK k \in Nat \ {0} : \E c : IsWay(c, k, x)
    BY <1>2
  <2>2. PICK c : IsWay(c, k, x)
    BY <2>1
  <2>3. m \in Id
    BY <1>2, KidsAreIds
  <2> DEFINE d == [i \in 1 .. k + 1 |-> IF i = k + 1 THEN m ELSE c[i]]
  <2>4. /\ c \in [1 .. k -> Id] /\ c[1] = root /\ c[k] = x
        /\ \A i \in 1 .. k - 1 : c[i + 1] \in Range(kids[c[i]])
    BY <2>2 DEF IsWay
  <2>5. /\ \A i \in 1 .. k : i \in 1 .. k + 1 /\ i # k + 1
        /\ \A i \in 1 .. k + 1 : i # k + 1 => i \in 1 .. k
        /\ 1 \in 1 .. k /\ k \in 1 .. k /\ k + 1 \in 1 .. k + 1
        /\ (k + 1) - 1 = k
    OBVIOUS
  <2>6. d \in [1 .. k + 1 -> Id] /\ d[k + 1] = m /\ \A i \in 1 .. k : d[i] = c[i]
    BY <2>3, <2>4, <2>5
  <2> HIDE DEF d
  <2>7. ASSUME NEW i \in 1 .. (k + 1) - 1
        PROVE  d[i + 1] \in Range(kids[d[i]])
    <3>1. CASE i = k
      BY <1>2, <2>4, <2>5, <2>6, <3>1
    <3>2. CASE i # k
      <4>1. i \in 1 .. k - 1 /\ i \in 1 .. k /\ i + 1 \in 1 .. k
        BY <3>2
      <4>2. d[i] = c[i] /\ d[i + 1] = c[i + 1]
        BY <2>6, <4>1
      <4>3. QED BY <2>4, <4>1, <4>2
    <3>3. QED BY <3>1, <3>2
  <2>8. IsWay(d, k + 1, m)
    BY <2>4, <2>5, <2>6, <2>7 DEF IsWay
  <2>9. k + 1 \in Nat \ {0}
    OBVIOUS
  <2>10. QED BY <2>3, <2>8, <2>9
<1>3. U \in SUBSET Id
  OBVIOUS
<1> HIDE DEF U
<1>4. n \in U
  BY <1>1, <1>2, <1>3, UnderLeast
<1>5. QED BY <1>4 DEF U

\* A way that comes twice to a node can be made shorter.
LEMMA ShorterWay ==
    ASSUME NEW k \in Nat \ {0}, NEW c, NEW n, IsWay(c, k, n),
           NEW i \in 1 .. k, NEW j \in 1 .. k, i < j, c[i] = c[j]
    PROVE  \E l \in Nat \ {0} : l < k /\ \E d : IsWay(d, l, n)
<1> DEFINE g == j - i
           l == k - g
           d == [x \in 1 .. l |-> IF x <= i THEN c[x] ELSE c[x + g]]
<1>1. /\ g \in Nat \ {0} /\ l \in Nat \ {0} /\ l < k /\ l + g = k
      /\ i + g = j /\ i \in Nat \ {0} /\ i <= l
      /\ \A x \in 1 .. l : /\ x <= i => x \in 1 .. k
                           /\ ~ (x <= i) => x + g \in 1 .. k
  OBVIOUS
<1>2. /\ c \in [1 .. k -> Id] /\ c[1] = root /\ c[k] = n
      /\ \A x \in 1 .. k - 1 : c[x + 1] \in Range(kids[c[x]])
  BY DEF IsWay
<1>3. /\ d \in [1 .. l -> Id]
      /\ \A x \in 1 .. l : d[x] = IF x <= i THEN c[x] ELSE c[x + g]
  BY <1>1, <1>2
<1> HIDE DEF d, g, l
<1>4. d[1] = root
  <2>1. 1 \in 1 .. l /\ 1 <= i
    BY <1>1
  <2>2. QED BY <1>2, <1>3, <2>1
<1>5. d[l] = n
  <2>1. l \in 1 .. l
    BY <1>1
  <2>2. CASE l <= i
    <3>1. l = i /\ j = k
      BY <1>1, <2>2
    <3>2. QED BY <1>2, <1>3, <2>1, <2>2, <3>1
  <2>3. CASE ~ (l <= i)
    BY <1>1, <1>2, <1>3, <2>1, <2>3
  <2>4. QED BY <2>2, <2>3
<1>6. ASSUME NEW x \in 1 .. l - 1
      PROVE  d[x + 1] \in Range(kids[d[x]])
  <2>1. x \in 1 .. l /\ x + 1 \in 1 .. l /\ x \in Nat
    BY <1>1
  <2>2. CASE x < i
    <3>1. x <= i /\ x + 1 <= i /\ x \in 1 .. k - 1
      BY <1>1, <2>1, <2>2
    <3>2. d[x] = c[x] /\ d[x + 1] = c[x + 1]
      BY <1>3, <2>1, <3>1
    <3>3. QED BY <1>2, <3>1, <3>2
  <2>3. CASE x = i
    <3>1. ~ (x + 1 <= i) /\ (x + 1) + g = j + 1 /\ j \in 1 .. k - 1 /\ x <= i
      BY <1>1, <2>1, <2>3
    <3>2. d[x] = c[j] /\ d[x + 1] = c[j + 1]
      BY <1>3, <2>1, <2>3, <3>1
    <3>3. QED BY <1>2, <3>1, <3>2
  <2>4. CASE x > i
    <3>1. /\ ~ (x <= i) /\ ~ (x + 1 <= i) /\ (x + 1) + g = (x + g) + 1
          /\ x + g \in 1 .. k - 1
      BY <1>1, <2>1, <2>4
    <3>2. d[x] = c[x + g] /\ d[x + 1] = c[(x + g) + 1]
      BY <1>3, <2>1, <3>1
    <3>3. QED BY <1>2, <3>1, <3>2
  <2>5. QED BY <1>1, <2>1, <2>2, <2>3, <2>4
<1>7. IsWay(d, l, n)
  BY <1>3, <1>4, <1>5, <1>6 DEF IsWay
<1>8. QED BY <1>1, <1>7

\* So there is one that is not longer than the list of the assertions.
LEMMA ShortWay ==
    ASSUME TreeTypeOK, SearchTypeOK, root \in Id, NEW n \in Under(root)
    PROVE  \E k \in 1 .. Len(asserts) : \E c : IsWay(c, k, n)
<1> DEFINE K == {k \in Nat \ {0} : \E c : IsWay(c, k, n)}
<1>1. K # {} /\ K \in SUBSET Nat
  BY WayToNode
<1>2. PICK k \in K : \A l \in K : k <= l
  <2> HIDE DEF K
  <2> QED BY <1>1, LeastNatural
<1>3. k \in Nat \ {0} /\ \E c : IsWay(c, k, n)
  OBVIOUS
<1>4. \A l \in Nat \ {0} : l < k => ~ \E d : IsWay(d, l, n)
  <2>1. SUFFICES ASSUME NEW l \in Nat \ {0}, l < k, \E d : IsWay(d, l, n)
                 PROVE  FALSE
    OBVIOUS
  <2>2. k <= l
    BY <1>2, <2>1
  <2>3. QED BY <1>3, <2>1, <2>2
<1> HIDE DEF K
<1>5. PICK c : IsWay(c, k, n)
  BY <1>3
<1>6. \A i, j \in 1 .. k : i # j => c[i] # c[j]
  <2>1. SUFFICES ASSUME NEW i \in 1 .. k, NEW j \in 1 .. k, i # j, c[i] = c[j]
                 PROVE  FALSE
    OBVIOUS
  <2>2. CASE i < j
    BY <1>3, <1>4, <1>5, <2>1, <2>2, ShorterWay
  <2>3. CASE j < i
    BY <1>3, <1>4, <1>5, <2>1, <2>3, ShorterWay
  <2>4. QED BY <2>1, <2>2, <2>3
<1>7. Id = 1 .. Len(asserts) /\ Len(asserts) \in Nat
  BY AssertionFields, LenProperties DEF SearchTypeOK, Id
<1>8. k <= Len(asserts)
  <2>1. SUFFICES ASSUME Len(asserts) < k PROVE FALSE
    BY <1>3, <1>7
  <2>2. /\ IsFiniteSet(1 .. k) /\ Cardinality(1 .. k) = k
        /\ IsFiniteSet(Id) /\ Cardinality(Id) = Len(asserts)
    <3>1. Cardinality(1 .. k) = IF 1 > k THEN 0 ELSE k - 1 + 1
      BY <1>3, FS_Interval
    <3>2. Cardinality(Id) = IF 1 > Len(asserts) THEN 0 ELSE Len(asserts) - 1 + 1
      BY <1>7, FS_Interval
    <3>3. IsFiniteSet(1 .. k) /\ IsFiniteSet(Id)
      BY <1>3, <1>7, FS_Interval
    <3>4. QED BY <1>3, <1>7, <3>1, <3>2, <3>3
  <2>3. c \in [1 .. k -> Id]
    BY <1>5 DEF IsWay
  <2>4. \E x, y \in 1 .. k : x # y /\ c[x] = c[y]
    BY <2>1, <2>2, <2>3, FS_PigeonHole
  <2>5. QED BY <1>6, <2>4
<1>9. QED BY <1>3, <1>5, <1>7, <1>8

-------------------------------------------------------------------------------
\* What is said of an assertion with one licensee.
LEMMA PlainFacts ==
    ASSUME SearchTypeOK, PlainCredentials, NEW a \in Id
    PROVE  /\ Len(asserts[a].keys) = 1 /\ DOMAIN asserts[a].keys = {1}
           /\ asserts[a].keys[1] = Licensee(a)
           /\ asserts[a].lics = {{Licensee(a)}} /\ Licensee(a) # POLICY
           /\ asserts[a].deleg # "?" /\ Trusted(a)
           /\ DependsOn(a) = AssertionsBy(Licensee(a))
<1>1. /\ Len(asserts[a].keys) = 1 /\ asserts[a].lics = {{Licensee(a)}}
      /\ asserts[a].deleg # "?" /\ Trusted(a) /\ NoneLicensesPOLICY
  BY DEF PlainCredentials
<1>2. asserts[a].keys \in Seq(Principal)
  BY AssertionFields DEF SearchTypeOK
<1>3. DOMAIN asserts[a].keys = {1}
  BY <1>1, <1>2, LenProperties
<1>4. asserts[a].keys[1] = Licensee(a)
  BY <1>1 DEF Licensee
<1>5. Licensee(a) # POLICY
  BY <1>1, <1>3, <1>4 DEF NoneLicensesPOLICY
<1>6. DependsOn(a) = AssertionsBy(Licensee(a))
  BY <1>3, <1>4 DEF DependsOn, AssertionsBy
<1>7. QED BY <1>1, <1>3, <1>4, <1>5, <1>6

\* The only key of a frame.
LEMMA PlainFrame ==
    ASSUME SearchTypeOK, PlainCredentials, stack # <<>>
    PROVE  /\ frame \in Frame /\ frame.as \in Id
           /\ Len(keys) = 1 /\ keys[1] = Licensee(frame.as)
           /\ frame.key \in Nat \ {0} /\ frame.num \in Nat
           /\ frame.key <= Len(keys) => frame.key = 1
<1>1. frame \in Frame /\ frame.as \in Id
  BY MovedOn DEF SearchTypeOK
<1>2. Len(keys) = 1 /\ keys[1] = Licensee(frame.as)
  BY <1>1, PlainFacts DEF keys
<1>3. frame.key \in Nat \ {0} /\ frame.num \in Nat
  BY <1>1 DEF Frame
<1>4. QED BY <1>1, <1>2, <1>3

\* What a plain assertion is worth in the end: something, if its licensee asks
\* or has an assertion that is worth something.
LEMMA PlainFinish ==
    ASSUME SearchTypeOK, PlainCredentials, Started,
           Frames(stack, kresult, result), Finish, NEW a, a = frame.as
    PROVE  /\ result'[a] > 0 <=>
                  \/ InAuthorizers(Licensee(a))
                  \/ \E b \in AssertionsBy(Licensee(a)) :
                         kresult[b] = "done" /\ result[b] > 0
           /\ InAuthorizers(Licensee(a)) \/
                  \A b \in AssertionsBy(Licensee(a)) : kresult[b] # "untouched"
<1> DEFINE p == Licensee(a)
<1>1. /\ a \in Id /\ stack # <<>> /\ result[a] = asserts[a].cond
      /\ asserts[a].cond # 0
  BY Finished DEF Frames, InOrder
<1>2. /\ asserts[a].lics = {{p}} /\ DOMAIN asserts[a].keys = {1}
      /\ asserts[a].keys[1] = p /\ Trusted(a)
  BY <1>1, PlainFacts
<1>3. asserts[a].cond \in Value /\ Value = 0 .. Values - 1 /\ Values \in Nat
  BY <1>1, AssertionFields, QueryAssumption DEF SearchTypeOK, Value
<1>4. 1 \in Value \ {0} /\ asserts[a].cond >= 1 /\ asserts[a].cond \in Nat
  BY <1>1, <1>3
<1>5. Keypred(a) >= 1 <=> KeyHas(p, 1)
  <2>1. Keypred(a) >= 1 <=>
            \E S \in asserts[a].lics : \A q \in S : KeyHas(q, 1)
    BY <1>4, KeypredIsLeast
  <2>2. QED BY <1>2, <2>1
<1>6. Keypred(a) \in Nat
  BY <1>3, KeypredIsHad
<1>7. result'[a] = Minimum(result[a], Keypred(a))
  <2>1. result' = [result EXCEPT ![a] =
               IF Trusted(a) THEN Minimum(@, Keypred(a)) ELSE 0]
    BY DEF Finish
  <2>2. result \in [Id -> Value]
    BY DEF SearchTypeOK
  <2>3. QED BY <1>1, <1>2, <2>1, <2>2
<1>8. result'[a] > 0 <=> KeyHas(p, 1)
  <2>1. Minimum(result[a], Keypred(a)) > 0 <=> Keypred(a) >= 1
    BY <1>1, <1>4, <1>6 DEF Minimum
  <2>2. QED BY <1>5, <1>7, <2>1
<1>9. KeyHas(p, 1) <=> \/ InAuthorizers(p)
                       \/ \E b \in AssertionsBy(p) :
                              kresult[b] = "done" /\ result[b] > 0
  <2>1. \A b \in AssertionsBy(p) : result[b] >= 1 <=> result[b] > 0
    <3>1. result \in [Id -> Value] /\ Value \in SUBSET Nat
      BY ValueFacts DEF SearchTypeOK
    <3>2. \A b \in AssertionsBy(p) : result[b] \in Nat
      BY <3>1 DEF AssertionsBy
    <3>3. QED BY <3>2
  <2>2. QED BY <2>1 DEF KeyHas
<1>10. InAuthorizers(p) \/ \A b \in AssertionsBy(p) : kresult[b] # "untouched"
  <2>1. LookedAt(frame, kresult)
    <3>1. 1 \in DOMAIN stack
      BY <1>1, MovedOn DEF SearchTypeOK
    <3>2. QED BY <3>1 DEF Frames, frame
  <2>2. 1 < frame.key
    BY <1>1, PlainFrame DEF Finish
  <2>3. QED BY <1>2, <2>1, <2>2 DEF LookedAt
<1>11. QED BY <1>8, <1>9, <1>10

\* What a step may do to an assertion beside ending it.
Stays(n) == kresult'[n] = kresult[n] /\ result'[n] = result[n]
Begins(n) ==
    /\ kresult[n] = "untouched" /\ kresult'[n] # "untouched"
    /\ kresult'[n] = "done" => result'[n] = 0
    /\ asserts[n].auth = POLICY \/ ~ InAuthorizers(asserts[n].auth)

\* What is entered begins, and was no assertion of a key that asks; the
\* others stay as they are.
LEMMA EnteredBegins ==
    ASSUME SearchTypeOK, NEW a \in Id, NEW s \in Seq(Frame), Enter(a, s),
           kresult[a] = "untouched",
           asserts[a].auth = POLICY \/ ~ InAuthorizers(asserts[a].auth)
    PROVE  \A n \in Id : Stays(n) \/ Begins(n)
<1>1. \A n \in Id : n # a => Stays(n)
  BY Entered DEF Stays
<1>2. kresult'[a] # "untouched"
  BY EnterStays
<1>3. kresult'[a] = "done" => result'[a] = 0
  <2>1. CASE asserts[a].cond = 0
    BY <2>1, Entered
  <2>2. CASE asserts[a].cond # 0
    <3>1. kresult'[a] = "in progress"
      BY <2>2, Entered
    <3>2. QED BY <3>1
  <2>3. QED BY <2>1, <2>2
<1>4. Begins(a)
  BY <1>2, <1>3 DEF Begins
<1>5. QED BY <1>1, <1>4

\* An assertion stays as it is, is entered, or comes to its end.
LEMMA NextResults ==
    ASSUME SearchTypeOK, Strength, InOrder, Started, [Next]_vars,
           \A a \in Id : NextPolicy /\ policy' = a => kresult[a] = "untouched"
    PROVE  IF Finish THEN \A n \in Id : n # frame.as => Stays(n)
                     ELSE \A n \in Id : Stays(n) \/ Begins(n)
<1>1. CASE NextPolicy
  <2>1. PICK a \in AssertionsBy(POLICY) : policy' = a /\ Enter(a, <<>>)
    BY <1>1 DEF NextPolicy
  <2>2. a \in Id /\ asserts[a].auth = POLICY
    BY <2>1 DEF AssertionsBy
  <2>3. <<>> \in Seq(Frame) /\ kresult[a] = "untouched"
    BY <1>1, <2>1, <2>2, EmptySeq
  <2>4. \A n \in Id : Stays(n) \/ Begins(n)
    BY <2>1, <2>2, <2>3, EnteredBegins
  <2>5. ~ Finish
    BY <1>1 DEF NextPolicy, Finish, Searching
  <2>6. QED BY <2>4, <2>5
<1>2. CASE Recurse
  <2>1. stack # <<>> /\ stack \in Seq(Frame) /\ ~ InAuthorizers(keys[frame.key])
    BY <1>2, RecurseFacts DEF SearchTypeOK
  <2>2. PICK a \in Id : /\ kresult[a] = "untouched" /\ Enter(a, AtNextAssertion)
                        /\ asserts[a].auth = keys[frame.key]
    BY <1>2, RecurseFacts
  <2>3. AtNextAssertion \in Seq(Frame)
    BY <2>1, MovedOn
  <2>4. \A n \in Id : Stays(n) \/ Begins(n)
    BY <2>1, <2>2, <2>3, EnteredBegins
  <2>5. ~ Finish
    BY <1>2, NotBoth
  <2>6. QED BY <2>4, <2>5
<1>3. CASE Finish
  BY <1>3, Finished DEF Stays
<1>4. CASE NoMorePolicies \/ Judge \/ NextKey \/ SkipAssertion \/ UNCHANGED vars
  <2>1. kresult' = kresult /\ result' = result
    BY <1>4 DEF NoMorePolicies, Judge, NextKey, SkipAssertion, vars, searchVars
  <2>2. QED BY <2>1 DEF Stays
<1>5. QED BY <1>1, <1>2, <1>3, <1>4 DEF Next

-------------------------------------------------------------------------------
(***************************************************************************)
(* No answer without a chain.                                              *)
(***************************************************************************)
\* Assertions are entered for keys that do not ask themselves.
AuthorsDoNotAsk(kr) ==
    \A a \in Id : kr[a] # "untouched" =>
        asserts[a].auth = POLICY \/ ~ InAuthorizers(asserts[a].auth)

\* A frame that waits for another has a licensee that does not ask.
WaitingDoNotAsk(s) ==
    \A i \in DOMAIN s : i > 1 => ~ InAuthorizers(Licensee(s[i].as))

\* What an evaluated assertion knows of those of its licensee.
Knows(n, kr, res) ==
    IF InAuthorizers(Licensee(n)) THEN res[n] > 0
    ELSE \A b \in AssertionsBy(Licensee(n)) :
             /\ kr[b] # "untouched"
             /\ kr[b] = "in progress" => ~ InAuthorizers(Licensee(b))
Known(kr, res) == \A n \in Id : Evaluated(n, kr) => Knows(n, kr, res)

\* An edge of the tree is a licence, and one that may be used, or it leads to
\* assertions B under which no key asks.
EdgesAre(B, k, kr, res) ==
    /\ \A n \in B : /\ Evaluated(n, kr) /\ ~ InAuthorizers(Licensee(n))
                    /\ Range(k[n]) \subseteq B
    /\ \A n \in Id : \A m \in Range(k[n]) :
           /\ Licensee(n) = asserts[m].auth
           /\ m \in B \/ (May(n) /\ (res[m] > 0 => res[n] > 0))
Edges(k, kr, res) == \E B \in SUBSET Id : EdgesAre(B, k, kr, res)

\* The root is a policy, or licensed by an assertion that is not done.
RootIsWanted(r, kr) ==
    r # None => \/ asserts[r].auth = POLICY /\ asserts[r].local
                \/ \E f \in Id : /\ kr[f] = "in progress"
                                 /\ Licensee(f) = asserts[r].auth

\* The best value so far has its chain.
AnswerHasChain ==
    prev > 0 => \E c \in Chains : \A i \in DOMAIN c : kresult[c[i]] = "done"

Grounds ==
    /\ AuthorsDoNotAsk(kresult) /\ WaitingDoNotAsk(stack)
    /\ Known(kresult, result) /\ Edges(kids, kresult, result)
    /\ RootIsWanted(root, kresult) /\ AnswerHasChain
PInv == PlainCredentials => Grounds

\* What is said of the licences depends on the assertions only.
LEMMA SameLicences ==
    ASSUME UNCHANGED asserts
    PROVE  /\ Id' = Id /\ PlainCredentials' = PlainCredentials
           /\ \A a : Licensee(a)' = Licensee(a) /\ May(a)' = May(a)
           /\ \A kr : AuthorsDoNotAsk(kr)' <=> AuthorsDoNotAsk(kr)
           /\ \A s : WaitingDoNotAsk(s)' <=> WaitingDoNotAsk(s)
           /\ \A kr, res : Known(kr, res)' <=> Known(kr, res)
           /\ \A k, kr, res : Edges(k, kr, res)' <=> Edges(k, kr, res)
           /\ \A r, kr : RootIsWanted(r, kr)' <=> RootIsWanted(r, kr)
<1>1. Id' = Id /\ NoneLicensesPOLICY' = NoneLicensesPOLICY
  BY SameAsserts
<1>2. \A p : AssertionsBy(p)' = AssertionsBy(p)
  BY SameAsserts
<1>3. \A a : Licensee(a)' = Licensee(a) /\ May(a)' = May(a) /\ Trusted(a)' = Trusted(a)
  BY DEF Licensee, May, Trusted
<1>4. PlainCredentials' = PlainCredentials
  BY <1>1, <1>3 DEF PlainCredentials
<1>5. \A kr : AuthorsDoNotAsk(kr)' <=> AuthorsDoNotAsk(kr)
  BY <1>1 DEF AuthorsDoNotAsk
<1>6. \A s : WaitingDoNotAsk(s)' <=> WaitingDoNotAsk(s)
  BY <1>3 DEF WaitingDoNotAsk
<1>7. \A n, kr, res : Knows(n, kr, res)' <=> Knows(n, kr, res)
  BY <1>2, <1>3 DEF Knows
<1>8. \A n, kr : Evaluated(n, kr)' <=> Evaluated(n, kr)
  BY DEF Evaluated
<1>9. \A kr, res : Known(kr, res)' <=> Known(kr, res)
  BY <1>1, <1>7, <1>8 DEF Known
<1>10. \A B, k, kr, res : EdgesAre(B, k, kr, res)' <=> EdgesAre(B, k, kr, res)
  BY <1>1, <1>3, <1>8 DEF EdgesAre
<1>11. \A k, kr, res : Edges(k, kr, res)' <=> Edges(k, kr, res)
  BY <1>1, <1>10 DEF Edges
<1>12. \A r, kr : RootIsWanted(r, kr)' <=> RootIsWanted(r, kr)
  BY <1>1, <1>3 DEF RootIsWanted
<1>13. QED BY <1>1, <1>3, <1>4, <1>5, <1>6, <1>9, <1>11, <1>12

\* What a step leaves alone.
Moves == IF Finish THEN \A n \in Id : n # frame.as => Stays(n)
                   ELSE \A n \in Id : Stays(n) \/ Begins(n)

\* A step ends the top frame, or leaves alone what is being worked on or done.
LEMMA MovesFacts ==
    ASSUME SearchTypeOK, InOrder, Started, Moves, NEW n \in Id
    PROVE  /\ kresult[n] = "in progress" => Stays(n) \/ (Finish /\ n = frame.as)
           /\ kresult[n] = "done" => Stays(n)
           /\ kresult[n] # "untouched" => kresult'[n] # "untouched"
           /\ Evaluated(n, kresult) => Stays(n)
<1>1. CASE Finish
  <2>1. kresult[frame.as] = "in progress" /\ kresult'[frame.as] = "done"
    BY <1>1, Finished
  <2>2. n # frame.as => Stays(n)
    BY <1>1 DEF Moves
  <2>3. QED BY <1>1, <2>1, <2>2 DEF Stays, Evaluated
<1>2. CASE ~ Finish
  <2>1. Stays(n) \/ Begins(n)
    BY <1>2 DEF Moves
  <2>2. QED BY <2>1 DEF Stays, Begins, Evaluated
<1>3. QED BY <1>1, <1>2

\* No step enters an assertion of a key that asks.
LEMMA NextAuthors ==
    ASSUME SearchTypeOK, InOrder, Started, Moves, AuthorsDoNotAsk(kresult)
    PROVE  AuthorsDoNotAsk(kresult')
<1> SUFFICES ASSUME NEW n \in Id, kresult'[n] # "untouched"
             PROVE  asserts[n].auth = POLICY \/ ~ InAuthorizers(asserts[n].auth)
  BY DEF AuthorsDoNotAsk
<1>1. CASE Stays(n)
  BY <1>1 DEF Stays, AuthorsDoNotAsk
<1>2. CASE Begins(n)
  BY <1>2 DEF Begins
<1>3. CASE Finish /\ n = frame.as
  <2>1. kresult[n] = "in progress"
    BY <1>3, Finished
  <2>2. kresult[n] # "untouched"
    BY <2>1
  <2>3. QED BY <2>2 DEF AuthorsDoNotAsk
<1>4. QED BY <1>1, <1>2, <1>3 DEF Moves

\* No step makes an assertion wait for a key that asks.
LEMMA NextWaiting ==
    ASSUME SearchTypeOK, Strength, PlainCredentials, [Next]_vars,
           WaitingDoNotAsk(stack)
    PROVE  WaitingDoNotAsk(stack')
<1> DEFINE W == {f \in Frame : ~ InAuthorizers(Licensee(f.as))}
<1>1. \A i \in DOMAIN stack : /\ stack[i].as \in Id
                              /\ i > 1 => stack[i] \in W
  <2>1. \A i \in DOMAIN stack : stack[i] \in Frame /\ stack[i].as \in Id
    BY StackFrames
  <2>2. QED BY <2>1 DEF WaitingDoNotAsk
<1>2. \A a \in Id : asserts[a].cond # 0 => a \in Id
  OBVIOUS
<1>3. Recurse => [as |-> frame.as, key |-> frame.key, num |-> frame.num + 1] \in W
  <2>1. SUFFICES ASSUME Recurse
                 PROVE  [as |-> frame.as, key |-> frame.key,
                         num |-> frame.num + 1] \in W
    OBVIOUS
  <2>2. /\ stack # <<>> /\ frame.key \in DOMAIN keys
        /\ ~ InAuthorizers(keys[frame.key])
    BY <2>1, RecurseFacts
  <2>3. /\ frame.as \in Id /\ frame.key \in Nat \ {0} /\ frame.num \in Nat
        /\ DOMAIN keys = {1} /\ keys[1] = Licensee(frame.as)
    BY <2>2, PlainFrame, PlainFacts DEF keys
  <2>4. ~ InAuthorizers(Licensee(frame.as))
    BY <2>2, <2>3
  <2>5. [as |-> frame.as, key |-> frame.key, num |-> frame.num + 1] \in Frame
    BY <2>3 DEF Frame
  <2>6. QED BY <2>4, <2>5
<1> HIDE DEF W
<1>4. \A i \in DOMAIN stack' : i > 1 => stack'[i] \in W
  BY <1>1, <1>2, <1>3, FramesStep
<1>5. QED BY <1>4 DEF W, WaitingDoNotAsk

\* Each step keeps what is known of the assertions that are done.
LEMMA NextKnown ==
    ASSUME SearchTypeOK, Strength, PlainCredentials, Started, Moves,
           Frames(stack, kresult, result), WaitingDoNotAsk(stack),
           Known(kresult, result),
           \A n \in Id : Evaluated(n, kresult') <=>
               Evaluated(n, kresult) \/ (Finish /\ n = frame.as)
    PROVE  Known(kresult', result')
<1>1. InOrder
  BY DEF Frames, InOrder
<1>2. SUFFICES ASSUME NEW n \in Id, Evaluated(n, kresult')
               PROVE  Knows(n, kresult', result')
  BY DEF Known
<1>3. CASE Evaluated(n, kresult)
  <2>1. Stays(n) /\ Knows(n, kresult, result)
    BY <1>1, <1>3, MovesFacts DEF Known
  <2>2. CASE InAuthorizers(Licensee(n))
    BY <2>1, <2>2 DEF Stays, Knows
  <2>3. CASE ~ InAuthorizers(Licensee(n))
    <3>1. SUFFICES ASSUME NEW b \in AssertionsBy(Licensee(n))
                   PROVE  /\ kresult'[b] # "untouched"
                          /\ kresult'[b] = "in progress" =>
                                 ~ InAuthorizers(Licensee(b))
      BY <2>3 DEF Knows
    <3>2. /\ kresult[b] # "untouched" /\ b \in Id
          /\ kresult[b] = "in progress" => ~ InAuthorizers(Licensee(b))
      BY <2>1, <2>3 DEF Knows, AssertionsBy
    <3>3. kresult'[b] # "untouched"
      BY <1>1, <3>2, MovesFacts
    <3>4. kresult'[b] = "in progress" => kresult[b] = "in progress"
      <4>1. CASE Stays(b)
        BY <4>1 DEF Stays
      <4>2. CASE Begins(b)
        BY <3>2, <4>2 DEF Begins
      <4>3. CASE Finish /\ b = frame.as
        <5>1. kresult'[b] = "done"
          BY <1>1, <4>3, Finished
        <5>2. QED BY <5>1
      <4>4. QED BY <3>2, <4>1, <4>2, <4>3 DEF Moves
    <3>5. QED BY <3>2, <3>3, <3>4
  <2>4. QED BY <2>2, <2>3
<1>4. CASE Finish /\ n = frame.as
  <2>1. CASE InAuthorizers(Licensee(n))
    BY <1>4, <2>1, PlainFinish DEF Knows
  <2>2. CASE ~ InAuthorizers(Licensee(n))
    <3>1. SUFFICES ASSUME NEW b \in AssertionsBy(Licensee(n))
                   PROVE  /\ kresult'[b] # "untouched"
                          /\ kresult'[b] = "in progress" =>
                                 ~ InAuthorizers(Licensee(b))
      BY <2>2 DEF Knows
    <3>2. kresult[b] # "untouched" /\ b \in Id
      BY <1>4, <2>2, PlainFinish DEF AssertionsBy
    <3>3. kresult'[b] # "untouched"
      BY <1>1, <3>2, MovesFacts
    <3>4. ASSUME kresult'[b] = "in progress"
          PROVE  ~ InAuthorizers(Licensee(b))
      <4>1. b # frame.as
        <5>1. kresult'[frame.as] = "done"
          BY <1>1, <1>4, Finished
        <5>2. QED BY <3>4, <5>1
      <4>2. kresult[b] = "in progress"
        BY <1>4, <3>2, <3>4, <4>1 DEF Moves, Stays
      <4>3. PICK i \in DOMAIN stack : stack[i].as = b
        BY <1>1, <3>2, <4>2 DEF InOrder, OnStack
      <4>4. i \in Nat \ {0}
        BY <4>3, StackIds DEF SearchTypeOK, Frame
      <4>5. i # 1
        BY <4>1, <4>3 DEF frame
      <4>6. i > 1
        BY <4>4, <4>5
      <4>7. QED BY <4>3, <4>6 DEF WaitingDoNotAsk
    <3>5. QED BY <3>3, <3>4
  <2>3. QED BY <2>1, <2>2
<1>5. QED BY <1>2, <1>3, <1>4

\* The edges, and what they lead to, are kept by a step that does not change
\* the tree, ...
LEMMA EdgesStay ==
    ASSUME SearchTypeOK, InOrder, Started, Moves, TreeTypeOK,
           Planted(root, kids, kresult), NEW B \in SUBSET Id,
           EdgesAre(B, kids, kresult, result),
           \A n \in Id : Evaluated(n, kresult) => Evaluated(n, kresult')
    PROVE  EdgesAre(B, kids, kresult', result')
<1>1. \A n \in B : /\ Evaluated(n, kresult') /\ ~ InAuthorizers(Licensee(n))
                   /\ Range(kids[n]) \subseteq B
  BY DEF EdgesAre
<1>2. ASSUME NEW n \in Id, NEW m \in Range(kids[n])
      PROVE  /\ Licensee(n) = asserts[m].auth
             /\ m \in B \/ (May(n) /\ (result'[m] > 0 => result'[n] > 0))
  <2>1. m \in Id /\ kids[n] # <<>>
    <3>1. Range(kids[n]) \subseteq Id /\ kids[n] \in Seq(Id)
      BY KidsAreIds
    <3>2. kids[n] # <<>>
      BY <1>2, EmptySeq DEF Range
    <3>3. QED BY <1>2, <3>1, <3>2
  <2>2. Evaluated(n, kresult) /\ Evaluated(m, kresult)
    BY <1>2, <2>1 DEF Planted, Placed
  <2>3. Stays(n) /\ Stays(m)
    BY <2>1, <2>2, MovesFacts
  <2>4. /\ Licensee(n) = asserts[m].auth
        /\ m \in B \/ (May(n) /\ (result[m] > 0 => result[n] > 0))
    BY <1>2 DEF EdgesAre
  <2>5. QED BY <2>3, <2>4 DEF Stays
<1>3. QED BY <1>1, <1>2 DEF EdgesAre

\* ... one that puts a new root above the old one, ...
LEMMA EdgesAdopted ==
    ASSUME SearchTypeOK, PlainCredentials, Started, TreeTypeOK, root \in Id,
           Frames(stack, kresult, result), Finish, NEW a \in Id, a = frame.as,
           IsFather(a, root), Planted(root, kids, kresult),
           NEW B \in SUBSET Id, EdgesAre(B, kids, kresult', result'),
           a \notin B
    PROVE  EdgesAre(B, Adopted(a), kresult', result')
<1>1. \A n \in B : /\ Evaluated(n, kresult') /\ ~ InAuthorizers(Licensee(n))
                   /\ Range(Adopted(a)[n]) \subseteq B
  <2>1. \A n \in B : n \in Id /\ n # a
    OBVIOUS
  <2>2. \A n \in B : Adopted(a)[n] = kids[n]
    BY <2>1, AdoptedFacts
  <2>3. QED BY <2>2 DEF EdgesAre
<1>2. ASSUME NEW n \in Id, NEW m \in Range(Adopted(a)[n])
      PROVE  /\ Licensee(n) = asserts[m].auth
             /\ m \in B \/ (May(n) /\ (result'[m] > 0 => result'[n] > 0))
  <2>1. CASE n # a
    <3>1. Adopted(a)[n] = kids[n]
      BY <2>1, AdoptedFacts
    <3>2. QED BY <1>2, <3>1 DEF EdgesAre
  <2>2. CASE n = a
    <3>1. m = root /\ May(a)
      BY <1>2, <2>2, AdoptedFacts
    <3>2. Licensee(a) = asserts[root].auth
      BY DEF IsFather
    <3>3. InOrder
      BY DEF Frames, InOrder
    <3>4. kresult[root] = "done" /\ root # a
      <4>1. Evaluated(root, kresult)
        BY DEF Planted, Placed
      <4>2. kresult[a] = "in progress"
        BY <3>3, Finished
      <4>3. kresult[root] = "done"
        BY <4>1 DEF Evaluated
      <4>4. QED BY <4>2, <4>3
    <3>5. result'[root] = result[root]
      BY <3>3, <3>4, Finished
    <3>6. root \in AssertionsBy(Licensee(a))
      BY <3>2 DEF AssertionsBy
    <3>7. result[root] > 0 => result'[a] > 0
      BY <3>4, <3>6, PlainFinish
    <3>8. QED BY <2>2, <3>1, <3>2, <3>5, <3>7
  <2>3. QED BY <2>1, <2>2
<1>3. QED BY <1>1, <1>2 DEF EdgesAre

\* ... and one that puts a new leaf under an assertion: it was not done when
\* that one was, and so leads nowhere.
LEMMA EdgesGrown ==
    ASSUME SearchTypeOK, TreeTypeOK, NEW a \in Id, NEW n \in Id,
           NEW B \in SUBSET Id, EdgesAre(B, kids, kresult', result'),
           IsChild(a, n), Evaluated(a, kresult'), kids[a] = <<>>, n # a,
           ~ InAuthorizers(Licensee(a))
    PROVE  EdgesAre(B \cup {a}, Grown(n, a), kresult', result')
<1>1. \A m \in Id : m # n => Grown(n, a)[m] = kids[m]
  BY Appended
<1>2. Range(Grown(n, a)[n]) = Range(kids[n]) \cup {a}
  BY Appended
<1>3. Range(Grown(n, a)[a]) = {}
  <2>1. Grown(n, a)[a] = <<>>
    BY <1>1
  <2>2. QED BY <2>1, EmptySeq DEF Range
<1>4. \A x \in Id : Range(Grown(n, a)[x]) \subseteq Range(kids[x]) \cup {a}
  <2>1. SUFFICES ASSUME NEW x \in Id
                 PROVE  Range(Grown(n, a)[x]) \subseteq Range(kids[x]) \cup {a}
    OBVIOUS
  <2>2. CASE x = n
    BY <1>2, <2>2
  <2>3. CASE x # n
    <3>1. Grown(n, a)[x] = kids[x]
      BY <1>1, <2>3
    <3>2. QED BY <3>1
  <2>4. QED BY <2>2, <2>3
<1>5. ASSUME NEW x \in B \cup {a}
      PROVE  /\ Evaluated(x, kresult') /\ ~ InAuthorizers(Licensee(x))
             /\ Range(Grown(n, a)[x]) \subseteq B \cup {a}
  <2>1. CASE x = a
    BY <1>3, <2>1
  <2>2. CASE x \in B
    BY <1>4, <2>2 DEF EdgesAre
  <2>3. QED BY <2>1, <2>2
<1>6. ASSUME NEW x \in Id, NEW m \in Range(Grown(n, a)[x])
      PROVE  /\ Licensee(x) = asserts[m].auth
             /\ \/ m \in B \cup {a}
                \/ May(x) /\ (result'[m] > 0 => result'[x] > 0)
  <2>1. CASE m \in Range(kids[x])
    BY <2>1 DEF EdgesAre
  <2>2. CASE m \notin Range(kids[x])
    <3>1. x = n /\ m = a
      <4>1. m = a
        BY <1>4, <1>6, <2>2
      <4>2. x # n => Grown(n, a)[x] = kids[x]
        BY <1>1
      <4>3. QED BY <1>6, <2>2, <4>1, <4>2
    <3>2. QED BY <3>1 DEF IsChild
  <2>3. QED BY <2>1, <2>2
<1>7. QED BY <1>5, <1>6 DEF EdgesAre

\* Each step keeps the meaning of the edges of the tree.
LEMMA NextEdges ==
    ASSUME SearchTypeOK, Strength, PlainCredentials, Started, Moves, TreeTypeOK,
           Frames(stack, kresult, result), [Next]_vars,
           Planted(root, kids, kresult), AuthorsDoNotAsk(kresult),
           Known(kresult, result), Edges(kids, kresult, result),
           \A n \in Id : Evaluated(n, kresult') <=>
               Evaluated(n, kresult) \/ (Finish /\ n = frame.as)
    PROVE  Edges(kids', kresult', result')
<1>1. InOrder
  BY DEF Frames, InOrder
<1>2. PICK B \in SUBSET Id : EdgesAre(B, kids, kresult, result)
  BY DEF Edges
<1>3. EdgesAre(B, kids, kresult', result')
  BY <1>1, <1>2, EdgesStay
<1>4. CASE kids' = kids
  BY <1>3, <1>4 DEF Edges
<1>5. CASE Finish
  <2> DEFINE a == frame.as
  <2>1. /\ a \in Id /\ insert_delegation(a) /\ kresult[a] = "in progress"
    BY <1>1, <1>5, Finished
  <2>2. ~ Evaluated(a, kresult) /\ kresult[a] # "untouched"
    BY <2>1 DEF Evaluated
  <2>3. CASE root \in Id /\ IsFather(a, root) /\ kids' = Adopted(a)
    <3>1. a \notin B
      BY <1>2, <2>2 DEF EdgesAre
    <3>2. EdgesAre(B, Adopted(a), kresult', result')
      BY <1>3, <1>5, <2>1, <2>3, <3>1, EdgesAdopted
    <3>3. QED BY <2>3, <3>2 DEF Edges
  <2>4. ASSUME NEW n \in Nodes, IsChild(a, n), kids' = Grown(n, a)
        PROVE  Edges(kids', kresult', result')
    <3>1. n \in Id /\ Evaluated(n, kresult) /\ Knows(n, kresult, result)
      BY <2>4, NodesArePlaced DEF Planted, Known
    <3>2. Licensee(n) = asserts[a].auth
      BY <2>4 DEF IsChild
    <3>3. ~ InAuthorizers(Licensee(n))
      BY <2>1, <2>2, <3>1, <3>2, PlainFacts DEF AuthorsDoNotAsk
    <3>4. ~ InAuthorizers(Licensee(a))
      BY <2>1, <3>1, <3>2, <3>3 DEF Knows, AssertionsBy
    <3>5. kids[a] = <<>>
      BY <2>1, <2>2 DEF Planted, Placed
    <3>6. n # a /\ Evaluated(a, kresult')
      BY <1>5, <2>1, <2>2, <3>1
    <3>7. EdgesAre(B \cup {a}, Grown(n, a), kresult', result')
      BY <1>3, <2>1, <2>4, <3>1, <3>4, <3>5, <3>6, EdgesGrown
    <3>8. QED BY <2>1, <2>4, <3>7 DEF Edges
  <2>5. QED BY <1>4, <2>1, <2>3, <2>4, Inserted
<1>6. QED BY <1>4, <1>5, TreeStays

\* A father of the root becomes the root.
LEMMA RootFathered ==
    ASSUME TreeTypeOK, Tree(root, kids), NEW a \in Id, insert_delegation(a),
           root \in Id, root # None, asserts[a].deleg # "?", IsFather(a, root)
    PROVE  root' = a /\ kids' = Adopted(a)
<1>1. root \in Nodes
  <2>1. root \in Under(root)
    BY DEF Under
  <2>2. QED BY <2>1 DEF Nodes
<1>2. root \in Places(a)
  BY <1>1 DEF Places
<1>3. Places(a) # {}
  BY <1>2
<1>4. PICK n \in Places(a) :
          /\ \A m \in Places(a) : ComesFirst(n, m)
          /\ \/ /\ IsFather(a, n) /\ n = root
                /\ root' = a
                /\ kids' = Adopted(a)
             \/ /\ IsFather(a, n) /\ n # root
                /\ UNCHANGED treeVars
             \/ /\ ~ IsFather(a, n)
                /\ root' = root
                /\ kids' = [kids EXCEPT ![n] = Append(@, a)]
  BY <1>3 DEF insert_delegation
<1>5. n \in Nodes /\ ComesFirst(n, root)
  BY <1>2, <1>4 DEF Places
<1>6. n = root
  BY <1>5, RootComesFirst
<1>7. QED BY <1>4, <1>6

\* What comes to its end is a policy, or licensed by what the search goes
\* back to.
LEMMA EndIsWanted ==
    ASSUME SearchTypeOK, Strength, InOrder, Started, PlainCredentials, Finish,
           NEW a, a = frame.as
    PROVE  \/ asserts[a].auth = POLICY /\ asserts[a].local
           \/ \E f \in Id : /\ kresult'[f] = "in progress"
                            /\ Licensee(f) = asserts[a].auth
<1>1. stack \in Seq(Frame) /\ stack # <<>> /\ pc = "search" /\ a \in Id
  BY Finished DEF Finish, Searching, SearchTypeOK
<1>2. Len(stack) \in Nat \ {0} /\ DOMAIN stack = 1 .. Len(stack)
  BY <1>1, StackFacts
<1>3. CASE Len(stack) = 1
  <2>1. stack[1].as = policy
    BY <1>1, <1>3, StackOfStrength
  <2>2. policy \in AssertionsBy(POLICY) /\ asserts[policy].local
    BY <1>1 DEF Strength
  <2>3. QED BY <2>1, <2>2 DEF AssertionsBy, frame
<1>4. CASE Len(stack) # 1
  <2>1. 2 \in DOMAIN stack /\ 1 \in DOMAIN stack /\ 2 - 1 = 1 /\ 2 > 1
    BY <1>2, <1>4
  <2>2. stack[2 - 1].as \in DependsOn(stack[2].as)
    BY <2>1 DEF InOrder, OnStack
  <2>3. a \in DependsOn(stack[2].as)
    BY <2>1, <2>2 DEF frame
  <2>4. stack[2].as \in Id
    BY <1>1, <2>1, StackIds DEF Frame
  <2>5. asserts[a].auth = Licensee(stack[2].as)
    BY <2>3, <2>4, PlainFacts DEF AssertionsBy
  <2>6. stack[2].as # a
    <3>1. stack[2].as = stack[1].as => 2 = 1
      BY <2>1 DEF InOrder, OnStack
    <3>2. QED BY <3>1 DEF frame
  <2>7. kresult[stack[2].as] = "in progress"
    BY <2>1 DEF InOrder, OnStack
  <2>8. kresult'[stack[2].as] = "in progress"
    BY <2>4, <2>6, <2>7, Finished
  <2>9. QED BY <2>4, <2>5, <2>8
<1>5. QED BY <1>3, <1>4

\* Each step keeps the root wanted by an assertion in progress, or a policy.
LEMMA NextRoot ==
    ASSUME SearchTypeOK, Strength, PlainCredentials, Started, InOrder, Moves,
           TreeTypeOK, Tree(root, kids), [Next]_vars,
           RootIsWanted(root, kresult)
    PROVE  RootIsWanted(root', kresult')
<1>1. CASE ~ Finish
  <2>1. root' = root
    BY <1>1, TreeStays
  <2>2. SUFFICES ASSUME NEW f \in Id, kresult[f] = "in progress"
                 PROVE  kresult'[f] = "in progress"
    BY <2>1 DEF RootIsWanted
  <2>3. Stays(f)
    BY <1>1, <2>2, MovesFacts
  <2>4. QED BY <2>2, <2>3 DEF Stays
<1>2. CASE Finish
  <2> DEFINE a == frame.as
  <2>1. a \in Id /\ insert_delegation(a)
    BY <1>2, Finished
  <2>2. CASE root' = a
    BY <1>2, <2>2, EndIsWanted DEF RootIsWanted
  <2>3. CASE root' # a
    <3>1. root' = root
      BY <2>1, <2>3, Inserted
    <3>2. CASE root = None
      BY <3>1, <3>2 DEF RootIsWanted
    <3>3. CASE asserts[root].auth = POLICY /\ asserts[root].local
      BY <3>1, <3>3 DEF RootIsWanted
    <3>4. ASSUME NEW f \in Id, kresult[f] = "in progress",
                 Licensee(f) = asserts[root].auth, root # None
          PROVE  RootIsWanted(root', kresult')
      <4>1. root \in Id
        BY <3>4 DEF TreeTypeOK
      <4>2. f # a
        <5>1. SUFFICES ASSUME f = a PROVE FALSE
          OBVIOUS
        <5>2. IsFather(a, root) /\ asserts[a].deleg # "?"
          BY <2>1, <3>4, <5>1, PlainFacts DEF IsFather
        <5>3. root' = a
          BY <2>1, <3>4, <4>1, <5>2, RootFathered
        <5>4. QED BY <2>3, <5>3
      <4>3. kresult'[f] = kresult[f]
        BY <1>2, <4>2, Finished
      <4>4. QED BY <3>1, <3>4, <4>3 DEF RootIsWanted
    <3>5. QED BY <3>2, <3>3, <3>4 DEF RootIsWanted
  <2>4. QED BY <2>2, <2>3
<1>3. QED BY <1>1, <1>2

\* A chain to the first of the keys that ask.
IsChain(c, res) ==
    /\ c # <<>>
    /\ asserts[c[1]].auth = POLICY /\ asserts[c[1]].local
    /\ Licensee(c[Len(c)]) = Authorizers[1]
    /\ \A i \in 1 .. Len(c) - 1 :
           May(c[i]) /\ Licensee(c[i]) = asserts[c[i + 1]].auth
    /\ \A i \in DOMAIN c : res[c[i]] > 0

\* The chains, with the results as a parameter.
LEMMA ChainsAre ==
    Chains = {c \in SeqOf(Id, Len(asserts)) : IsChain(c, result)}
BY DEF Chains, IsChain, May

\* The chains after a step that leaves the assertions alone.
LEMMA ChainsAreNext ==
    ASSUME UNCHANGED asserts
    PROVE  Chains' = {c \in SeqOf(Id, Len(asserts)) : IsChain(c, result')}
<1>1. Chains' = {c \in SeqOf(Id', Len(asserts')) : IsChain(c, result)'}
  BY ChainsAre DEF Chains, IsChain, May, Licensee, Id
<1>2. Id' = Id /\ Len(asserts') = Len(asserts)
  BY SameAsserts
<1>3. \A a : Licensee(a)' = Licensee(a) /\ May(a)' = May(a)
  BY SameLicences
<1>4. \A c : IsChain(c, result)' <=> IsChain(c, result')
  BY <1>3 DEF IsChain
<1>5. QED BY <1>1, <1>2, <1>4

\* A chain of assertions that are done is one after each step.
LEMMA ChainStays ==
    ASSUME SearchTypeOK, InOrder, Started, Moves, UNCHANGED asserts,
           NEW c \in Chains, \A i \in DOMAIN c : kresult[c[i]] = "done"
    PROVE  c \in Chains' /\ \A i \in DOMAIN c : kresult'[c[i]] = "done"
<1>1. c \in SeqOf(Id, Len(asserts)) /\ IsChain(c, result)
  BY ChainsAre
<1>2. \A i \in DOMAIN c : c[i] \in Id
  <2>1. PICK m \in 0 .. Len(asserts) : c \in [1 .. m -> Id]
    BY <1>1 DEF SeqOf
  <2>2. QED BY <2>1
<1>3. \A i \in DOMAIN c : Stays(c[i])
  BY <1>2, MovesFacts
<1>4. IsChain(c, result')
  BY <1>1, <1>3 DEF IsChain, Stays
<1>5. QED BY <1>1, <1>3, <1>4, ChainsAreNext DEF Stays

\* All on the way to a leaf that names a key that asks may be delegated, and is
\* worth something.
LEMMA GoodWay ==
    ASSUME SearchTypeOK, NEW B \in SUBSET Id, EdgesAre(B, kids, kresult, result),
           NEW k \in Nat \ {0}, NEW c, NEW n, IsWay(c, k, n),
           InAuthorizers(Licensee(n)), result[n] > 0
    PROVE  /\ \A i \in 1 .. k : result[c[i]] > 0
           /\ \A i \in 1 .. k - 1 :
                  May(c[i]) /\ Licensee(c[i]) = asserts[c[i + 1]].auth
<1>1. /\ c \in [1 .. k -> Id] /\ c[k] = n
      /\ \A i \in 1 .. k - 1 : c[i + 1] \in Range(kids[c[i]])
  BY DEF IsWay
<1> DEFINE S == {i \in 1 .. k : c[i] \in B \/ ~ (result[c[i]] > 0)}
<1>2. ASSUME NEW i \in 1 .. k - 1
      PROVE  /\ i \in 1 .. k /\ i + 1 \in 1 .. k /\ i + 1 > i
             /\ Licensee(c[i]) = asserts[c[i + 1]].auth
             /\ \/ c[i + 1] \in B
                \/ /\ May(c[i])
                   /\ result[c[i + 1]] > 0 => result[c[i]] > 0
             /\ c[i] \in B => c[i + 1] \in B
  <2>1. i \in 1 .. k /\ i + 1 \in 1 .. k /\ i + 1 > i
    OBVIOUS
  <2>2. c[i] \in Id /\ c[i + 1] \in Range(kids[c[i]])
    BY <1>1, <2>1
  <2>3. /\ Licensee(c[i]) = asserts[c[i + 1]].auth
        /\ \/ c[i + 1] \in B
           \/ May(c[i]) /\ (result[c[i + 1]] > 0 => result[c[i]] > 0)
        /\ c[i] \in B => Range(kids[c[i]]) \subseteq B
    BY <2>2 DEF EdgesAre
  <2>4. QED BY <2>1, <2>2, <2>3
<1>3. n \notin B
  BY DEF EdgesAre
<1>4. S = {}
  <2>1. SUFFICES ASSUME S # {} PROVE FALSE
    OBVIOUS
  <2>2. S \in SUBSET Nat /\ \A x \in S : x < k + 1 /\ k + 1 \in Nat
    OBVIOUS
  <2>3. PICK i \in S : \A y \in S : y <= i
    <3> HIDE DEF S
    <3> QED BY <2>1, <2>2, GreatestBelow
  <2>4. i \in 1 .. k /\ (c[i] \in B \/ ~ (result[c[i]] > 0))
    OBVIOUS
  <2>5. i # k
    BY <1>1, <1>3, <2>4
  <2>6. i \in 1 .. k - 1
    BY <2>4, <2>5
  <2>7. i + 1 \notin S
    BY <2>3, <2>6
  <2>8. c[i + 1] \notin B /\ result[c[i + 1]] > 0
    BY <1>2, <2>6, <2>7
  <2>9. QED BY <1>2, <2>4, <2>6, <2>8
<1>5. \A i \in 1 .. k : c[i] \notin B /\ result[c[i]] > 0
  BY <1>4
<1>6. ASSUME NEW i \in 1 .. k - 1
      PROVE  May(c[i]) /\ Licensee(c[i]) = asserts[c[i + 1]].auth
  BY <1>2, <1>5, <1>6
<1>7. QED BY <1>5, <1>6

\* When the tree is judged good, there is a chain of assertions that are done.
LEMMA GroundsForJudge ==
    ASSUME SearchTypeOK, PlainCredentials, InOrder, TreeTypeOK, stack = <<>>,
           Planted(root, kids, kresult), Known(kresult, result),
           Edges(kids, kresult, result), RootIsWanted(root, kresult),
           validate_delgation
    PROVE  \E c \in Chains : \A i \in DOMAIN c : kresult[c[i]] = "done"
<1>1. PICK n \in Nodes : kids[n] = <<>> /\ Licensee(n) = Authorizers[1]
  BY DEF validate_delgation
<1>2. n \in Id /\ root \in Id /\ root # None /\ n \in Under(root)
  <2>1. root # None /\ n \in Under(root)
    BY <1>1 DEF Nodes
  <2>2. QED BY <1>1, <2>1, NodesArePlaced
<1>3. PICK k \in 1 .. Len(asserts) : \E c : IsWay(c, k, n)
  BY <1>2, ShortWay
<1>4. PICK c : IsWay(c, k, n)
  BY <1>3
<1>5. Len(asserts) \in Nat
  BY AssertionFields, LenProperties DEF SearchTypeOK
<1>6. k \in Nat \ {0} /\ k \in 0 .. Len(asserts)
  BY <1>3, <1>5
<1>7. /\ c \in [1 .. k -> Id] /\ c[1] = root /\ c[k] = n
      /\ \A i \in 1 .. k - 1 : c[i + 1] \in Range(kids[c[i]])
  BY <1>4 DEF IsWay
<1>8. \A i \in 1 .. k : Evaluated(c[i], kresult)
  <2>1. SUFFICES ASSUME NEW i \in 1 .. k PROVE Evaluated(c[i], kresult)
    OBVIOUS
  <2>2. CASE i = 1
    BY <1>2, <1>7, <2>2 DEF Planted, Placed
  <2>3. CASE i # 1
    <3>1. i - 1 \in 1 .. k - 1 /\ (i - 1) + 1 = i /\ i - 1 \in 1 .. k
      BY <2>3, <1>6
    <3>2. c[i] \in Range(kids[c[i - 1]]) /\ c[i] \in Id /\ c[i - 1] \in Id
      BY <1>7, <3>1
    <3>3. QED BY <3>2 DEF Planted, Placed
  <2>4. QED BY <2>2, <2>3
<1>9. InAuthorizers(Licensee(n))
  <2>1. 1 \in DOMAIN Authorizers
    BY QueryAssumption, LenProperties, EmptySeq
  <2>2. QED BY <1>1, <2>1 DEF InAuthorizers
<1>10. result[n] > 0
  <2>1. Evaluated(n, kresult)
    BY <1>6, <1>7, <1>8
  <2>2. QED BY <1>2, <1>9, <2>1 DEF Known, Knows
<1>11. PICK B \in SUBSET Id : EdgesAre(B, kids, kresult, result)
  BY DEF Edges
<1>12. /\ \A i \in 1 .. k : result[c[i]] > 0
       /\ \A i \in 1 .. k - 1 :
              May(c[i]) /\ Licensee(c[i]) = asserts[c[i + 1]].auth
  BY <1>4, <1>6, <1>9, <1>10, <1>11, GoodWay
<1>13. asserts[root].auth = POLICY /\ asserts[root].local
  <2>1. \A f \in Id : kresult[f] # "in progress"
    <3>1. DOMAIN stack = {}
      BY EmptySeq
    <3>2. QED BY <3>1 DEF InOrder, OnStack
  <2>2. QED BY <1>2, <2>1 DEF RootIsWanted
<1>14. c \in Seq(Id) /\ Len(c) = k /\ DOMAIN c = 1 .. k /\ c # <<>>
  <2>1. c \in Seq(Id) /\ DOMAIN c = 1 .. k
    BY <1>6, <1>7, SeqDef
  <2>2. Len(c) = k
    BY <1>6, <2>1, LenProperties
  <2>3. QED BY <1>6, <2>1, <2>2, EmptySeq
<1>15. c \in SeqOf(Id, Len(asserts))
  BY <1>6, <1>7 DEF SeqOf
<1>16. IsChain(c, result)
  BY <1>1, <1>7, <1>12, <1>13, <1>14 DEF IsChain
<1>17. c \in Chains
  BY <1>15, <1>16, ChainsAre
<1>18. \A i \in DOMAIN c : kresult[c[i]] = "done"
  BY <1>8, <1>14 DEF Evaluated
<1>19. QED BY <1>17, <1>18

\* Each step that answers with more than the minimum has a chain for it.
LEMMA NextAnswer ==
    ASSUME SearchTypeOK, PlainCredentials, InOrder, Started, TreeTypeOK,
           Planted(root, kids, kresult), Moves, [Next]_vars, Grounds
    PROVE  AnswerHasChain'
<1>1. /\ Known(kresult, result) /\ Edges(kids, kresult, result)
      /\ RootIsWanted(root, kresult) /\ AnswerHasChain
  BY DEF Grounds
<1>2. UNCHANGED asserts
  BY AssertsStay
<1>3. ASSUME prev' > 0
      PROVE  \E c \in Chains : \A i \in DOMAIN c : kresult[c[i]] = "done"
  <2>1. CASE prev > 0
    BY <1>1, <2>1 DEF AnswerHasChain
  <2>2. CASE ~ (prev > 0)
    <3>1. prev' # prev
      BY <1>3, <2>2
    <3>2. Judge
      BY <3>1 DEF Next, NextPolicy, NoMorePolicies, NextKey, SkipAssertion,
                  Recurse, Finish, vars
    <3>3. stack = <<>> /\ validate_delgation
      BY <1>3, <3>2 DEF Judge
    <3>4. QED BY <1>1, <3>3, GroundsForJudge
  <2>3. QED BY <2>1, <2>2
<1>4. SUFFICES ASSUME prev' > 0
               PROVE  \E c \in Chains' : \A i \in DOMAIN c : kresult'[c[i]] = "done"
  BY DEF AnswerHasChain
<1>5. PICK c \in Chains : \A i \in DOMAIN c : kresult[c[i]] = "done"
  BY <1>3, <1>4
<1>6. QED BY <1>2, <1>5, ChainStays

-------------------------------------------------------------------------------
\* The first state has the grounds: nothing is done or in the tree.
LEMMA InitPInv == Init => PInv
<1> SUFFICES ASSUME Init, PlainCredentials PROVE Grounds
  BY DEF PInv
<1>1. /\ stack = <<>> /\ \A a \in Id : kresult[a] = "untouched"
      /\ kids = [a \in Id |-> <<>>] /\ root = None /\ prev = 0
  BY DEF Init
<1>2. DOMAIN stack = {} /\ \A a \in Id : Range(kids[a]) = {}
  BY <1>1, EmptySeq DEF Range
<1>3. AuthorsDoNotAsk(kresult) /\ WaitingDoNotAsk(stack)
  BY <1>1, <1>2 DEF AuthorsDoNotAsk, WaitingDoNotAsk
<1>4. Known(kresult, result)
  BY <1>1 DEF Known, Evaluated
<1>5. EdgesAre({}, kids, kresult, result)
  BY <1>2 DEF EdgesAre
<1>6. RootIsWanted(root, kresult) /\ AnswerHasChain
  BY <1>1 DEF RootIsWanted, AnswerHasChain
<1>7. QED BY <1>3, <1>4, <1>5, <1>6 DEF Grounds, Edges

\* What the theorems here need to know of a step.
LEMMA NextMoves ==
    ASSUME SearchTypeOK, Strength, DInv, NoneLicensesPOLICY, [Next]_vars
    PROVE  /\ Frames(stack, kresult, result) /\ InOrder /\ Started /\ TreeTypeOK
           /\ Planted(root, kids, kresult) /\ Moves
           /\ \A n \in Id : Evaluated(n, kresult') <=>
                  Evaluated(n, kresult) \/ (Finish /\ n = frame.as)
<1>1. /\ InOrder /\ Started /\ TreeTypeOK /\ Frames(stack, kresult, result)
      /\ PoliciesInTurn /\ Planted(root, kids, kresult)
  BY DEF DInv, TInv
<1>2. Recurse => keys[frame.key] # POLICY
  BY NotToPOLICY
<1>3. \A a \in Id : NextPolicy /\ policy' = a => kresult[a] = "untouched"
  BY <1>1, <1>2, NextFrames
<1>4. Moves
  BY <1>1, <1>3, NextResults DEF Moves
<1>5. QED BY <1>1, <1>3, <1>4, NextEvaluated

\* Each step keeps the grounds of an answer.
LEMMA NextPInv ==
    SearchTypeOK /\ Strength /\ DInv /\ PInv /\ [Next]_vars => PInv'
<1> SUFFICES ASSUME SearchTypeOK, Strength, DInv, PInv, [Next]_vars PROVE PInv'
  OBVIOUS
<1>1. UNCHANGED asserts
  BY AssertsStay
<1>2. SUFFICES ASSUME PlainCredentials PROVE Grounds'
  BY <1>1, SameLicences DEF PInv
<1>3. Grounds /\ NoneLicensesPOLICY
  BY <1>2 DEF PInv, PlainCredentials
<1>4. /\ Frames(stack, kresult, result) /\ InOrder /\ Started /\ TreeTypeOK
      /\ Planted(root, kids, kresult) /\ Moves
      /\ \A n \in Id : Evaluated(n, kresult') <=>
             Evaluated(n, kresult) \/ (Finish /\ n = frame.as)
  BY <1>3, NextMoves
<1>5. /\ AuthorsDoNotAsk(kresult) /\ WaitingDoNotAsk(stack)
      /\ Known(kresult, result) /\ Edges(kids, kresult, result)
      /\ RootIsWanted(root, kresult)
  BY <1>3 DEF Grounds
<1>6. AuthorsDoNotAsk(kresult') /\ WaitingDoNotAsk(stack')
  BY <1>2, <1>4, <1>5, NextAuthors, NextWaiting
<1>7. Known(kresult', result')
  BY <1>2, <1>4, <1>5, NextKnown
<1>8. Edges(kids', kresult', result')
  BY <1>2, <1>4, <1>5, NextEdges
<1>9. RootIsWanted(root', kresult')
  BY <1>2, <1>4, <1>5, NextRoot DEF Planted
<1>10. AnswerHasChain'
  BY <1>2, <1>3, <1>4, NextAnswer
<1>11. QED
  BY <1>1, <1>6, <1>7, <1>8, <1>9, <1>10, SameLicences DEF Grounds

-------------------------------------------------------------------------------
(***************************************************************************)
(* No chain without an answer, with one assertion for each key: the search *)
(* goes down one way and comes back on it, and the tree is this way.       *)
(***************************************************************************)
UntouchedIsNothing(kr, res) == \A a \in Id : kr[a] = "untouched" => res[a] = 0

\* The search begins with the policy.
PolicyComesFirst(p, kr) ==
    IF p = None THEN \A a \in Id : kr[a] = "untouched"
                ELSE p \in AssertionsBy(POLICY)

\* A value comes from a key that asks or from an assertion that has one.
Grounded(kr, res) ==
    \A a \in Id : kr[a] = "done" /\ res[a] > 0 /\ ~ InAuthorizers(Licensee(a)) =>
        \E b \in AssertionsBy(Licensee(a)) : kr[b] = "done" /\ res[b] > 0

\* On the way down nothing is done.
NothingDone(s, kr) ==
    /\ s # <<>>
    /\ (s[1].key = 1 /\ s[1].num = 0) \/ InAuthorizers(Licensee(s[1].as))
    => \A a \in Id : kr[a] # "done"
HaveFound(s) == \A i \in DOMAIN s : i > 1 => s[i].num > 0

\* G are the assertions that lead to the first of the keys that ask.
LeadsOn(G, a, kr, res) ==
    /\ kr[a] = "done" /\ res[a] > 0
    /\ \/ Licensee(a) = Authorizers[1]
       \/ May(a) /\ \E b \in G : asserts[b].auth = Licensee(a)
Leaders(G, kr, res) ==
    /\ \A a \in G : kr[a] = "done" /\ res[a] > 0
    /\ \A a \in Id : LeadsOn(G, a, kr, res) => a \in G

\* What the search has just come back from, if it has.
Behind(s, q, p, b) ==
    IF s = <<>> THEN q = "search" /\ b = p
    ELSE ~ InAuthorizers(Licensee(s[1].as)) /\ asserts[b].auth = Licensee(s[1].as)

\* If that leads on, the tree shows it; and so does the answer.
Shown(G) ==
    /\ \A b \in G : Behind(stack, pc, policy, b) => root = b /\ validate_delgation
    /\ pc # "search" /\ policy \in G => prev > 0

OneWay ==
    /\ UntouchedIsNothing(kresult, result) /\ PolicyComesFirst(policy, kresult)
    /\ Grounded(kresult, result) /\ NothingDone(stack, kresult)
    /\ HaveFound(stack)
    /\ \E G \in SUBSET Id : Leaders(G, kresult, result) /\ Shown(G)
QInv == PlainCredentials /\ OneEach => OneWay

\* What is said of the leaders depends on the assertions only.
LEMMA SameLeaders ==
    ASSUME UNCHANGED asserts
    PROVE  /\ OneEach' = OneEach
           /\ \A kr, res : UntouchedIsNothing(kr, res)' <=> UntouchedIsNothing(kr, res)
           /\ \A p, kr : PolicyComesFirst(p, kr)' <=> PolicyComesFirst(p, kr)
           /\ \A kr, res : Grounded(kr, res)' <=> Grounded(kr, res)
           /\ \A s, kr : NothingDone(s, kr)' <=> NothingDone(s, kr)
           /\ \A G, kr, res : Leaders(G, kr, res)' <=> Leaders(G, kr, res)
           /\ \A s, q, p, b : Behind(s, q, p, b)' <=> Behind(s, q, p, b)
<1>1. Id' = Id /\ \A p : AssertionsBy(p)' = AssertionsBy(p)
  BY SameAsserts
<1>2. \A a : Licensee(a)' = Licensee(a) /\ May(a)' = May(a)
  BY SameLicences
<1>3. OneEach' = OneEach
  BY <1>1 DEF OneEach
<1>4. \A kr, res : UntouchedIsNothing(kr, res)' <=> UntouchedIsNothing(kr, res)
  BY <1>1 DEF UntouchedIsNothing
<1>5. \A p, kr : PolicyComesFirst(p, kr)' <=> PolicyComesFirst(p, kr)
  BY <1>1 DEF PolicyComesFirst
<1>6. \A kr, res : Grounded(kr, res)' <=> Grounded(kr, res)
  BY <1>1, <1>2 DEF Grounded
<1>7. \A s, kr : NothingDone(s, kr)' <=> NothingDone(s, kr)
  BY <1>1, <1>2 DEF NothingDone
<1>8. \A G, kr, res : Leaders(G, kr, res)' <=> Leaders(G, kr, res)
  BY <1>1, <1>2 DEF Leaders, LeadsOn
<1>9. \A s, q, p, b : Behind(s, q, p, b)' <=> Behind(s, q, p, b)
  BY <1>2 DEF Behind
<1>10. QED BY <1>3, <1>4, <1>5, <1>6, <1>7, <1>8, <1>9

\* What the search has not come to keeps the value it started with.
LEMMA NextUntouched ==
    ASSUME SearchTypeOK, InOrder, Started, Moves,
           UntouchedIsNothing(kresult, result)
    PROVE  UntouchedIsNothing(kresult', result')
<1> SUFFICES ASSUME NEW n \in Id, kresult'[n] = "untouched"
             PROVE  result'[n] = 0
  BY DEF UntouchedIsNothing
<1>1. ~ Begins(n)
  BY DEF Begins
<1>2. ~ (Finish /\ n = frame.as)
  <2>1. SUFFICES ASSUME Finish, n = frame.as PROVE FALSE
    OBVIOUS
  <2>2. kresult'[n] = "done"
    BY <2>1, Finished
  <2>3. QED BY <2>2
<1>3. Stays(n)
  BY <1>1, <1>2 DEF Moves
<1>4. QED BY <1>3 DEF Stays, UntouchedIsNothing

\* Nothing is entered before the first policy, whatever the step.
LEMMA NextPolicyFirst ==
    ASSUME SearchTypeOK, Strength, [Next]_vars,
           PolicyComesFirst(policy, kresult)
    PROVE  PolicyComesFirst(policy', kresult')
<1>1. CASE NextPolicy
  <2>1. policy' \in AssertionsBy(POLICY)
    BY <1>1 DEF NextPolicy
  <2>2. policy' # None
    <3>1. policy' \in Nat \ {0}
      BY <2>1, AssertionFields DEF SearchTypeOK, AssertionsBy
    <3>2. QED BY <3>1 DEF None
  <2>3. QED BY <2>1, <2>2 DEF PolicyComesFirst
<1>2. CASE ~ NextPolicy
  <2>1. policy' = policy
    BY <1>2 DEF Next, NoMorePolicies, Judge, NextKey, SkipAssertion, Recurse,
                Finish, vars
  <2>2. CASE policy = None
    <3>1. pc # "search"
      <4>1. None \notin AssertionsBy(POLICY)
        BY AssertionFields DEF SearchTypeOK, AssertionsBy, None
      <4>2. QED BY <2>2, <4>1 DEF Strength
    <3>2. kresult' = kresult
      BY <1>2, <3>1 DEF Next, NoMorePolicies, Judge, NextKey, SkipAssertion,
                Recurse, Finish, AtAnAssertion, AtAKey, Searching, vars, searchVars
    <3>3. QED BY <2>1, <3>2
  <2>3. CASE policy # None
    BY <2>1, <2>3 DEF PolicyComesFirst
  <2>4. QED BY <2>2, <2>3
<1>3. QED BY <1>1, <1>2

\* Each step keeps the values grounded: Finish gives one that it found.
LEMMA NextGrounded ==
    ASSUME SearchTypeOK, PlainCredentials, Started, Moves,
           Frames(stack, kresult, result), Grounded(kresult, result)
    PROVE  Grounded(kresult', result')
<1>1. InOrder
  BY DEF Frames, InOrder
<1>2. SUFFICES ASSUME NEW n \in Id, kresult'[n] = "done", result'[n] > 0,
                      ~ InAuthorizers(Licensee(n))
               PROVE  \E b \in AssertionsBy(Licensee(n)) :
                          kresult'[b] = "done" /\ result'[b] > 0
  BY DEF Grounded
<1>3. \E b \in AssertionsBy(Licensee(n)) : kresult[b] = "done" /\ result[b] > 0
  <2>1. CASE Stays(n)
    BY <1>2, <2>1 DEF Stays, Grounded
  <2>2. CASE Begins(n)
    <3>1. result'[n] = 0
      BY <1>2, <2>2 DEF Begins
    <3>2. QED BY <1>2, <3>1
  <2>3. CASE Finish /\ n = frame.as
    BY <1>2, <2>3, PlainFinish
  <2>4. QED BY <2>1, <2>2, <2>3 DEF Moves
<1>4. PICK b \in AssertionsBy(Licensee(n)) : kresult[b] = "done" /\ result[b] > 0
  BY <1>3
<1>5. b \in Id
  BY DEF AssertionsBy
<1>6. Stays(b)
  BY <1>1, <1>4, <1>5, MovesFacts
<1>7. QED BY <1>4, <1>6 DEF Stays

\* Where no key has two assertions, the first one found is the only one, ...
LEMMA FirstFound ==
    ASSUME SearchTypeOK, OneEach, NEW p, NEW n, NEW b \in Find(p, n)
    PROVE  n = 0
<1>1. b \in Id /\ asserts[b].auth = p
  BY DEF Find, AssertionsBy
<1>2. {c \in AssertionsBy(p) : c < b} \subseteq {c \in {b} : c < b}
  BY <1>1 DEF AssertionsBy, OneEach
<1>3. b \in Nat => {c \in AssertionsBy(p) : c < b} = {}
  BY <1>2
<1>4. b \in Nat
  BY <1>1, AssertionFields DEF SearchTypeOK
<1>5. Cardinality({}) = 0
  BY FS_EmptySet
<1>6. Cardinality({c \in AssertionsBy(p) : c < b}) = n
  BY DEF Find
<1>7. QED BY <1>3, <1>4, <1>5, <1>6

\* ... and there is one policy.
LEMMA FirstPolicy ==
    ASSUME SearchTypeOK, OneEach, NextPolicy, PolicyComesFirst(policy, kresult)
    PROVE  /\ \A a \in Id : kresult[a] = "untouched"
           /\ \E p \in AssertionsBy(POLICY) : policy' = p /\ Enter(p, <<>>)
<1>1. PICK p \in AssertionsBy(POLICY) : p > policy /\ policy' = p /\ Enter(p, <<>>)
  BY DEF NextPolicy
<1>2. policy = None
  <2>1. SUFFICES ASSUME policy # None PROVE FALSE
    OBVIOUS
  <2>2. policy \in AssertionsBy(POLICY)
    BY <2>1 DEF PolicyComesFirst
  <2>3. p = policy /\ p \in Id
    BY <2>2 DEF OneEach, AssertionsBy
  <2>4. p \in Nat
    BY <2>3, AssertionFields DEF SearchTypeOK
  <2>5. QED BY <1>1, <2>3, <2>4
<1>3. QED BY <1>1, <1>2 DEF PolicyComesFirst

\* The search goes down only while nothing is done.
LEMMA RecurseFirst ==
    ASSUME SearchTypeOK, PlainCredentials, OneEach, Recurse,
           NothingDone(stack, kresult)
    PROVE  /\ stack # <<>> /\ pc = "search" /\ \A a \in Id : kresult[a] # "done"
           /\ ~ InAuthorizers(Licensee(frame.as))
           /\ \E a \in AssertionsBy(Licensee(frame.as)) :
                  kresult[a] = "untouched" /\ Enter(a, AtNextAssertion)
<1>1. /\ stack # <<>> /\ pc = "search" /\ frame.key \in DOMAIN keys
      /\ ~ InAuthorizers(keys[frame.key])
  BY RecurseFacts
<1>2. frame.as \in Id /\ DOMAIN keys = {1} /\ keys[1] = Licensee(frame.as)
  BY <1>1, PlainFrame, PlainFacts DEF keys
<1>3. frame.key = 1 /\ keys[frame.key] = Licensee(frame.as)
  BY <1>1, <1>2
<1>4. PICK a \in found : kresult[a] = "untouched" /\ Enter(a, AtNextAssertion)
  BY RecurseFacts
<1>5. a \in AssertionsBy(Licensee(frame.as))
  BY <1>3, <1>4 DEF found, Find
<1>6. frame.num = 0
  BY <1>4, FirstFound DEF found
<1>7. \A b \in Id : kresult[b] # "done"
  BY <1>1, <1>3, <1>6 DEF NothingDone, frame
<1>8. QED BY <1>1, <1>3, <1>4, <1>5, <1>7

\* What a step makes of the stack.
LEMMA TailFacts ==
    ASSUME SearchTypeOK, Finish, stack' # <<>>
    PROVE  2 \in DOMAIN stack /\ stack'[1] = stack[2]
<1>1. stack \in Seq(Frame) /\ stack # <<>> /\ stack' = Tail(stack)
  BY DEF SearchTypeOK, Finish, Searching
<1>2. /\ DOMAIN stack = 1 .. Len(stack) /\ Tail(stack) \in Seq(Frame)
      /\ DOMAIN Tail(stack) = 1 .. Len(stack) - 1 /\ Len(stack) \in Nat
      /\ Len(Tail(stack)) = Len(stack) - 1
      /\ \A i \in DOMAIN Tail(stack) : Tail(stack)[i] = stack[i + 1]
  BY <1>1, StackFacts
<1>3. Len(Tail(stack)) # 0
  BY <1>1, <1>2, EmptySeq
<1>4. 1 \in DOMAIN Tail(stack) /\ 2 \in DOMAIN stack /\ 1 + 1 = 2
  BY <1>2, <1>3
<1>5. QED BY <1>1, <1>2, <1>4

\* Each step keeps that nothing is done while the search is on its way down.
LEMMA NextDown ==
    ASSUME SearchTypeOK, Strength, PlainCredentials, OneEach, [Next]_vars,
           PolicyComesFirst(policy, kresult), NothingDone(stack, kresult),
           HaveFound(stack), WaitingDoNotAsk(stack)
    PROVE  NothingDone(stack', kresult')
<1>1. ASSUME NEW a \in Id, NEW s \in Seq(Frame), Enter(a, s),
             asserts[a].cond # 0, \A b \in Id : kresult[b] # "done"
      PROVE  NothingDone(stack', kresult')
  <2>1. kresult'[a] = "in progress"
    BY <1>1, Entered
  <2>2. \A b \in Id : b # a => kresult'[b] = kresult[b]
    BY <1>1, Entered
  <2>3. \A b \in Id : kresult'[b] # "done"
    BY <1>1, <2>1, <2>2
  <2>4. QED BY <2>3 DEF NothingDone
<1>2. CASE NextPolicy
  <2>1. PICK p \in AssertionsBy(POLICY) : Enter(p, <<>>)
    BY <1>2, FirstPolicy
  <2>2. p \in Id /\ <<>> \in Seq(Frame) /\ \A b \in Id : kresult[b] # "done"
    BY <1>2, EmptySeq, FirstPolicy DEF AssertionsBy
  <2>3. CASE asserts[p].cond = 0
    <3>1. stack' = <<>>
      BY <2>1, <2>2, <2>3, Entered
    <3>2. QED BY <3>1 DEF NothingDone
  <2>4. QED BY <1>1, <2>1, <2>2, <2>3
<1>3. CASE Recurse
  <2>1. PICK b \in AssertionsBy(Licensee(frame.as)) : Enter(b, AtNextAssertion)
    BY <1>3, RecurseFirst
  <2>2. /\ stack # <<>> /\ b \in Id /\ ~ InAuthorizers(Licensee(frame.as))
        /\ \A a \in Id : kresult[a] # "done"
    BY <1>3, RecurseFirst DEF AssertionsBy
  <2>3. /\ AtNextAssertion \in Seq(Frame) /\ frame.num \in Nat
        /\ AtNextAssertion[1] =
               [as |-> frame.as, key |-> frame.key, num |-> frame.num + 1]
    BY <2>2, MovedOn, PlainFrame DEF SearchTypeOK
  <2>4. CASE asserts[b].cond = 0
    <3>1. stack' = AtNextAssertion
      BY <2>1, <2>2, <2>3, <2>4, Entered
    <3>2. stack'[1].num # 0 /\ stack'[1].as = frame.as
      BY <2>3, <3>1
    <3>3. QED BY <2>2, <3>2 DEF NothingDone
  <2>5. QED BY <1>1, <2>1, <2>2, <2>3, <2>4
<1>4. CASE NextKey
  <2>1. stack # <<>> /\ stack' = AtNextKey /\ kresult' = kresult
    BY <1>4 DEF NextKey, AtAKey, Searching
  <2>2. AtNextKey[1] = [as |-> frame.as, key |-> frame.key + 1, num |-> 0]
    BY <2>1, MovedOn DEF SearchTypeOK
  <2>3. frame.key + 1 # 1 /\ frame.as = stack[1].as
    BY <2>1, PlainFrame DEF frame
  <2>4. stack'[1].key # 1 /\ stack'[1].as = stack[1].as
    BY <2>1, <2>2, <2>3
  <2>5. QED BY <2>1, <2>4 DEF NothingDone
<1>5. CASE SkipAssertion
  <2>1. /\ stack # <<>> /\ stack' = AtNextAssertion /\ frame.key <= Len(keys)
        /\ ~ InAuthorizers(keys[frame.key])
    BY <1>5 DEF SkipAssertion, AtAnAssertion, AtAKey, Searching
  <2>2. /\ AtNextAssertion[1] =
               [as |-> frame.as, key |-> frame.key, num |-> frame.num + 1]
        /\ frame.num \in Nat
        /\ keys[frame.key] = Licensee(frame.as)
    BY <2>1, MovedOn, PlainFrame DEF SearchTypeOK
  <2>3. stack'[1].num # 0 /\ ~ InAuthorizers(Licensee(stack'[1].as))
    BY <2>1, <2>2
  <2>4. QED BY <2>3 DEF NothingDone
<1>6. CASE Finish
  <2>1. CASE stack' = <<>>
    BY <2>1 DEF NothingDone
  <2>2. CASE stack' # <<>>
    <3>1. 2 \in DOMAIN stack /\ stack'[1] = stack[2] /\ 2 > 1
      BY <1>6, <2>2, TailFacts
    <3>2. stack[2].num > 0 /\ ~ InAuthorizers(Licensee(stack[2].as))
      BY <3>1 DEF HaveFound, WaitingDoNotAsk
    <3>3. stack'[1].num # 0 /\ ~ InAuthorizers(Licensee(stack'[1].as))
      BY <3>1, <3>2
    <3>4. QED BY <3>3 DEF NothingDone
  <2>3. QED BY <2>1, <2>2
<1>7. CASE NoMorePolicies \/ Judge \/ UNCHANGED vars
  BY <1>7 DEF NoMorePolicies, Judge, vars, searchVars
<1>8. QED BY <1>2, <1>3, <1>4, <1>5, <1>6, <1>7 DEF Next

\* A frame waits only for an assertion it has found, after each step too.
LEMMA NextHaveFound ==
    ASSUME SearchTypeOK, Strength, PlainCredentials, [Next]_vars,
           HaveFound(stack)
    PROVE  HaveFound(stack')
<1> DEFINE W == {f \in Frame : f.num > 0}
<1>1. \A i \in DOMAIN stack : stack[i] \in Frame /\ stack[i].as \in Id
  BY StackFrames
<1>4. \A i \in DOMAIN stack : stack[i].as \in Id /\ (i > 1 => stack[i] \in W)
  BY <1>1 DEF HaveFound
<1>5. Recurse => [as |-> frame.as, key |-> frame.key, num |-> frame.num + 1] \in W
  <2>1. SUFFICES ASSUME Recurse
                 PROVE  [as |-> frame.as, key |-> frame.key,
                         num |-> frame.num + 1] \in W
    OBVIOUS
  <2>2. frame.as \in Id /\ frame.key \in Nat \ {0} /\ frame.num \in Nat
    BY <2>1, RecurseFacts, PlainFrame
  <2>3. [as |-> frame.as, key |-> frame.key, num |-> frame.num + 1] \in Frame
    BY <2>2 DEF Frame
  <2>4. QED BY <2>2, <2>3
<1> HIDE DEF W
<1>6. \A i \in DOMAIN stack' : i > 1 => stack'[i] \in W
  BY <1>4, <1>5, FramesStep
<1>7. QED BY <1>6 DEF W, HaveFound

\* The leaders stay leaders while nothing comes to its end.
LEMMA LeadersStay ==
    ASSUME SearchTypeOK, InOrder, Started, Moves, ~ Finish,
           NEW G \in SUBSET Id, Leaders(G, kresult, result)
    PROVE  Leaders(G, kresult', result')
<1>1. ASSUME NEW a \in G
      PROVE  kresult'[a] = "done" /\ result'[a] > 0
  <2>1. kresult[a] = "done" /\ result[a] > 0 /\ a \in Id
    BY DEF Leaders
  <2>2. Stays(a)
    BY <2>1, MovesFacts
  <2>3. QED BY <2>1, <2>2 DEF Stays
<1>2. ASSUME NEW a \in Id, LeadsOn(G, a, kresult', result')
      PROVE  a \in G
  <2>1. ~ Begins(a)
    <3>1. SUFFICES ASSUME Begins(a) PROVE FALSE
      OBVIOUS
    <3>2. kresult'[a] = "done" /\ result'[a] > 0
      BY <1>2 DEF LeadsOn
    <3>3. result'[a] = 0
      BY <3>1, <3>2 DEF Begins
    <3>4. QED BY <3>2, <3>3
  <2>2. Stays(a)
    BY <2>1 DEF Moves
  <2>3. LeadsOn(G, a, kresult, result)
    BY <1>2, <2>2 DEF Stays, LeadsOn
  <2>4. QED BY <2>3 DEF Leaders
<1>3. QED BY <1>1, <1>2 DEF Leaders

\* There are no leaders while nothing is done.
LEMMA NoLeaders ==
    ASSUME NEW G \in SUBSET Id, Leaders(G, kresult, result),
           \A a \in Id : kresult[a] # "done"
    PROVE  G = {}
BY DEF Leaders

\* The verdict depends on the assertions and the tree only.
LEMMA SameTree ==
    ASSUME UNCHANGED <<asserts, root, kids>>
    PROVE  validate_delgation' <=> validate_delgation
<1>1. Id' = Id /\ \A a : Licensee(a)' = Licensee(a)
  BY SameAsserts, SameLicences
<1>2. \A n : Under(n)' = Under(n)
  BY <1>1 DEF Under
<1>3. Nodes' = Nodes
  BY <1>2 DEF Nodes
<1>4. QED BY <1>1, <1>3 DEF validate_delgation

\* The tree shows the leaders while nothing comes to its end.
LEMMA ShownStays ==
    ASSUME SearchTypeOK, Strength, PlainCredentials, OneEach, [Next]_vars,
           ~ Finish, PolicyComesFirst(policy, kresult),
           NothingDone(stack, kresult),
           NEW G \in SUBSET Id, Leaders(G, kresult, result), Shown(G)
    PROVE  Shown(G)'
<1>1. UNCHANGED <<asserts, root, kids>>
  BY AssertsStay, TreeStays
<1>2. /\ validate_delgation' <=> validate_delgation
      /\ \A s, q, p, b : Behind(s, q, p, b)' <=> Behind(s, q, p, b)
  BY <1>1, SameTree, SameLeaders
<1>3. SUFFICES /\ \A b \in G : Behind(stack', pc', policy', b) =>
                      root = b /\ validate_delgation
               /\ pc' # "search" /\ policy' \in G => prev' > 0
  <2>1. \A b \in G : Behind(stack, pc, policy, b)' <=>
                         Behind(stack', pc', policy', b)
    BY <1>1 DEF Behind, Licensee
  <2>2. QED BY <1>1, <1>2, <2>1 DEF Shown
<1>4. CASE NextPolicy \/ Recurse
  <2>1. \A a \in Id : kresult[a] # "done"
    BY <1>4, FirstPolicy, RecurseFirst
  <2>2. G = {}
    BY <2>1, NoLeaders
  <2>3. QED BY <2>2
<1>5. CASE NoMorePolicies
  <2>1. /\ pc = "next" /\ pc' = "returned" /\ stack' = stack
        /\ policy' = policy /\ prev' = prev
    BY <1>5 DEF NoMorePolicies, searchVars
  <2>2. stack = <<>> /\ pc # "search" /\ pc' # "search"
    BY <2>1 DEF Strength
  <2>3. QED BY <2>1, <2>2 DEF Behind, Shown
<1>6. CASE Judge
  <2>1. /\ pc = "search" /\ stack = <<>> /\ stack' = <<>> /\ policy' = policy
        /\ pc' # "search"
    BY <1>6 DEF Judge, searchVars
  <2>2. ASSUME policy \in G PROVE prev' > 0
    <3>1. validate_delgation /\ result[policy] > 0
      BY <2>1, <2>2 DEF Behind, Shown, Leaders
    <3>2. prev' = IF result[policy] > prev THEN result[policy] ELSE prev
      BY <1>6, <3>1 DEF Judge
    <3>3. prev \in Nat /\ result[policy] \in Nat
      BY <2>2, ValueFacts DEF SearchTypeOK
    <3>4. QED BY <3>1, <3>2, <3>3
  <2>3. QED BY <2>1, <2>2 DEF Behind
<1>7. CASE NextKey \/ SkipAssertion
  <2>1. /\ stack # <<>> /\ pc = "search" /\ pc' = pc
        /\ stack' = AtNextKey \/ stack' = AtNextAssertion
    BY <1>7 DEF NextKey, SkipAssertion, AtAnAssertion, AtAKey, Searching
  <2>2. stack' # <<>> /\ stack'[1].as = frame.as
    <3>1. /\ AtNextKey # <<>> /\ AtNextAssertion # <<>>
          /\ AtNextKey[1] = [as |-> frame.as, key |-> frame.key + 1, num |-> 0]
          /\ AtNextAssertion[1] =
                 [as |-> frame.as, key |-> frame.key, num |-> frame.num + 1]
      BY <2>1, MovedOn DEF SearchTypeOK
    <3>2. QED BY <2>1, <3>1
  <2>3. \A b : Behind(stack', pc', policy', b) <=> Behind(stack, pc, policy, b)
    BY <2>1, <2>2 DEF Behind, frame
  <2>4. QED BY <2>1, <2>3 DEF Shown
<1>8. CASE UNCHANGED vars
  BY <1>8 DEF vars, searchVars, treeVars, Shown
<1>9. QED BY <1>4, <1>5, <1>6, <1>7, <1>8 DEF Next

\* Whoever is licensed by what comes to its end was not worth anything yet.
LEMMA NoneBefore ==
    ASSUME SearchTypeOK, PlainCredentials, OneEach, InOrder, Started, Finish,
           AuthorsDoNotAsk(kresult), Grounded(kresult, result),
           NEW b \in Id, kresult[b] = "done", result[b] > 0
    PROVE  Licensee(b) # asserts[frame.as].auth
<1>1. SUFFICES ASSUME Licensee(b) = asserts[frame.as].auth PROVE FALSE
  OBVIOUS
<1>2. frame.as \in Id /\ kresult[frame.as] = "in progress"
  BY Finished
<1>3. kresult[frame.as] # "untouched" /\ kresult[frame.as] # "done"
  BY <1>2
<1>4. ~ InAuthorizers(Licensee(b))
  BY <1>1, <1>2, <1>3, PlainFacts DEF AuthorsDoNotAsk
<1>5. PICK x \in AssertionsBy(Licensee(b)) : kresult[x] = "done"
  BY <1>4 DEF Grounded
<1>6. x = frame.as
  BY <1>1, <1>2 DEF AssertionsBy, OneEach
<1>7. QED BY <1>3, <1>5, <1>6

\* What comes to its end joins the leaders if it leads on to one, or to a key
\* that asks.
LEMMA LeadersGrow ==
    ASSUME SearchTypeOK, PlainCredentials, OneEach, InOrder, Started, Moves,
           Finish, AuthorsDoNotAsk(kresult), Grounded(kresult, result),
           NEW G \in SUBSET Id, Leaders(G, kresult, result),
           NEW a, a = frame.as, NEW H,
           H = IF LeadsOn(G, a, kresult', result') THEN G \cup {a} ELSE G
    PROVE  Leaders(H, kresult', result')
<1>1. ASSUME NEW b \in G
      PROVE  kresult'[b] = "done" /\ result'[b] > 0
  <2>1. kresult[b] = "done" /\ result[b] > 0 /\ b \in Id
    BY DEF Leaders
  <2>2. Stays(b)
    BY <2>1, MovesFacts
  <2>3. QED BY <2>1, <2>2 DEF Stays
<1>2. \A b \in H : kresult'[b] = "done" /\ result'[b] > 0
  BY <1>1 DEF LeadsOn
<1>3. ASSUME NEW b \in Id, LeadsOn(H, b, kresult', result')
      PROVE  b \in H
  <2>1. CASE b = a
    BY <1>3, <2>1
  <2>2. CASE b # a
    <3>1. Stays(b)
      BY <2>2 DEF Moves
    <3>2. kresult[b] = "done" /\ result[b] > 0
      BY <1>3, <3>1 DEF Stays, LeadsOn
    <3>3. Licensee(b) # asserts[a].auth
      BY <3>2, NoneBefore
    <3>4. \A d \in H : d \in G \/ d = a
      OBVIOUS
    <3>5. LeadsOn(G, b, kresult, result)
      BY <1>3, <3>2, <3>3, <3>4 DEF LeadsOn
    <3>6. QED BY <3>5 DEF Leaders
  <2>3. QED BY <2>1, <2>2
<1>4. QED BY <1>2, <1>3 DEF Leaders

\* A leaf that names the first of the keys that ask.
LEMMA LeafIsSeen ==
    ASSUME UNCHANGED asserts, root' # None, NEW n \in Id,
           \A U \in SUBSET Id :
               root' \in U /\ (\A x \in U : Range(kids'[x]) \subseteq U) => n \in U,
           kids'[n] = <<>>, Licensee(n) = Authorizers[1]
    PROVE  validate_delgation'
<1>1. Id' = Id /\ Licensee(n)' = Licensee(n)
  BY SameAsserts, SameLicences
<1>2. n \in {m \in Id' : \A U \in SUBSET Id' :
          root' \in U /\ (\A x \in U : Range(kids'[x]) \subseteq U) => m \in U}
  BY <1>1
<1>3. n \in Nodes'
  BY <1>2 DEF Nodes, Under
<1>4. QED BY <1>1, <1>3 DEF validate_delgation

\* What leads on is put above what it leads to.
LEMMA EndIsShown ==
    ASSUME SearchTypeOK, PlainCredentials, OneEach, InOrder, Started, TreeTypeOK,
           Planted(root, kids, kresult), Finish, UNCHANGED asserts,
           AuthorsDoNotAsk(kresult), NothingDone(stack, kresult),
           NEW G \in SUBSET Id, Leaders(G, kresult, result), Shown(G),
           NEW a, a = frame.as, LeadsOn(G, a, kresult', result')
    PROVE  root' = a /\ validate_delgation'
<1>1. /\ a \in Id /\ insert_delegation(a) /\ kresult[a] = "in progress"
      /\ stack # <<>>
  BY Finished
<1>2. ~ Evaluated(a, kresult)
  BY <1>1 DEF Evaluated
<1>3. kids[a] = <<>> /\ Tree(root, kids) /\ a # None
  <2>1. kids[a] = <<>> /\ Tree(root, kids)
    BY <1>1, <1>2 DEF Planted, Placed
  <2>2. a # None
    BY <1>1, AssertionFields DEF SearchTypeOK, None
  <2>3. QED BY <2>1, <2>2
<1>4. CASE InAuthorizers(Licensee(a))
  <2>1. \A b \in Id : kresult[b] # "done"
    BY <1>1, <1>4 DEF NothingDone, frame
  <2>2. G = {}
    BY <2>1, NoLeaders
  <2>3. Licensee(a) = Authorizers[1]
    BY <2>2 DEF LeadsOn
  <2>4. root = None
    BY <2>1 DEF TreeTypeOK, Planted, Placed, Evaluated
  <2>5. root' = a /\ kids' = kids
    <3>1. None \notin Id /\ Nodes = {}
      BY <2>4, AssertionFields DEF SearchTypeOK, None, Nodes
    <3>2. QED BY <1>1, <2>4, <3>1, Inserted
  <2>6. QED BY <1>1, <1>3, <2>3, <2>5, LeafIsSeen
<1>5. CASE ~ InAuthorizers(Licensee(a))
  <2>1. Licensee(a) # Authorizers[1]
    <3>1. 1 \in DOMAIN Authorizers
      BY QueryAssumption, LenProperties, EmptySeq
    <3>2. QED BY <1>5, <3>1 DEF InAuthorizers
  <2>2. PICK b \in G : asserts[b].auth = Licensee(a)
    BY <2>1 DEF LeadsOn
  <2>3. May(a)
    BY <2>1 DEF LeadsOn
  <2>4. Behind(stack, pc, policy, b)
    BY <1>1, <1>5, <2>2 DEF Behind, frame
  <2>5. root = b /\ validate_delgation /\ root \in Id
    BY <2>2, <2>4 DEF Shown
  <2>6. root # None /\ IsFather(a, root) /\ asserts[a].deleg # "?"
    <3>1. root # None
      BY <2>5, AssertionFields DEF SearchTypeOK, None
    <3>2. QED BY <1>1, <2>2, <2>5, <3>1, PlainFacts DEF IsFather
  <2>7. root' = a /\ kids' = Adopted(a)
    BY <1>1, <1>3, <2>5, <2>6, RootFathered
  <2>8. PICK n \in Nodes : kids[n] = <<>> /\ Licensee(n) = Authorizers[1]
    BY <2>5 DEF validate_delgation
  <2>9. n \in Id /\ n \in Under(root) /\ n # a
    <3>1. Evaluated(n, kresult) /\ n \in Id
      BY NodesArePlaced DEF Planted
    <3>2. QED BY <1>2, <2>6, <3>1 DEF Nodes
  <2>10. /\ \A m \in Id : m # a => kids'[m] = kids[m]
         /\ Range(kids'[a]) = {root}
    BY <1>1, <2>3, <2>5, <2>7, AdoptedFacts
  <2>11. ASSUME NEW U \in SUBSET Id, root' \in U,
                \A x \in U : Range(kids'[x]) \subseteq U
         PROVE  n \in U
    <3>1. root \in U
      BY <2>7, <2>10, <2>11
    <3>2. ASSUME NEW x \in U PROVE Range(kids[x]) \subseteq U
      <4>1. CASE x = a
        BY <1>3, <4>1, EmptySeq DEF Range
      <4>2. CASE x # a
        BY <2>10, <2>11, <4>2
      <4>3. QED BY <4>1, <4>2
    <3>3. QED BY <2>9, <3>1, <3>2 DEF Under
  <2>12. kids'[n] = <<>>
    BY <2>8, <2>9, <2>10
  <2>13. QED BY <1>3, <2>7, <2>8, <2>9, <2>11, <2>12, LeafIsSeen
<1>6. QED BY <1>4, <1>5

\* Behind the end of an assertion is that assertion.
LEMMA EndIsBehind ==
    ASSUME SearchTypeOK, Strength, PlainCredentials, OneEach, InOrder, Started,
           Finish, NEW b \in Id, Behind(stack', pc', policy', b)
    PROVE  b = frame.as
<1>1. /\ stack \in Seq(Frame) /\ stack # <<>> /\ pc = "search"
      /\ stack' = Tail(stack) /\ policy' = policy /\ frame.as \in Id
  BY Finished DEF SearchTypeOK, Finish, Searching
<1>2. CASE stack' = <<>>
  <2>1. Len(stack) = 1
    <3>1. Len(Tail(stack)) = Len(stack) - 1 /\ Len(stack) \in Nat
      BY <1>1, StackFacts
    <3>2. Tail(stack) = <<>> /\ Len(<<>>) = 0
      BY <1>1, <1>2
    <3>3. Len(Tail(stack)) = 0
      BY <3>2, Zenon
    <3>4. QED BY <3>1, <3>3
  <2>2. frame.as = policy
    BY <1>1, <2>1, StackOfStrength DEF frame
  <2>3. QED BY <1>1, <1>2, <2>2 DEF Behind
<1>3. CASE stack' # <<>>
  <2>1. 2 \in DOMAIN stack /\ stack'[1] = stack[2] /\ 2 > 1 /\ 2 - 1 = 1
    BY <1>3, TailFacts
  <2>2. asserts[b].auth = Licensee(stack[2].as)
    BY <1>3, <2>1 DEF Behind
  <2>3. stack[2 - 1].as \in DependsOn(stack[2].as)
    BY <2>1 DEF InOrder, OnStack
  <2>4. stack[2].as \in Id
    BY <1>1, <2>1, StackIds DEF Frame
  <2>5. frame.as \in AssertionsBy(Licensee(stack[2].as))
    BY <2>1, <2>3, <2>4, PlainFacts DEF frame
  <2>6. QED BY <1>1, <2>2, <2>5 DEF AssertionsBy, OneEach
<1>4. QED BY <1>2, <1>3

\* After each step there are leaders again, and the tree shows them.
LEMMA NextShown ==
    ASSUME SearchTypeOK, Strength, PlainCredentials, OneEach, InOrder, Started,
           TreeTypeOK, Planted(root, kids, kresult), Moves, [Next]_vars,
           AuthorsDoNotAsk(kresult), PolicyComesFirst(policy, kresult),
           Grounded(kresult, result), NothingDone(stack, kresult),
           NEW G \in SUBSET Id, Leaders(G, kresult, result), Shown(G)
    PROVE  \E H \in SUBSET Id : Leaders(H, kresult', result') /\ Shown(H)'
<1>1. CASE ~ Finish
  BY <1>1, LeadersStay, ShownStays
<1>2. CASE Finish
  <2> DEFINE a == frame.as
  <2>0. PICK H : H = IF LeadsOn(G, a, kresult', result') THEN G \cup {a} ELSE G
    OBVIOUS
  <2>1. /\ a \in Id /\ kresult[a] = "in progress" /\ pc' = "search"
        /\ UNCHANGED asserts
    BY <1>2, Finished DEF Finish, Searching
  <2>2. a \notin G
    <3>1. kresult[a] # "done"
      BY <2>1
    <3>2. QED BY <3>1 DEF Leaders
  <2>3. H \in SUBSET Id /\ Leaders(H, kresult', result')
    BY <1>2, <2>0, <2>1, LeadersGrow
  <2>4. ASSUME NEW b \in H, Behind(stack', pc', policy', b)
        PROVE  root' = b /\ validate_delgation'
    <3>1. b = a
      BY <1>2, <2>3, <2>4, EndIsBehind
    <3>2. LeadsOn(G, a, kresult', result')
      BY <2>0, <2>2, <2>4, <3>1
    <3>3. QED BY <1>2, <2>1, <3>1, <3>2, EndIsShown
  <2>5. Shown(H)'
    <3>1. \A b : Behind(stack, pc, policy, b)' <=> Behind(stack', pc', policy', b)
      BY <2>1 DEF Behind, Licensee
    <3>2. QED BY <2>1, <2>4, <3>1 DEF Shown
  <2>6. QED BY <2>3, <2>5
<1>3. QED BY <1>1, <1>2

-------------------------------------------------------------------------------
\* The first state has the one way down: nothing is entered.
LEMMA InitQInv == Init => QInv
<1> SUFFICES ASSUME Init PROVE OneWay
  BY DEF QInv
<1>1. /\ stack = <<>> /\ \A a \in Id : kresult[a] = "untouched" /\ result[a] = 0
      /\ policy = None
  BY DEF Init
<1>2. DOMAIN stack = {}
  BY <1>1, EmptySeq
<1>3. UntouchedIsNothing(kresult, result) /\ PolicyComesFirst(policy, kresult)
  BY <1>1 DEF UntouchedIsNothing, PolicyComesFirst
<1>4. /\ Grounded(kresult, result) /\ NothingDone(stack, kresult)
      /\ HaveFound(stack)
  BY <1>1, <1>2 DEF Grounded, NothingDone, HaveFound
<1>5. Leaders({}, kresult, result) /\ Shown({})
  BY <1>1 DEF Leaders, LeadsOn, Shown
<1>6. QED BY <1>3, <1>4, <1>5 DEF OneWay

\* Each step keeps the one way of the search.
LEMMA NextQInv ==
    SearchTypeOK /\ Strength /\ DInv /\ PInv /\ QInv /\ [Next]_vars => QInv'
<1> SUFFICES ASSUME SearchTypeOK, Strength, DInv, PInv, QInv, [Next]_vars
             PROVE  QInv'
  OBVIOUS
<1>1. UNCHANGED asserts
  BY AssertsStay
<1>2. SUFFICES ASSUME PlainCredentials, OneEach PROVE OneWay'
  BY <1>1, SameLicences, SameLeaders DEF QInv
<1>3. /\ OneWay /\ NoneLicensesPOLICY
      /\ AuthorsDoNotAsk(kresult) /\ WaitingDoNotAsk(stack)
  BY <1>2 DEF QInv, PInv, Grounds, PlainCredentials
<1>4. /\ Frames(stack, kresult, result) /\ InOrder /\ Started /\ TreeTypeOK
      /\ Planted(root, kids, kresult) /\ Moves
  BY <1>3, NextMoves
<1>5. /\ UntouchedIsNothing(kresult, result) /\ PolicyComesFirst(policy, kresult)
      /\ Grounded(kresult, result) /\ NothingDone(stack, kresult)
      /\ HaveFound(stack)
      /\ \E G \in SUBSET Id : Leaders(G, kresult, result) /\ Shown(G)
  BY <1>3 DEF OneWay
<1>6. UntouchedIsNothing(kresult', result') /\ PolicyComesFirst(policy', kresult')
  BY <1>4, <1>5, NextUntouched, NextPolicyFirst
<1>7. Grounded(kresult', result')
  BY <1>2, <1>4, <1>5, NextGrounded
<1>8. NothingDone(stack', kresult')
  BY <1>2, <1>3, <1>5, NextDown
<1>9. HaveFound(stack')
  BY <1>2, <1>5, NextHaveFound
<1>10. \E H \in SUBSET Id : Leaders(H, kresult', result') /\ Shown(H)'
  BY <1>2, <1>3, <1>4, <1>5, NextShown
<1>11. /\ UntouchedIsNothing(kresult, result)' /\ PolicyComesFirst(policy, kresult)'
       /\ Grounded(kresult, result)' /\ NothingDone(stack, kresult)'
       /\ HaveFound(stack)'
  BY <1>1, <1>6, <1>7, <1>8, <1>9, SameLeaders DEF HaveFound
<1>12. \E H \in SUBSET Id' : Leaders(H, kresult, result)' /\ Shown(H)'
  BY <1>1, <1>10, SameAsserts, SameLeaders
<1>13. QED BY <1>11, <1>12 DEF OneWay

\* A chain leads on from its first assertion.
LEMMA ChainLeadsOn ==
    ASSUME SearchTypeOK, InOrder, stack = <<>>,
           UntouchedIsNothing(kresult, result),
           NEW G \in SUBSET Id, Leaders(G, kresult, result), NEW c \in Chains
    PROVE  /\ c[1] \in G /\ asserts[c[1]].auth = POLICY
<1>1. c \in SeqOf(Id, Len(asserts)) /\ IsChain(c, result)
  BY ChainsAre
<1>2. PICK k \in 0 .. Len(asserts) : c \in [1 .. k -> Id]
  BY <1>1 DEF SeqOf
<1>3. Len(asserts) \in Nat
  BY AssertionFields, LenProperties DEF SearchTypeOK
<1>4. k \in Nat \ {0} /\ Len(c) = k /\ DOMAIN c = 1 .. k
  <2>1. k \in Nat /\ DOMAIN c = 1 .. k
    BY <1>2, <1>3
  <2>2. c \in Seq(Id)
    BY <1>2, <2>1, SeqDef
  <2>3. Len(c) = k
    BY <2>1, <2>2, LenProperties
  <2>4. c # <<>>
    BY <1>1 DEF IsChain
  <2>5. Len(c) # 0
    BY <2>2, <2>4, EmptySeq
  <2>6. QED BY <2>1, <2>3, <2>5
<1>5. ASSUME NEW i \in 1 .. k
      PROVE  c[i] \in Id /\ kresult[c[i]] = "done" /\ result[c[i]] > 0
  <2>1. c[i] \in Id /\ result[c[i]] > 0
    BY <1>1, <1>2, <1>4 DEF IsChain
  <2>2. kresult[c[i]] # "untouched"
    BY <2>1 DEF UntouchedIsNothing
  <2>3. kresult[c[i]] # "in progress"
    <3>1. DOMAIN stack = {}
      BY EmptySeq
    <3>2. QED BY <2>1, <3>1 DEF InOrder, OnStack
  <2>4. kresult[c[i]] \in {"untouched", "in progress", "done"}
    BY <2>1 DEF SearchTypeOK
  <2>5. QED BY <2>1, <2>2, <2>3, <2>4
<1> DEFINE S == {i \in 1 .. k : c[i] \notin G}
<1>6. S = {}
  <2>1. SUFFICES ASSUME S # {} PROVE FALSE
    OBVIOUS
  <2>2. S \in SUBSET Nat /\ k + 1 \in Nat /\ \A x \in S : x < k + 1
    BY <1>4
  <2>3. PICK i \in S : \A y \in S : y <= i
    <3> HIDE DEF S
    <3> QED BY <2>1, <2>2, GreatestBelow
  <2>4. i \in 1 .. k /\ c[i] \notin G
    OBVIOUS
  <2>5. LeadsOn(G, c[i], kresult, result)
    <3>1. CASE i = k
      BY <1>1, <1>4, <1>5, <2>4, <3>1 DEF IsChain, LeadsOn
    <3>2. CASE i # k
      <4>1. i \in 1 .. k - 1 /\ i + 1 \in 1 .. k /\ ~ (i + 1 <= i)
        BY <1>4, <2>4, <3>2
      <4>2. c[i + 1] \in G
        BY <2>3, <4>1
      <4>3. May(c[i]) /\ Licensee(c[i]) = asserts[c[i + 1]].auth
        BY <1>1, <1>4, <4>1 DEF IsChain
      <4>4. QED BY <1>5, <2>4, <4>2, <4>3 DEF LeadsOn
    <3>3. QED BY <3>1, <3>2
  <2>6. QED BY <1>5, <2>4, <2>5 DEF Leaders
<1>7. 1 \in 1 .. k
  BY <1>4
<1>8. QED BY <1>1, <1>6, <1>7 DEF IsChain

\* The one way of the search answers every chain.
LEMMA QInvIsEnough ==
    ASSUME SearchTypeOK, Strength, DInv, QInv
    PROVE  ChainIsEnough
<1> SUFFICES ASSUME PlainCredentials, OneEach, pc = "returned", NEW c \in Chains
             PROVE  prev > 0
  BY DEF ChainIsEnough
<1>1. /\ UntouchedIsNothing(kresult, result) /\ PolicyComesFirst(policy, kresult)
      /\ InOrder
  BY DEF QInv, OneWay, DInv
<1>2. PICK G \in SUBSET Id : Leaders(G, kresult, result) /\ Shown(G)
  BY DEF QInv, OneWay
<1>3. pc # "search" /\ stack = <<>>
  BY DEF Strength
<1>4. c[1] \in G /\ c[1] \in Id /\ asserts[c[1]].auth = POLICY
  BY <1>1, <1>2, <1>3, ChainLeadsOn
<1>5. kresult[c[1]] = "done"
  BY <1>2, <1>4 DEF Leaders
<1>6. policy = c[1]
  <2>1. kresult[c[1]] # "untouched"
    BY <1>5
  <2>2. policy \in AssertionsBy(POLICY)
    BY <1>1, <1>4, <2>1 DEF PolicyComesFirst
  <2>3. QED BY <1>4, <2>2 DEF AssertionsBy, OneEach
<1>7. QED BY <1>2, <1>3, <1>4, <1>6 DEF Shown

\* The answer is what the Delegate fields say: none without a chain that may
\* be delegated, and, with one assertion for each key, one wherever there is a
\* chain.
THEOREM DelegateFieldsAreObeyed == Spec => []DelegateIsObeyed
<1>1. IInv => SearchTypeOK /\ Strength
  BY DEF IInv
<1>2. PInv => NoneWithoutChain
  BY DEF PInv, Grounds, AnswerHasChain, NoneWithoutChain
<1>3. SearchTypeOK /\ Strength /\ DInv /\ QInv => ChainIsEnough
  BY QInvIsEnough
<1>4. NoneWithoutChain /\ ChainIsEnough => DelegateIsObeyed
  BY DEF DelegateIsObeyed
<1>5. QED BY <1>1, <1>2, <1>3, <1>4, InitPInv, NextPInv, InitQInv, NextQInv,
             Invariance, DelegateInvariance, PTL DEF Spec

===============================================================================
