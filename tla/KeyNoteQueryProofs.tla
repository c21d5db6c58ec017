-------------------------- MODULE KeyNoteQueryProofs --------------------------
(***************************************************************************)
(* What KeyNoteQuery says of the search, for any principals, any number of *)
(* compliance values and any assertions.                                   *)
(***************************************************************************)
EXTENDS KeyNoteQuery, FiniteSetTheorems, SequenceTheorems,
        WellFoundedInduction, TLAPS

\* A non-empty set of values has a greatest element.
LEMMA GreatestValue ==
    ASSUME NEW S \in SUBSET Value, S # {}
    PROVE  \E x \in S : \A y \in S : y <= x
<1> DEFINE T == {Top - x : x \in S}
           R == {ss \in Nat \X Nat : ss[1] < ss[2]}
<1>1. T \in SUBSET Nat /\ T # {}
  <2>1. \A x \in S : Top - x \in Nat
    BY QueryAssumption DEF Value, Top
  <2>2. QED BY <2>1
<1>2. R = OpToRel(<, Nat)
  BY DEF OpToRel
<1>3. IsWellFoundedOn(R, Nat)
  BY <1>2, NatLessThanWellFounded
<1>4. PICK z \in T : \A y \in T : ~ (<<y, z>> \in R)
  <2> HIDE DEF R, T
  <2> QED BY <1>1, <1>3, WFMin
<1>5. \A y \in T : z <= y
  <2>1. SUFFICES ASSUME NEW y \in T PROVE z <= y
    OBVIOUS
  <2>2. ~ (<<y, z>> \in R)
    BY <1>4
  <2>3. y \in Nat /\ z \in Nat
    <3> HIDE DEF R, T
    <3> QED BY <1>1, <1>4, <2>1
  <2>4. ~ (y < z)
    <3> HIDE DEF T
    <3> QED BY <2>2, <2>3
  <2>5. QED
    <3> HIDE DEF R, T
    <3> QED BY <2>3, <2>4
<1>6. PICK x \in S : z = Top - x
  OBVIOUS
<1>7. \A y \in S : y <= x
  <2>1. SUFFICES ASSUME NEW y \in S PROVE y <= x
    OBVIOUS
  <2>2. z <= Top - y
    BY <1>5
  <2>3. x \in Int /\ y \in Int /\ Top \in Int
    BY QueryAssumption DEF Value, Top
  <2>4. QED BY <1>6, <2>2, <2>3
<1>8. QED BY <1>7

\* A list of assertions is one, with a licensee for each.
LEMMA AssertionFields ==
    ASSUME asserts \in AssertionLists
    PROVE  /\ asserts \in Seq(Assertion)
           /\ \A a \in Id : /\ a \in Nat \ {0}
                            /\ asserts[a] \in Assertion
                            /\ asserts[a].cond \in Value
                            /\ asserts[a].keys \in Seq(Principal)
<1>1. asserts \in Seq(Assertion)
  BY QueryAssumption
<1>2. \A a \in Id : a \in Nat \ {0} /\ asserts[a] \in Assertion
  BY <1>1 DEF Id
<1>3. QED BY <1>1, <1>2 DEF Assertion

\* What is used of the order of the compliance values.
LEMMA ValueFacts ==
    /\ Value \in SUBSET Nat /\ 0 \in Value /\ Top \in Value
    /\ \A x, y \in Value : Minimum(x, y) \in Value
    /\ \A x, y \in Value : Minimum(x, y) <= x /\ Minimum(x, y) <= y
BY QueryAssumption DEF Value, Top, Minimum

\* The value of a Licensees field is one, it is had by the keys of one of its
\* sets, and no greater one is.
LEMMA KeypredIsHad ==
    ASSUME NEW a
    PROVE  /\ Keypred(a) \in Value
           /\ Keypred(a) # 0 =>
                  \E S \in asserts[a].lics : \A p \in S : KeyHas(p, Keypred(a))
           /\ \A w \in Value : w > Keypred(a) =>
                  ~ \E S \in asserts[a].lics : \A p \in S : KeyHas(p, w)
<1> DEFINE Q(w) == \E S \in asserts[a].lics : \A p \in S : KeyHas(p, w)
           H == {w \in Value : w = 0 \/ Q(w)}
<1>1. H # {} /\ H \in SUBSET Value
  BY ValueFacts
<1>2. PICK x \in H : \A y \in H : y <= x
  BY <1>1, GreatestValue
<1>3. \A w \in Value : w > x => ~ Q(w)
  <2>1. SUFFICES ASSUME NEW w \in Value, w > x, Q(w) PROVE FALSE
    OBVIOUS
  <2>2. w \in H
    BY <2>1
  <2>3. w <= x
    BY <1>2, <2>2
  <2>4. w \in Nat /\ x \in Nat
    BY ValueFacts
  <2>5. QED BY <2>1, <2>3, <2>4
<1>4. \E v \in Value : (v = 0 \/ Q(v)) /\ \A w \in Value : w > v => ~ Q(w)
  BY <1>2, <1>3
<1>5. Keypred(a) = CHOOSE v \in Value : (v = 0 \/ Q(v))
                       /\ \A w \in Value : w > v => ~ Q(w)
  BY DEF Keypred
<1>6. QED
  <2> HIDE DEF Q
  <2>1. /\ Keypred(a) \in Value /\ (Keypred(a) = 0 \/ Q(Keypred(a)))
        /\ \A w \in Value : w > Keypred(a) => ~ Q(w)
    BY <1>4, <1>5
  <2>2. QED BY <2>1 DEF Q

-------------------------------------------------------------------------------
\* The frames of the stack: what an assertion in evaluation has so far is
\* not more than its conditions give, and the outermost one is a policy.
Strength ==
    /\ \A i \in DOMAIN stack :
           result[stack[i].as] <= asserts[stack[i].as].cond
    /\ pc = "search" =>
           /\ policy \in AssertionsBy(POLICY) /\ asserts[policy].local
           /\ IF stack = <<>> THEN kresult[policy] = "done"
              ELSE stack[Len(stack)].as = policy
    /\ pc # "search" => stack = <<>>

IInv == SearchTypeOK /\ Strength /\ Founded

\* The operations on the stack.
LEMMA StackFacts ==
    ASSUME NEW S, NEW s \in Seq(S), s # <<>>
    PROVE  /\ Len(s) \in Nat \ {0} /\ DOMAIN s = 1 .. Len(s)
           /\ \A i \in DOMAIN s : s[i] \in S
           /\ Tail(s) \in Seq(S) /\ DOMAIN Tail(s) = 1 .. Len(s) - 1
           /\ Len(Tail(s)) = Len(s) - 1
           /\ \A i \in DOMAIN Tail(s) : Tail(s)[i] = s[i + 1]
           /\ \A e \in S : /\ [s EXCEPT ![1] = e] \in Seq(S)
                           /\ Len([s EXCEPT ![1] = e]) = Len(s)
                           /\ DOMAIN [s EXCEPT ![1] = e] = DOMAIN s
<1>1. Len(s) \in Nat \ {0} /\ DOMAIN s = 1 .. Len(s)
  BY EmptySeq, LenProperties
<1>2. \A i \in DOMAIN s : s[i] \in S
  BY <1>1, ElementOfSeq
<1>3. Tail(s) \in Seq(S) /\ Len(Tail(s)) = Len(s) - 1
  BY HeadTailProperties
<1>4. DOMAIN Tail(s) = 1 .. Len(s) - 1
  BY <1>3, LenProperties
<1>5. \A i \in DOMAIN Tail(s) : Tail(s)[i] = s[i + 1]
  BY <1>1, <1>4
<1>6. 1 \in 1 .. Len(s)
  BY <1>1
<1>7. \A e \in S : /\ [s EXCEPT ![1] = e] \in Seq(S)
                   /\ Len([s EXCEPT ![1] = e]) = Len(s)
  BY <1>6, ExceptSeq
<1>8. QED BY <1>1, <1>2, <1>3, <1>4, <1>5, <1>7

\* Putting a frame on the stack.
LEMMA PushFacts ==
    ASSUME NEW S, NEW e \in S, NEW s \in Seq(S)
    PROVE  /\ <<e>> \o s \in Seq(S)
           /\ Len(<<e>> \o s) = Len(s) + 1
           /\ DOMAIN (<<e>> \o s) = 1 .. Len(s) + 1
           /\ \A i \in 1 .. Len(s) + 1 :
                  (<<e>> \o s)[i] = IF i = 1 THEN e ELSE s[i - 1]
<1>1. <<e>> \in Seq(S) /\ Len(<<e>>) = 1 /\ <<e>>[1] = e
  OBVIOUS
<1>2. /\ <<e>> \o s \in Seq(S)
      /\ Len(<<e>> \o s) = Len(s) + 1
      /\ \A i \in 1 .. Len(s) + 1 :
             (<<e>> \o s)[i] = IF i <= 1 THEN <<e>>[i] ELSE s[i - 1]
  <2>1. Len(s) \in Nat
    BY LenProperties
  <2>2. QED BY <1>1, <2>1, ConcatProperties
<1>3. DOMAIN (<<e>> \o s) = 1 .. Len(s) + 1
  BY <1>2, LenProperties
<1>4. \A i \in 1 .. Len(s) + 1 :
          (<<e>> \o s)[i] = IF i = 1 THEN e ELSE s[i - 1]
  <2>1. Len(s) \in Nat
    BY LenProperties
  <2>2. QED BY <1>1, <1>2, <2>1
<1>5. QED BY <1>2, <1>3, <1>4

\* The innermost frame, and moving it on.
LEMMA FrameFacts ==
    ASSUME stack \in Seq(Frame), stack # <<>>
    PROVE  /\ frame \in Frame /\ frame.as \in Id
           /\ [frame EXCEPT !.num = @ + 1] \in Frame
           /\ [as |-> frame.as, key |-> frame.key + 1, num |-> 0] \in Frame
           /\ AtNextAssertion \in Seq(Frame)
           /\ AtNextKey \in Seq(Frame)
<1>1. frame \in Frame
  <2>1. 1 \in DOMAIN stack
    BY StackFacts
  <2>2. QED BY <2>1, StackFacts DEF frame
<1>2. frame.as \in Id
  BY <1>1 DEF Frame
<1>3. [frame EXCEPT !.num = @ + 1] \in Frame
  BY <1>1 DEF Frame
<1>4. [as |-> frame.as, key |-> frame.key + 1, num |-> 0] \in Frame
  BY <1>1 DEF Frame
<1>5. QED
  BY <1>1, <1>2, <1>3, <1>4, StackFacts DEF AtNextAssertion, AtNextKey

\* What Enter does to the variables of the search.
LEMMA EnterType ==
    ASSUME SearchTypeOK, NEW a \in Id, NEW below \in Seq(Frame),
           Enter(a, below)
    PROVE  /\ result' \in [Id -> Value]
           /\ kresult' \in [Id -> {"untouched", "in progress", "done"}]
           /\ stack' \in Seq(Frame)
<1>1. asserts[a].cond \in Value
  BY AssertionFields DEF SearchTypeOK
<1>2. result' \in [Id -> Value]
  BY <1>1 DEF Enter, SearchTypeOK
<1>3. kresult' \in [Id -> {"untouched", "in progress", "done"}]
  BY DEF Enter, SearchTypeOK
<1>4. [as |-> a, key |-> 1, num |-> 0] \in Frame
  BY DEF Frame
<1>5. <<[as |-> a, key |-> 1, num |-> 0]>> \o below \in Seq(Frame)
  BY <1>4, PushFacts
<1>5a. \/ stack' = below
      \/ stack' = <<[as |-> a, key |-> 1, num |-> 0]>> \o below
  BY DEF Enter
<1>6. QED BY <1>2, <1>3, <1>5, <1>5a

\* The search starts in its types.
LEMMA InitType == Init => SearchTypeOK
<1>1. SUFFICES ASSUME Init PROVE SearchTypeOK
  OBVIOUS
<1>2. <<>> \in Seq(Frame)
  BY EmptySeq
<1>3. QED BY <1>1, <1>2, ValueFacts DEF Init, SearchTypeOK, None

\* The type of the search does not depend on what the list of assertions is.
LEMMA TypeStep ==
    ASSUME SearchTypeOK, UNCHANGED asserts,
           kresult' \in [Id -> {"untouched", "in progress", "done"}],
           result' \in [Id -> Value],
           stack' \in Seq(Frame),
           pc' \in {"next", "search", "returned"},
           policy' \in Id \union {None},
           prev' \in Value
    PROVE  SearchTypeOK'
<1>1. Id' = Id
  BY DEF Id
<1>2. Frame' = Frame
  BY <1>1 DEF Frame
<1>3. QED BY <1>1, <1>2 DEF SearchTypeOK

\* Each step of the search keeps them.
LEMMA NextType == SearchTypeOK /\ Strength /\ [Next]_vars => SearchTypeOK'
<1> SUFFICES ASSUME SearchTypeOK, Strength, [Next]_vars PROVE SearchTypeOK'
  OBVIOUS
<1>0. /\ kresult \in [Id -> {"untouched", "in progress", "done"}]
      /\ result \in [Id -> Value]
      /\ stack \in Seq(Frame)
      /\ pc \in {"next", "search", "returned"}
      /\ policy \in Id \union {None}
      /\ prev \in Value
  BY DEF SearchTypeOK
<1>1. CASE NextPolicy
  <2>1. PICK a \in AssertionsBy(POLICY) : policy' = a /\ Enter(a, <<>>)
    BY <1>1 DEF NextPolicy
  <2>2. a \in Id
    BY <2>1 DEF AssertionsBy
  <2>3. <<>> \in Seq(Frame)
    BY EmptySeq
  <2>4. UNCHANGED <<asserts, prev>> /\ pc' = "search"
    BY <1>1 DEF NextPolicy
  <2>5. QED BY <1>0, <2>1, <2>2, <2>3, <2>4, EnterType, TypeStep
<1>2. CASE NoMorePolicies
  BY <1>0, <1>2, TypeStep DEF NoMorePolicies, searchVars
<1>3. CASE Judge
  <2>1. policy \in Id
    BY <1>3 DEF Judge, Strength, AssertionsBy
  <2>2. prev' \in Value
    BY <1>0, <1>3, <2>1, ValueFacts DEF Judge
  <2>3. QED BY <1>0, <1>3, <2>2, TypeStep DEF Judge, searchVars
<1>4. CASE NextKey
  <2>1. stack' \in Seq(Frame)
    BY <1>0, <1>4, FrameFacts DEF NextKey, AtAKey, Searching
  <2>2. QED BY <1>0, <1>4, <2>1, TypeStep DEF NextKey
<1>5. CASE SkipAssertion
  <2>1. stack' \in Seq(Frame)
    BY <1>0, <1>5, FrameFacts
    DEF SkipAssertion, AtAnAssertion, AtAKey, Searching
  <2>2. QED BY <1>0, <1>5, <2>1, TypeStep DEF SkipAssertion
<1>6. CASE Recurse
  <2>1. PICK a \in found : Enter(a, AtNextAssertion)
    BY <1>6 DEF Recurse
  <2>2. a \in Id
    BY <2>1 DEF found, Find, AssertionsBy
  <2>3. AtNextAssertion \in Seq(Frame)
    BY <1>0, <1>6, FrameFacts DEF Recurse, AtAnAssertion, AtAKey, Searching
  <2>4. UNCHANGED <<asserts, pc, policy, prev>>
    BY <1>6 DEF Recurse
  <2>5. QED BY <1>0, <2>1, <2>2, <2>3, <2>4, EnterType, TypeStep
<1>7. CASE Finish
  <2>1. stack' \in Seq(Frame) /\ frame.as \in Id
    BY <1>0, <1>7, FrameFacts, StackFacts DEF Finish, Searching
  <2>2. result' \in [Id -> Value]
    BY <1>0, <1>7, <2>1, KeypredIsHad, ValueFacts DEF Finish
  <2>3. kresult' \in [Id -> {"untouched", "in progress", "done"}]
    BY <1>0, <1>7, <2>1 DEF Finish
  <2>4. QED BY <1>0, <1>7, <2>1, <2>2, <2>3, TypeStep DEF Finish
<1>8. CASE UNCHANGED vars
  BY <1>0, <1>8, TypeStep DEF vars, searchVars
<1>9. QED
  BY <1>1, <1>2, <1>3, <1>4, <1>5, <1>6, <1>7, <1>8 DEF Next

-------------------------------------------------------------------------------
\* The conjuncts of Strength, for a stack and values that a step gives.
BoundedBy(s, r) == \A i \in DOMAIN s : r[s[i].as] <= asserts[s[i].as].cond
PolicyLast(s, k, p) ==
    IF s = <<>> THEN k[p] = "done" ELSE s[Len(s)].as = p

\* What a step has to show so that Strength is kept.
LEMMA StrengthStep ==
    ASSUME UNCHANGED asserts, BoundedBy(stack', result'),
           pc' = "search" =>
               /\ policy' \in AssertionsBy(POLICY) /\ asserts[policy'].local
               /\ PolicyLast(stack', kresult', policy'),
           pc' # "search" => stack' = <<>>
    PROVE  Strength'
<1>1. AssertionsBy(POLICY)' = AssertionsBy(POLICY)
  BY DEF AssertionsBy, Id
<1>2. QED BY <1>1 DEF Strength, BoundedBy, PolicyLast

\* Moving the innermost frame on changes no assertion on the stack.
LEMMA MovedStack ==
    ASSUME stack \in Seq(Frame), stack # <<>>,
           NEW f \in Frame, f.as = frame.as, NEW r, NEW p,
           BoundedBy(stack, r), PolicyLast(stack, kresult, p)
    PROVE  LET s == [stack EXCEPT ![1] = f]
           IN  BoundedBy(s, r) /\ s # <<>> /\ s[Len(s)].as = p
<1> DEFINE s == [stack EXCEPT ![1] = f]
<1>1. /\ s \in Seq(Frame) /\ Len(s) = Len(stack) /\ DOMAIN s = DOMAIN stack
      /\ Len(stack) \in Nat \ {0} /\ DOMAIN stack = 1 .. Len(stack)
  BY StackFacts
<1>2. \A i \in DOMAIN s : s[i].as = stack[i].as
  BY <1>1 DEF frame
<1>3. BoundedBy(s, r)
  <2> HIDE DEF s
  <2> QED BY <1>1, <1>2 DEF BoundedBy
<1>4. s # <<>>
  <2> HIDE DEF s
  <2>1. Len(<<>>) = 0
    OBVIOUS
  <2>2. QED BY <1>1, <2>1
<1>5. s[Len(s)].as = stack[Len(stack)].as
  <2> HIDE DEF s
  <2>1. Len(s) \in DOMAIN s
    BY <1>1
  <2>2. QED BY <1>1, <1>2, <2>1
<1>6. QED BY <1>3, <1>4, <1>5 DEF PolicyLast

\* Entering an assertion with the stack that it is to return to.
LEMMA EnteredStack ==
    ASSUME SearchTypeOK, NEW a \in Id, NEW below \in Seq(Frame),
           Enter(a, below), BoundedBy(below, result), NEW p \in Id,
           below = <<>> => a = p,
           below # <<>> => below[Len(below)].as = p
    PROVE  BoundedBy(stack', result') /\ PolicyLast(stack', kresult', p)
<1> DEFINE f == [as |-> a, key |-> 1, num |-> 0]
<1>1. asserts[a].cond \in Nat
  BY AssertionFields, ValueFacts DEF SearchTypeOK
<1>2. \A b \in Id : result'[b] = IF b = a THEN asserts[a].cond ELSE result[b]
  BY DEF Enter, SearchTypeOK
<1>3. \A i \in DOMAIN below : below[i].as \in Id
  <2>1. SUFFICES ASSUME NEW i \in DOMAIN below PROVE below[i] \in Frame
    BY DEF Frame
  <2>2. DOMAIN below = 1 .. Len(below)
    BY LenProperties
  <2>3. QED BY <2>2, ElementOfSeq
<1>4. BoundedBy(below, result')
  <2>1. SUFFICES ASSUME NEW i \in DOMAIN below
                 PROVE  result'[below[i].as] <= asserts[below[i].as].cond
    BY DEF BoundedBy
  <2>2. result[below[i].as] <= asserts[below[i].as].cond
    BY DEF BoundedBy
  <2>3. QED BY <1>1, <1>2, <1>3, <2>2
<1>5. CASE asserts[a].cond = 0
  <2>1. stack' = below /\ kresult'[a] = "done"
    BY <1>5 DEF Enter, SearchTypeOK
  <2>2. QED BY <1>4, <2>1 DEF PolicyLast
<1>6. CASE asserts[a].cond # 0
  <2>1. stack' = <<f>> \o below
    BY <1>6 DEF Enter
  <2>2. f \in Frame
    BY DEF Frame
  <2>3. /\ Len(stack') = Len(below) + 1 /\ DOMAIN stack' = 1 .. Len(below) + 1
        /\ \A i \in 1 .. Len(below) + 1 :
               stack'[i] = IF i = 1 THEN f ELSE below[i - 1]
    <3> HIDE DEF f
    <3> QED BY <2>1, <2>2, PushFacts
  <2>4. Len(below) \in Nat /\ DOMAIN below = 1 .. Len(below)
    BY LenProperties
  <2>5. BoundedBy(stack', result')
    <3>1. SUFFICES ASSUME NEW i \in 1 .. Len(below) + 1
                   PROVE  result'[stack'[i].as] <= asserts[stack'[i].as].cond
      BY <2>3 DEF BoundedBy
    <3>2. CASE i = 1
      <4>1. stack'[i].as = a
        BY <2>3, <3>2
      <4>2. QED BY <1>1, <1>2, <4>1
    <3>3. CASE i # 1
      <4>1. i - 1 \in DOMAIN below /\ stack'[i] = below[i - 1]
        BY <2>3, <2>4, <3>3
      <4>2. QED BY <1>4, <4>1 DEF BoundedBy
    <3>4. QED BY <3>2, <3>3
  <2>6. stack' # <<>> /\ stack'[Len(stack')].as = p
    <3>1. CASE below = <<>>
      <4>1. Len(below) = 0
        BY <3>1
      <4>2. Len(stack') = 1 /\ stack'[1] = f
        BY <2>3, <4>1
      <4>3. QED BY <3>1, <4>2
    <3>2. CASE below # <<>>
      <4>1. Len(below) # 0
        BY <3>2, EmptySeq
      <4>2. Len(stack') \in 1 .. Len(below) + 1 /\ Len(stack') # 1
        BY <2>3, <2>4, <4>1
      <4>3. stack'[Len(stack')] = below[Len(below)]
        BY <2>3, <2>4, <4>2
      <4>4. Len(stack') # Len(<<>>)
        BY <2>3, <2>4
      <4>5. QED BY <3>2, <4>3, <4>4
    <3>3. QED BY <3>1, <3>2
  <2>7. QED BY <2>5, <2>6 DEF PolicyLast
<1>7. QED BY <1>5, <1>6

\* Each step keeps what is known of the stack and of the results on it.
LEMMA NextStrength == SearchTypeOK /\ Strength /\ [Next]_vars => Strength'
<1> SUFFICES ASSUME SearchTypeOK, Strength, [Next]_vars PROVE Strength'
  OBVIOUS
<1>0. /\ stack \in Seq(Frame) /\ BoundedBy(stack, result)
      /\ result \in [Id -> Value]
      /\ pc = "search" =>
             /\ policy \in AssertionsBy(POLICY) /\ asserts[policy].local
             /\ PolicyLast(stack, kresult, policy)
      /\ pc # "search" => stack = <<>>
  BY DEF SearchTypeOK, Strength, BoundedBy, PolicyLast
<1>1. CASE NextPolicy
  <2>1. PICK a \in AssertionsBy(POLICY) :
            asserts[a].local /\ policy' = a /\ Enter(a, <<>>)
    BY <1>1 DEF NextPolicy
  <2>2. a \in Id /\ <<>> \in Seq(Frame) /\ BoundedBy(<<>>, result)
    BY <2>1, EmptySeq DEF AssertionsBy, BoundedBy
  <2>3. BoundedBy(stack', result') /\ PolicyLast(stack', kresult', a)
    BY <2>1, <2>2, EnteredStack
  <2>4. UNCHANGED asserts /\ pc' = "search"
    BY <1>1 DEF NextPolicy
  <2>5. QED BY <2>1, <2>3, <2>4, StrengthStep
<1>2. CASE NoMorePolicies
  BY <1>0, <1>2, StrengthStep DEF NoMorePolicies, searchVars
<1>3. CASE Judge
  <2>1. stack' = <<>> /\ UNCHANGED <<asserts, result>> /\ pc' # "search"
    BY <1>3 DEF Judge, searchVars
  <2>2. BoundedBy(stack', result')
    BY <2>1 DEF BoundedBy
  <2>3. QED BY <2>1, <2>2, StrengthStep
<1>4. CASE NextKey
  <2>1. pc = "search" /\ stack # <<>>
    BY <1>4 DEF NextKey, AtAKey, Searching
  <2>2. BoundedBy(AtNextKey, result) /\ PolicyLast(AtNextKey, kresult, policy)
    BY <1>0, <2>1, FrameFacts, MovedStack DEF AtNextKey, PolicyLast
  <2>3. QED BY <1>0, <1>4, <2>1, <2>2, StrengthStep DEF NextKey
<1>5. CASE SkipAssertion
  <2>1. pc = "search" /\ stack # <<>>
    BY <1>5 DEF SkipAssertion, AtAnAssertion, AtAKey, Searching
  <2>2. [frame EXCEPT !.num = @ + 1].as = frame.as
    BY <1>0, <2>1, FrameFacts DEF Frame
  <2>3. /\ BoundedBy(AtNextAssertion, result)
        /\ PolicyLast(AtNextAssertion, kresult, policy)
    BY <1>0, <2>1, <2>2, FrameFacts, MovedStack DEF AtNextAssertion, PolicyLast
  <2>4. QED BY <1>0, <1>5, <2>1, <2>3, StrengthStep DEF SkipAssertion
<1>6. CASE Recurse
  <2>1. pc = "search" /\ stack # <<>>
    BY <1>6 DEF Recurse, AtAnAssertion, AtAKey, Searching
  <2>2. [frame EXCEPT !.num = @ + 1].as = frame.as
    BY <1>0, <2>1, FrameFacts DEF Frame
  <2>3. /\ BoundedBy(AtNextAssertion, result) /\ AtNextAssertion # <<>>
        /\ AtNextAssertion[Len(AtNextAssertion)].as = policy
    BY <1>0, <2>1, <2>2, FrameFacts, MovedStack DEF AtNextAssertion
  <2>4. PICK a \in found : Enter(a, AtNextAssertion)
    BY <1>6 DEF Recurse
  <2>5. a \in Id /\ policy \in Id /\ AtNextAssertion \in Seq(Frame)
    BY <1>0, <2>1, <2>4, FrameFacts DEF found, Find, AssertionsBy
  <2>6. BoundedBy(stack', result') /\ PolicyLast(stack', kresult', policy)
    BY <2>3, <2>4, <2>5, EnteredStack
  <2>7. QED BY <1>0, <1>6, <2>1, <2>6, StrengthStep DEF Recurse
<1>7. CASE Finish
  <2>1. pc = "search" /\ stack # <<>> /\ frame.as \in Id
    BY <1>0, <1>7, FrameFacts DEF Finish, Searching
  <2>2. /\ stack' = Tail(stack) /\ UNCHANGED <<asserts, pc, policy>>
        /\ kresult' = [kresult EXCEPT ![frame.as] = "done"]
        /\ result' = [result EXCEPT ![frame.as] =
               IF Trusted(frame.as) THEN Minimum(@, Keypred(frame.as)) ELSE 0]
    BY <1>7 DEF Finish
  <2>3. \A b \in Id : result'[b] \in Nat /\ result'[b] <= result[b]
    <3>1. SUFFICES ASSUME NEW b \in Id
                   PROVE  result'[b] \in Nat /\ result'[b] <= result[b]
      OBVIOUS
    <3>2. result[b] \in Value /\ result[b] \in Nat
      BY <1>0, ValueFacts
    <3>3. Keypred(frame.as) \in Value
      BY KeypredIsHad
    <3>4. /\ Minimum(result[b], Keypred(frame.as)) \in Nat
          /\ Minimum(result[b], Keypred(frame.as)) <= result[b]
      BY <3>2, <3>3, ValueFacts
    <3>5. CASE b = frame.as /\ Trusted(b)
      BY <1>0, <2>2, <3>4, <3>5
    <3>6. CASE b = frame.as /\ ~ Trusted(b)
      BY <1>0, <2>2, <3>2, <3>6
    <3>7. CASE b # frame.as
      BY <1>0, <2>2, <3>2, <3>7
    <3>8. QED BY <3>5, <3>6, <3>7
  <2>4. BoundedBy(stack', result')
    <3>1. SUFFICES ASSUME NEW i \in DOMAIN Tail(stack)
                   PROVE  result'[Tail(stack)[i].as]
                              <= asserts[Tail(stack)[i].as].cond
      BY <2>2 DEF BoundedBy
    <3>2. i + 1 \in DOMAIN stack /\ Tail(stack)[i] = stack[i + 1]
      BY <1>0, <2>1, StackFacts
    <3>3. stack[i + 1].as \in Id
      <4>1. stack[i + 1] \in Frame
        BY <1>0, <2>1, <3>2, StackFacts
      <4>2. QED BY <4>1 DEF Frame
    <3>4. result[stack[i + 1].as] <= asserts[stack[i + 1].as].cond
      BY <1>0, <3>2 DEF BoundedBy
    <3>5. asserts[stack[i + 1].as].cond \in Nat
          /\ result[stack[i + 1].as] \in Nat
      BY <1>0, <3>3, AssertionFields, ValueFacts DEF SearchTypeOK
    <3>6. /\ result'[stack[i + 1].as] \in Nat
          /\ result'[stack[i + 1].as] <= result[stack[i + 1].as]
      BY <2>3, <3>3
    <3>7. QED BY <3>2, <3>4, <3>5, <3>6
  <2>5. PolicyLast(stack', kresult', policy)
    <3>1. stack[Len(stack)].as = policy
      BY <1>0, <2>1 DEF PolicyLast
    <3>2. /\ Len(stack) \in Nat \ {0} /\ Len(Tail(stack)) = Len(stack) - 1
          /\ \A i \in 1 .. Len(stack) - 1 : Tail(stack)[i] = stack[i + 1]
      BY <1>0, <2>1, StackFacts
    <3>3. CASE Tail(stack) = <<>>
      <4>1. Len(stack) = 1
        BY <3>2, <3>3
      <4>2. frame.as = policy
        BY <3>1, <4>1 DEF frame
      <4>3. kresult'[policy] = "done"
        BY <2>1, <2>2, <4>2 DEF SearchTypeOK
      <4>4. QED BY <2>2, <3>3, <4>3 DEF PolicyLast
    <3>4. CASE Tail(stack) # <<>>
      <4>1. Len(Tail(stack)) # 0
        BY <1>0, <2>1, <3>4, StackFacts, EmptySeq
      <4>2. Tail(stack)[Len(Tail(stack))] = stack[Len(stack)]
        BY <3>2, <4>1
      <4>3. QED BY <2>2, <3>1, <3>4, <4>2 DEF PolicyLast
    <3>5. QED BY <3>3, <3>4
  <2>6. QED BY <1>0, <2>1, <2>2, <2>4, <2>5, StrengthStep
<1>8. CASE UNCHANGED vars
  BY <1>0, <1>8, StrengthStep DEF vars, searchVars
<1>9. QED
  BY <1>1, <1>2, <1>3, <1>4, <1>5, <1>6, <1>7, <1>8 DEF Next

-------------------------------------------------------------------------------
\* What the assertions mean does not change, so that it is enough to follow
\* a closed set through a step.
LEMMA FoundedStep ==
    ASSUME Founded, UNCHANGED asserts,
           \A v \in Value \ {0} : \A U \in SUBSET Id :
               Closed(v, U) /\ Have(v) \subseteq U =>
                   /\ Have(v)' \subseteq U
                   /\ prev' >= v =>
                          \/ prev >= v
                          \/ \E a \in AssertionsBy(POLICY) \intersect U :
                                 asserts[a].local
    PROVE  Founded'
<1>1. Id' = Id /\ \A p : AssertionsBy(p)' = AssertionsBy(p)
  BY DEF AssertionsBy, Id
<1>2. \A v, U : Closed(v, U)' <=> Closed(v, U)
  BY <1>1 DEF Closed, Worth, Trusted
<1>3. SUFFICES ASSUME NEW v \in Value \ {0}, NEW U \in SUBSET Id, Closed(v, U)
               PROVE  /\ Have(v)' \subseteq U
                      /\ prev' >= v =>
                             \E a \in AssertionsBy(POLICY) \intersect U :
                                 asserts[a].local
  BY <1>1, <1>2 DEF Founded
<1>4. /\ Have(v) \subseteq U
      /\ prev >= v => \E a \in AssertionsBy(POLICY) \intersect U :
                          asserts[a].local
  BY <1>3 DEF Founded
<1>5. QED BY <1>3, <1>4

\* Entering an assertion gives none a value.
LEMMA EnterGivesNothing ==
    ASSUME SearchTypeOK, NEW a \in Id, NEW below, Enter(a, below),
           UNCHANGED asserts, NEW v \in Value \ {0}
    PROVE  Have(v)' \subseteq Have(v)
<1>1. SUFFICES ASSUME NEW b \in Id, kresult'[b] = "done", result'[b] >= v
               PROVE  kresult[b] = "done" /\ result[b] >= v
  BY DEF Have, Id
<1>2. CASE b # a
  BY <1>1, <1>2 DEF Enter, SearchTypeOK
<1>3. CASE b = a
  <2>1. result'[b] = asserts[a].cond
    BY <1>3 DEF Enter, SearchTypeOK
  <2>2. v \in Nat /\ v # 0
    BY ValueFacts
  <2>3. asserts[a].cond = 0
    BY <1>1, <1>3 DEF Enter, SearchTypeOK
  <2>4. QED BY <1>1, <2>1, <2>2, <2>3
<1>4. QED BY <1>2, <1>3

\* A value that Finish gives is backed by those given before.
LEMMA FinishIsWorth ==
    ASSUME SearchTypeOK, Strength, Finish, NEW v \in Value \ {0},
           NEW U \in SUBSET Id, Closed(v, U), Have(v) \subseteq U
    PROVE  Have(v)' \subseteq U
<1>1. SUFFICES ASSUME NEW b \in Id, kresult'[b] = "done", result'[b] >= v
               PROVE  b \in U
  <2>1. UNCHANGED asserts
    BY DEF Finish
  <2>2. QED BY <2>1 DEF Have, Id
<1>2. stack \in Seq(Frame) /\ stack # <<>> /\ frame.as \in Id
      /\ v \in Nat /\ v # 0
  BY FrameFacts, ValueFacts DEF Finish, Searching, SearchTypeOK
<1>3. CASE b # frame.as
  <2>1. kresult[b] = "done" /\ result[b] >= v
    BY <1>1, <1>2, <1>3 DEF Finish, SearchTypeOK
  <2>2. QED BY <2>1 DEF Have
<1>4. CASE b = frame.as
  <2>1. result'[b] = IF Trusted(b) THEN Minimum(result[b], Keypred(b)) ELSE 0
    BY <1>2, <1>4 DEF Finish, SearchTypeOK
  <2>2. Trusted(b)
    BY <1>1, <1>2, <2>1
  <2>3. /\ result[b] \in Value /\ result[b] \in Nat
        /\ Keypred(b) \in Value /\ Keypred(b) \in Nat
    BY KeypredIsHad, ValueFacts DEF SearchTypeOK
  <2>4. result[b] >= v /\ Keypred(b) >= v
    BY <1>1, <1>2, <2>1, <2>2, <2>3 DEF Minimum
  <2>5. asserts[b].cond >= v
    <3>1. 1 \in DOMAIN stack
      BY <1>2, StackFacts
    <3>2. result[b] <= asserts[b].cond
      BY <1>4, <3>1 DEF Strength, frame
    <3>3. asserts[b].cond \in Nat
      BY AssertionFields, ValueFacts DEF SearchTypeOK
    <3>4. QED BY <1>2, <2>3, <2>4, <3>2, <3>3
  <2>6. PICK S \in asserts[b].lics : \A p \in S : KeyHas(p, Keypred(b))
    BY <1>2, <2>3, <2>4, KeypredIsHad
  <2>7. \A p \in S : InAuthorizers(p) \/ AssertionsBy(p) \intersect U # {}
    <3>1. SUFFICES ASSUME NEW p \in S, ~ InAuthorizers(p)
                   PROVE  AssertionsBy(p) \intersect U # {}
      OBVIOUS
    <3>2. PICK c \in AssertionsBy(p) :
              kresult[c] = "done" /\ result[c] >= Keypred(b)
      BY <1>2, <2>3, <2>4, <2>6, <3>1 DEF KeyHas
    <3>3. c \in Id
      BY <3>2 DEF AssertionsBy
    <3>4. result[c] \in Nat
      BY <3>3, ValueFacts DEF SearchTypeOK
    <3>5. result[c] >= v
      BY <1>2, <2>3, <2>4, <3>2, <3>4
    <3>6. c \in U
      BY <3>2, <3>3, <3>5 DEF Have
    <3>7. QED BY <3>2, <3>6
  <2>8. Worth(b, v, U)
    BY <2>2, <2>5, <2>7 DEF Worth
  <2>9. QED BY <2>8 DEF Closed
<1>5. QED BY <1>3, <1>4

\* No step gives an assertion or the query a value without grounds.
LEMMA NextFounded ==
    SearchTypeOK /\ Strength /\ Founded /\ [Next]_vars => Founded'
<1> SUFFICES ASSUME SearchTypeOK, Strength, Founded, [Next]_vars
             PROVE  Founded'
  OBVIOUS
<1>1. CASE NextPolicy
  <2>1. PICK a \in AssertionsBy(POLICY) : Enter(a, <<>>)
    BY <1>1 DEF NextPolicy
  <2>2. a \in Id
    BY <2>1 DEF AssertionsBy
  <2>3. UNCHANGED <<asserts, prev>>
    BY <1>1 DEF NextPolicy
  <2>4. \A v \in Value \ {0} : Have(v)' \subseteq Have(v)
    BY <2>1, <2>2, <2>3, EnterGivesNothing
  <2>5. QED BY <2>3, <2>4, FoundedStep
<1>2. CASE \/ NoMorePolicies \/ NextKey \/ SkipAssertion \/ UNCHANGED vars
  <2>1. UNCHANGED <<asserts, kresult, result, prev>>
    BY <1>2 DEF NoMorePolicies, NextKey, SkipAssertion, vars, searchVars
  <2>2. \A v : Have(v)' = Have(v)
    BY <2>1 DEF Have, Id
  <2>3. QED BY <2>1, <2>2, FoundedStep
<1>3. CASE Judge
  <2>1. /\ policy \in AssertionsBy(POLICY) /\ policy \in Id
        /\ asserts[policy].local /\ kresult[policy] = "done"
    BY <1>3 DEF Judge, Strength, AssertionsBy
  <2>2. UNCHANGED <<asserts, kresult, result>>
    BY <1>3 DEF Judge, searchVars
  <2>3. \A v : Have(v)' = Have(v)
    BY <2>2 DEF Have, Id
  <2>4. prev' = 0 \/ prev' = result[policy] \/ prev' = prev
    BY <1>3 DEF Judge
  <2>5. ASSUME NEW v \in Value \ {0}, NEW U \in SUBSET Id, Have(v) \subseteq U,
               prev' >= v
        PROVE  \/ prev >= v
               \/ \E a \in AssertionsBy(POLICY) \intersect U : asserts[a].local
    <3>1. v \in Nat /\ v # 0
      BY ValueFacts
    <3>2. CASE prev' = result[policy]
      <4>1. policy \in Have(v)
        BY <2>1, <2>5, <3>2 DEF Have
      <4>2. QED BY <2>1, <2>5, <4>1
    <3>3. QED BY <2>4, <2>5, <3>1, <3>2
  <2>6. QED BY <2>2, <2>3, <2>5, FoundedStep
<1>4. CASE Recurse
  <2>1. PICK a \in found : Enter(a, AtNextAssertion)
    BY <1>4 DEF Recurse
  <2>2. a \in Id
    BY <2>1 DEF found, Find, AssertionsBy
  <2>3. UNCHANGED <<asserts, prev>>
    BY <1>4 DEF Recurse
  <2>4. \A v \in Value \ {0} : Have(v)' \subseteq Have(v)
    BY <2>1, <2>2, <2>3, EnterGivesNothing
  <2>5. QED BY <2>3, <2>4, FoundedStep
<1>5. CASE Finish
  <2>1. UNCHANGED <<asserts, prev>>
    BY <1>5 DEF Finish
  <2>2. QED BY <1>5, <2>1, FinishIsWorth, FoundedStep
<1>6. QED BY <1>1, <1>2, <1>3, <1>4, <1>5 DEF Next

-------------------------------------------------------------------------------
\* No result is there at the start.
LEMMA InitInv == Init => IInv
<1> SUFFICES ASSUME Init PROVE IInv
  OBVIOUS
<1>1. SearchTypeOK
  BY InitType
<1>2. Strength
  BY DEF Init, Strength
<1>3. Founded
  <2>1. \A v : Have(v) = {}
    BY DEF Have, Init
  <2>2. \A v \in Value \ {0} : ~ (prev >= v)
    BY ValueFacts DEF Init
  <2>3. QED BY <2>1, <2>2 DEF Founded
<1>4. QED BY <1>1, <1>2, <1>3 DEF IInv

\* The inductive invariant: types, the stack, and no value without grounds.
THEOREM Invariance == Spec => []IInv
<1>1. IInv /\ [Next]_vars => IInv'
  BY NextType, NextStrength, NextFounded DEF IInv
<1>2. QED BY <1>1, InitInv, PTL DEF Spec

\* Each variable of the search, and the answer, is what it is meant to be:
\* in particular no index of a licensee or an assertion runs wild.
THEOREM SearchIsTyped == Spec => []SearchTypeOK
<1>1. IInv => SearchTypeOK
  BY DEF IInv
<1>2. QED BY <1>1, Invariance, PTL

\* rec_evaluate_query gives no assertion, and keynote_evaluate_query no
\* query, a value that is not backed by conditions, signatures and licensees
\* down to the keys that ask, whatever cycles the assertions form and in
\* whatever order the tables have them.
THEOREM ValuesAreFounded == Spec => []Founded
<1>1. IInv => Founded
  BY DEF IInv
<1>2. QED BY <1>1, Invariance, PTL

-------------------------------------------------------------------------------
(***************************************************************************)
(* That the search gives every assertion its right value where the         *)
(* assertions have no cycles: in an order that is right for any number of  *)
(* them.                                                                   *)
(***************************************************************************)
\* The place of an assertion in the list that its authorizer has.
Rank(b) == Cardinality({c \in AssertionsBy(asserts[b].auth) : c < b})

\* A frame has come past the assertions of the keys before its own, and past
\* the first num assertions of that: they have a value or wait for one.
LookedAt(f, kr) ==
    \A k \in DOMAIN asserts[f.as].keys :
        LET p == asserts[f.as].keys[k]
        IN  \A b \in AssertionsBy(p) :
                (k < f.key \/ (k = f.key /\ Rank(b) < f.num))
                    => InAuthorizers(p) \/ kr[b] # "untouched"

\* The frames of a stack: each assertion depends on the one above it, has the
\* value of its conditions, and is there once, as are all that are in progress.
OnStack(s, kr, res) ==
    /\ \A i \in DOMAIN s :
           /\ kr[s[i].as] = "in progress"
           /\ res[s[i].as] = asserts[s[i].as].cond
           /\ i > 1 => s[i - 1].as \in DependsOn(s[i].as)
    /\ \A i, j \in DOMAIN s : s[i].as = s[j].as => i = j
    /\ \A b \in Id : kr[b] = "in progress" => \E i \in DOMAIN s : s[i].as = b

Frames(s, kr, res) ==
    OnStack(s, kr, res) /\ \A i \in DOMAIN s : LookedAt(s[i], kr)

\* What an assertion depends on is done when it is, unless the value of its
\* conditions settles the matter, or the key is one of those that ask.
DoneFirst ==
    \A a \in Id : kresult[a] = "done" /\ asserts[a].cond # 0 =>
        \A b \in DependsOn(a) :
            InAuthorizers(asserts[b].auth) \/ kresult[b] = "done"

\* No assertion of POLICY is evaluated before it is its turn.
PoliciesInTurn ==
    \A b \in AssertionsBy(POLICY) : kresult[b] # "untouched" => b <= policy

SInv == Acyclic => /\ Frames(stack, kresult, result)
                   /\ DoneFirst /\ PoliciesInTurn /\ Settled

-------------------------------------------------------------------------------
(***************************************************************************)
(* The ranks of the assertions of one authorizer have no gap.              *)
(***************************************************************************)
LEMMA LeastNatural ==
    ASSUME NEW S \in SUBSET Nat, S # {}
    PROVE  \E x \in S : \A y \in S : x <= y
<1> DEFINE R == {ss \in Nat \X Nat : ss[1] < ss[2]}
<1>1. R = OpToRel(<, Nat)
  BY DEF OpToRel
<1>2. IsWellFoundedOn(R, Nat)
  BY <1>1, NatLessThanWellFounded
<1>3. PICK z \in S : \A y \in S : ~ (<<y, z>> \in R)
  <2> HIDE DEF R
  <2> QED BY <1>2, WFMin
<1>4. \A y \in S : z <= y
  <2>1. SUFFICES ASSUME NEW y \in S PROVE z <= y
    OBVIOUS
  <2>2. ~ (<<y, z>> \in R) /\ y \in Nat /\ z \in Nat
    BY <1>3
  <2>3. QED BY <2>2
<1>5. QED BY <1>4

\* The greatest of a set of naturals below n.
LEMMA GreatestBelow ==
    ASSUME NEW n \in Nat, NEW S \in SUBSET Nat, S # {}, \A x \in S : x < n
    PROVE  \E x \in S : \A y \in S : y <= x
<1> DEFINE T == {n - x : x \in S}
<1>1. T \in SUBSET Nat /\ T # {}
  <2>1. \A x \in S : n - x \in Nat
    OBVIOUS
  <2>2. QED BY <2>1
<1>2. PICK z \in T : \A y \in T : z <= y
  <2> HIDE DEF T
  <2> QED BY <1>1, LeastNatural
<1>3. PICK x \in S : z = n - x
  OBVIOUS
<1>4. \A y \in S : y <= x
  <2>1. SUFFICES ASSUME NEW y \in S PROVE y <= x
    OBVIOUS
  <2>2. z <= n - y
    BY <1>2
  <2>3. QED BY <1>3, <2>2
<1>5. QED BY <1>4

Before(p, n) == {c \in AssertionsBy(p) : c < n}

\* The assertions before one in its chain are finitely many.
LEMMA BeforeFacts ==
    ASSUME asserts \in Seq(Assertion), NEW p, NEW n
    PROVE  /\ AssertionsBy(p) \in SUBSET Nat
           /\ IsFiniteSet(Before(p, n)) /\ Cardinality(Before(p, n)) \in Nat
<1>1. Id = 1 .. Len(asserts) /\ Len(asserts) \in Nat
  BY LenProperties DEF Id
<1>2. IsFiniteSet(Id)
  BY <1>1, FS_Interval
<1>3. Before(p, n) \in SUBSET Id
  BY DEF Before, AssertionsBy
<1>4. QED BY <1>1, <1>2, <1>3, FS_Subset, FS_CardinalityType DEF AssertionsBy

\* The next one of the list has the next rank.
LEMMA RankOfNext ==
    ASSUME asserts \in Seq(Assertion), NEW p,
           NEW a \in AssertionsBy(p), NEW b \in AssertionsBy(p), a < b,
           \A c \in Before(p, b) : c <= a
    PROVE  Cardinality(Before(p, b)) = Cardinality(Before(p, a)) + 1
<1>1. Before(p, b) = Before(p, a) \cup {a} /\ a \notin Before(p, a)
  <2>1. AssertionsBy(p) \in SUBSET Nat
    BY BeforeFacts
  <2>2. \A c \in AssertionsBy(p) : c < b <=> c < a \/ c = a
    BY <2>1 DEF Before
  <2>3. ~ (a < a)
    BY <2>1
  <2>4. QED BY <2>2, <2>3 DEF Before
<1>2. IsFiniteSet(Before(p, a))
  BY BeforeFacts
<1>3. Cardinality(Before(p, a) \cup {a}) = Cardinality(Before(p, a)) + 1
  BY <1>1, <1>2, FS_AddElement
<1>4. QED BY <1>1, <1>3

\* A later assertion of a chain has a greater rank.
LEMMA RankIsStrict ==
    ASSUME asserts \in Seq(Assertion), NEW p,
           NEW a \in AssertionsBy(p), NEW b \in AssertionsBy(p), a < b
    PROVE  Cardinality(Before(p, a)) < Cardinality(Before(p, b))
<1>1. /\ Before(p, a) \cup {a} \in SUBSET Before(p, b)
      /\ a \notin Before(p, a)
  <2>1. AssertionsBy(p) \in SUBSET Nat
    BY BeforeFacts
  <2>2. \A c \in AssertionsBy(p) : c < a => c < b
    BY <2>1
  <2>3. ~ (a < a)
    BY <2>1
  <2>4. QED BY <2>2, <2>3 DEF Before
<1>2. /\ IsFiniteSet(Before(p, a)) /\ IsFiniteSet(Before(p, b))
      /\ Cardinality(Before(p, a)) \in Nat /\ Cardinality(Before(p, b)) \in Nat
  BY BeforeFacts
<1>3. Cardinality(Before(p, a) \cup {a}) = Cardinality(Before(p, a)) + 1
  BY <1>1, <1>2, FS_AddElement
<1>4. Cardinality(Before(p, a) \cup {a}) <= Cardinality(Before(p, b))
  BY <1>1, <1>2, FS_Subset
<1>5. QED BY <1>2, <1>3, <1>4

\* The rank of an assertion in the chain of its authorizer.
LEMMA RankIsBefore ==
    ASSUME NEW p, NEW b \in AssertionsBy(p)
    PROVE  b \in Id /\ asserts[b].auth = p
           /\ Rank(b) = Cardinality(Before(p, b))
BY DEF Rank, Before, AssertionsBy

\* keynote_find_assertion finds by rank.
LEMMA FindIsRank ==
    ASSUME NEW p, NEW n
    PROVE  Find(p, n) = {b \in AssertionsBy(p) : Rank(b) = n}
BY RankIsBefore DEF Find, Before

\* keynote_find_assertion finds none when, and only when, it has gone over all.
LEMMA NoneFoundAtTheEnd ==
    ASSUME asserts \in Seq(Assertion), NEW p, NEW n \in Nat, Find(p, n) = {},
           NEW b \in AssertionsBy(p)
    PROVE  Rank(b) < n
<1>1. SUFFICES ASSUME ~ (Rank(b) < n) PROVE FALSE
  OBVIOUS
<1> DEFINE S == {c \in AssertionsBy(p) : Rank(c) >= n}
<1>2. \A c \in AssertionsBy(p) : Rank(c) \in Nat /\ c \in Nat
  BY RankIsBefore, BeforeFacts
<1>3. S \in SUBSET Nat /\ S # {}
  BY <1>1, <1>2
<1>4. PICK c \in S : \A d \in S : c <= d
  <2> HIDE DEF S
  <2> QED BY <1>3, LeastNatural
<1>5. c \in AssertionsBy(p) /\ Rank(c) >= n /\ Rank(c) # n
  BY FindIsRank
<1>6. Before(p, c) # {} /\ Before(p, c) \in SUBSET Nat
  <2>1. Cardinality(Before(p, c)) # 0
    BY <1>2, <1>5, RankIsBefore
  <2>2. QED BY <1>2, <2>1, FS_EmptySet DEF Before
<1>7. PICK d \in Before(p, c) : \A e \in Before(p, c) : e <= d
  <2>1. \A e \in Before(p, c) : e < c
    BY DEF Before
  <2>2. c \in Nat
    BY <1>2, <1>5
  <2>3. QED BY <1>6, <2>1, <2>2, GreatestBelow
<1>8. d \in AssertionsBy(p) /\ d < c
  BY <1>7 DEF Before
<1>9. Cardinality(Before(p, c)) = Cardinality(Before(p, d)) + 1
  BY <1>5, <1>7, <1>8, RankOfNext
<1>10. Rank(c) = Rank(d) + 1
  BY <1>5, <1>8, <1>9, RankIsBefore
<1>11. Rank(d) >= n
  BY <1>2, <1>5, <1>8, <1>10
<1>12. c <= d
  BY <1>4, <1>8, <1>11
<1>13. QED BY <1>2, <1>5, <1>8, <1>12

\* And it finds one at most.
LEMMA OneIsFound ==
    ASSUME asserts \in Seq(Assertion), NEW p, NEW n,
           NEW a \in Find(p, n), NEW b \in Find(p, n)
    PROVE  a = b
<1>1. /\ a \in AssertionsBy(p) /\ b \in AssertionsBy(p)
      /\ Cardinality(Before(p, a)) = Cardinality(Before(p, b))
  BY FindIsRank, RankIsBefore
<1>2. /\ a \in Nat /\ b \in Nat
      /\ Cardinality(Before(p, a)) \in Nat /\ Cardinality(Before(p, b)) \in Nat
  BY <1>1, BeforeFacts
<1>3. ~ (a < b) /\ ~ (b < a)
  BY <1>1, <1>2, RankIsStrict
<1>4. QED BY <1>2, <1>3

-------------------------------------------------------------------------------
(***************************************************************************)
(* The operations on the stack.                                            *)
(***************************************************************************)
\* Assertions are not forgotten.
LEMMA LookedAtStays ==
    ASSUME NEW f, NEW kr, NEW kr2, LookedAt(f, kr),
           \A b \in Id : kr[b] # "untouched" => kr2[b] # "untouched"
    PROVE  LookedAt(f, kr2)
<1>1. \A p : \A b \in AssertionsBy(p) : b \in Id
  BY DEF AssertionsBy
<1>2. QED BY <1>1 DEF LookedAt

\* The assertions of the stack.
LEMMA StackIds ==
    ASSUME NEW I, NEW s \in Seq([as : I, key : Nat \ {0}, num : Nat]),
           NEW i \in DOMAIN s
    PROVE  s[i].as \in I /\ i \in Nat \ {0}
<1> DEFINE F == [as : I, key : Nat \ {0}, num : Nat]
<1>1. DOMAIN s = 1 .. Len(s) /\ Len(s) \in Nat
  BY LenProperties
<1>2. s \in Seq(F)
  OBVIOUS
<1>3. s[i] \in F
  <2> HIDE DEF F
  <2> QED BY <1>1, <1>2, ElementOfSeq
<1>4. QED BY <1>1, <1>3

\* A frame that goes on with its assertion keeps the stack in order.
LEMMA OnStackMoved ==
    ASSUME stack \in Seq(Frame), stack # <<>>,
           NEW f \in Frame, f.as = frame.as, NEW kr, NEW res,
           OnStack(stack, kr, res)
    PROVE  OnStack([stack EXCEPT ![1] = f], kr, res)
<1> DEFINE s == [stack EXCEPT ![1] = f]
<1>1. DOMAIN s = DOMAIN stack /\ DOMAIN stack = 1 .. Len(stack)
      /\ Len(stack) \in Nat \ {0}
  BY StackFacts
<1>2. \A i \in DOMAIN stack : s[i].as = stack[i].as
  BY <1>1 DEF frame
<1>3. OnStack(s, kr, res)
  <2> HIDE DEF s
  <2>1. \A i \in DOMAIN s : i > 1 => i - 1 \in DOMAIN stack
    BY <1>1
  <2>2. QED BY <1>1, <1>2, <2>1, ZenonT(60) DEF OnStack
<1>4. QED BY <1>3

\* So does a new frame.
LEMMA OnStackEntered ==
    ASSUME SearchTypeOK, NEW a \in Id, NEW s \in Seq(Frame),
           \A i \in DOMAIN s : s[i].as # a, OnStack(s, kresult, result),
           Enter(a, s), s # <<>> => a \in DependsOn(s[1].as)
    PROVE  OnStack(stack', kresult', result')
<1> DEFINE f == [as |-> a, key |-> 1, num |-> 0]
<1>1. /\ Len(s) \in Nat /\ DOMAIN s = 1 .. Len(s)
      /\ \A i \in DOMAIN s : s[i].as \in Id
  BY LenProperties, StackIds DEF Frame
<1>2. \A i \in DOMAIN s : /\ kresult[s[i].as] = "in progress" /\ s[i].as # a
                          /\ result[s[i].as] = asserts[s[i].as].cond
  BY DEF OnStack
<1>2a. \A i, j \in DOMAIN s : s[i].as = s[j].as => i = j
  BY DEF OnStack
<1>3. /\ result'[a] = asserts[a].cond
      /\ \A b \in Id \ {a} : result'[b] = result[b] /\ kresult'[b] = kresult[b]
  BY DEF Enter, SearchTypeOK
<1>4. CASE asserts[a].cond = 0
  <2>1. stack' = s /\ kresult'[a] = "done"
    BY <1>4 DEF Enter, SearchTypeOK
  <2>2. QED BY <1>1, <1>2, <1>3, <2>1, ZenonT(60) DEF OnStack
<1>5. CASE asserts[a].cond # 0
  <2>1. stack' = <<f>> \o s /\ kresult'[a] = "in progress"
    BY <1>5 DEF Enter, SearchTypeOK
  <2>1a. f \in Frame
    BY DEF Frame
  <2>2. /\ DOMAIN stack' = 1 .. Len(s) + 1
        /\ \A i \in 1 .. Len(s) + 1 :
               stack'[i] = IF i = 1 THEN f ELSE s[i - 1]
    <3> HIDE DEF f
    <3>1. /\ DOMAIN (<<f>> \o s) = 1 .. Len(s) + 1
          /\ \A i \in 1 .. Len(s) + 1 :
                 (<<f>> \o s)[i] = IF i = 1 THEN f ELSE s[i - 1]
      BY <2>1a, PushFacts
    <3>2. QED BY <2>1, <3>1
  <2>3. /\ stack'[1].as = a /\ 1 \in DOMAIN stack'
        /\ \A i \in DOMAIN stack' : i # 1 =>
               i - 1 \in DOMAIN s /\ stack'[i].as = s[i - 1].as
    BY <1>1, <2>2
  <2>4. ASSUME NEW i \in DOMAIN stack'
        PROVE  /\ kresult'[stack'[i].as] = "in progress"
               /\ result'[stack'[i].as] = asserts[stack'[i].as].cond
    <3>1. CASE i = 1
      BY <1>3, <2>1, <2>3, <3>1
    <3>2. CASE i # 1
      <4>1. i - 1 \in DOMAIN s /\ stack'[i].as = s[i - 1].as
        BY <2>3, <3>2
      <4>2. s[i - 1].as \in Id \ {a}
        BY <1>1, <1>2, <4>1
      <4>3. QED BY <1>2, <1>3, <4>1, <4>2, ZenonT(60)
    <3>3. QED BY <3>1, <3>2
  <2>5. ASSUME NEW i \in DOMAIN stack', i > 1
        PROVE  stack'[i - 1].as \in DependsOn(stack'[i].as)
    <3>1. i # 1 /\ i - 1 \in DOMAIN s /\ stack'[i].as = s[i - 1].as
          /\ i - 1 \in DOMAIN stack'
      BY <1>1, <2>2, <2>3, <2>5
    <3>2. CASE i - 1 = 1
      <4>1. s # <<>>
        BY <1>1, <3>1, EmptySeq
      <4>2. QED BY <2>3, <3>1, <3>2, <4>1
    <3>3. CASE i - 1 # 1
      <4>1. stack'[i - 1].as = s[(i - 1) - 1].as
        BY <2>3, <3>1, <3>3
      <4>1a. i - 1 > 1
        BY <1>1, <2>2, <3>1, <3>3
      <4>2. QED BY <3>1, <4>1, <4>1a DEF OnStack
    <3>4. QED BY <3>2, <3>3
  <2>6. ASSUME NEW i \in DOMAIN stack', NEW j \in DOMAIN stack',
               stack'[i].as = stack'[j].as
        PROVE  i = j
    <3>1. CASE i = 1 \/ j = 1
      BY <1>2, <2>3, <2>6, <3>1, ZenonT(60)
    <3>2. CASE i # 1 /\ j # 1
      <4>1. i - 1 = j - 1
        BY <1>2a, <2>3, <2>6, <3>2
      <4>2. QED BY <1>1, <2>2, <4>1
    <3>3. QED BY <3>1, <3>2
  <2>7. ASSUME NEW b \in Id, kresult'[b] = "in progress"
        PROVE  \E i \in DOMAIN stack' : stack'[i].as = b
    <3>1. CASE b = a
      BY <2>3, <3>1
    <3>2. CASE b # a
      <4>1. PICK i \in DOMAIN s : s[i].as = b
        BY <1>3, <2>7, <3>2 DEF OnStack
      <4>2. i + 1 \in DOMAIN stack' /\ i + 1 # 1 /\ (i + 1) - 1 = i
        BY <1>1, <2>2
      <4>3. stack'[i + 1].as = s[i].as
        BY <2>3, <4>2
      <4>4. QED BY <4>1, <4>2, <4>3
    <3>3. QED BY <3>1, <3>2
  <2>8. QED BY <2>4, <2>5, <2>6, <2>7 DEF OnStack
<1>6. QED BY <1>4, <1>5

\* So does a frame that is left.
LEMMA OnStackLeft ==
    ASSUME SearchTypeOK, OnStack(stack, kresult, result), Finish
    PROVE  OnStack(stack', kresult', result')
<1>1. /\ stack \in Seq(Frame) /\ stack # <<>> /\ frame.as \in Id
      /\ stack' = Tail(stack)
      /\ kresult' = [kresult EXCEPT ![frame.as] = "done"]
      /\ \A b \in Id \ {frame.as} : result'[b] = result[b]
  BY FrameFacts DEF SearchTypeOK, Finish, Searching
<1>2. /\ Len(stack) \in Nat \ {0} /\ DOMAIN stack = 1 .. Len(stack)
      /\ DOMAIN Tail(stack) = 1 .. Len(stack) - 1
      /\ \A i \in DOMAIN Tail(stack) : Tail(stack)[i] = stack[i + 1]
      /\ \A i \in DOMAIN stack : stack[i].as \in Id
  BY <1>1, StackFacts, StackIds DEF Frame
<1>3. \A i \in DOMAIN stack' : i + 1 \in DOMAIN stack /\ i + 1 # 1
      /\ stack'[i].as = stack[i + 1].as /\ stack[i + 1].as # frame.as
  <2>1. SUFFICES ASSUME NEW i \in DOMAIN stack'
                 PROVE  i + 1 \in DOMAIN stack /\ i + 1 # 1
                        /\ stack'[i].as = stack[i + 1].as
                        /\ stack[i + 1].as # frame.as
    OBVIOUS
  <2>2. i + 1 \in DOMAIN stack /\ i + 1 # 1 /\ 1 \in DOMAIN stack
        /\ stack'[i].as = stack[i + 1].as
    BY <1>1, <1>2
  <2>3. QED BY <2>2 DEF OnStack, frame
<1>4. /\ \A b \in Id \ {frame.as} : kresult'[b] = kresult[b]
      /\ kresult'[frame.as] = "done"
  BY <1>1 DEF SearchTypeOK
<1>5. ASSUME NEW i \in DOMAIN stack'
      PROVE  /\ kresult'[stack'[i].as] = "in progress"
             /\ result'[stack'[i].as] = asserts[stack'[i].as].cond
  <2>1. /\ i + 1 \in DOMAIN stack /\ stack'[i].as = stack[i + 1].as
        /\ stack[i + 1].as \in Id \ {frame.as}
    BY <1>2, <1>3
  <2>2. /\ kresult[stack[i + 1].as] = "in progress"
        /\ result[stack[i + 1].as] = asserts[stack[i + 1].as].cond
    BY <2>1 DEF OnStack
  <2>3. QED BY <1>1, <1>4, <2>1, <2>2
<1>6. ASSUME NEW i \in DOMAIN stack', i > 1
      PROVE  stack'[i - 1].as \in DependsOn(stack'[i].as)
  <2>1. i - 1 \in DOMAIN stack' /\ (i - 1) + 1 = i /\ (i + 1) - 1 = i
        /\ i + 1 > 1
    BY <1>1, <1>2, <1>6
  <2>2. stack'[i - 1].as = stack[i].as /\ stack'[i].as = stack[i + 1].as
        /\ i + 1 \in DOMAIN stack
    BY <1>3, <2>1
  <2>3. stack[i].as \in DependsOn(stack[i + 1].as)
    BY <2>1, <2>2 DEF OnStack
  <2>4. QED BY <2>2, <2>3
<1>7. ASSUME NEW i \in DOMAIN stack', NEW j \in DOMAIN stack',
             stack'[i].as = stack'[j].as
      PROVE  i = j
  <2>1. i + 1 = j + 1
    <3>1. \A k, l \in DOMAIN stack : stack[k].as = stack[l].as => k = l
      BY DEF OnStack
    <3>2. QED BY <1>3, <1>7, <3>1
  <2>2. QED BY <1>1, <1>2, <2>1
<1>8. ASSUME NEW b \in Id, kresult'[b] = "in progress"
      PROVE  \E i \in DOMAIN stack' : stack'[i].as = b
  <2>1. b # frame.as
    BY <1>4, <1>8
  <2>1a. kresult[b] = "in progress"
    BY <1>4, <1>8, <2>1
  <2>2. PICK i \in DOMAIN stack : stack[i].as = b
    BY <2>1a DEF OnStack
  <2>3. i # 1
    BY <2>1, <2>2 DEF frame
  <2>4. i - 1 \in DOMAIN stack' /\ (i - 1) + 1 = i
    BY <1>1, <1>2, <2>3
  <2>5. QED BY <1>3, <2>2, <2>4
<1>9. QED BY <1>5, <1>6, <1>7, <1>8 DEF OnStack

\* Where the assertions have no cycle, none in progress is needed again.
LEMMA NoCycle ==
    ASSUME Acyclic, stack \in Seq(Frame), stack # <<>>,
           NEW kr, NEW res, OnStack(stack, kr, res), NEW i \in DOMAIN stack
    PROVE  stack[i].as \notin DependsOn(frame.as)
<1>1. SUFFICES ASSUME stack[i].as \in DependsOn(frame.as) PROVE FALSE
  OBVIOUS
<1>2. /\ Len(stack) \in Nat \ {0} /\ DOMAIN stack = 1 .. Len(stack)
      /\ \A j \in DOMAIN stack : stack[j].as \in Id
  BY StackFacts, StackIds DEF Frame
<1> DEFINE S == {stack[j].as : j \in 1 .. i}
<1>3. S \in (SUBSET Id) \ {{}}
  <2>1. \A j \in 1 .. i : j \in 1 .. Len(stack)
    BY <1>2
  <2>1a. i \in 1 .. i
    BY <1>2
  <2>2. QED BY <1>2, <2>1, <2>1a
<1>4. PICK a \in S : DependsOn(a) \intersect S = {}
  <2> HIDE DEF S
  <2> QED BY <1>3 DEF Acyclic
<1>5. PICK j \in 1 .. i : a = stack[j].as
  OBVIOUS
<1>6. CASE j = 1
  <2>1. stack[i].as \in S
    BY <1>2
  <2>2. stack[i].as \in DependsOn(a)
    BY <1>1, <1>5, <1>6 DEF frame
  <2>3. QED BY <1>4, <2>1, <2>2
<1>7. CASE j # 1
  <2>1. j \in DOMAIN stack /\ j > 1 /\ j - 1 \in 1 .. i
    BY <1>2, <1>7
  <2>2. stack[j - 1].as \in DependsOn(a)
    BY <1>5, <2>1 DEF OnStack
  <2>3. stack[j - 1].as \in S
    BY <2>1
  <2>4. QED BY <1>4, <2>2, <2>3
<1>8. QED BY <1>6, <1>7

-------------------------------------------------------------------------------
(***************************************************************************)
(* The values.                                                             *)
(***************************************************************************)
LEMMA SInvStep ==
    ASSUME UNCHANGED asserts,
           Acyclic => /\ Frames(stack', kresult', result')
                      /\ DoneFirst' /\ PoliciesInTurn' /\ Settled'
    PROVE  SInv'
<1>1. Id' = Id
  BY DEF Id
<1>2. \A p : AssertionsBy(p)' = AssertionsBy(p)
  BY <1>1 DEF AssertionsBy
<1>3. \A a : DependsOn(a)' = DependsOn(a)
  BY <1>1 DEF DependsOn
<1>4. Acyclic' = Acyclic
  BY <1>1, <1>3 DEF Acyclic
<1>5. \A b : Rank(b)' = Rank(b)
  BY <1>2 DEF Rank
<1>6. \A f, kr : LookedAt(f, kr)' <=> LookedAt(f, kr)
  BY <1>2, <1>5 DEF LookedAt
<1>7. \A s, kr, res : OnStack(s, kr, res)' <=> OnStack(s, kr, res)
  BY <1>1, <1>3, ZenonT(60) DEF OnStack
<1>8. QED BY <1>4, <1>6, <1>7 DEF SInv, Frames

\* The value of a Licensees field is at least v when a set of its keys has it.
LEMMA KeypredIsLeast ==
    ASSUME NEW a, NEW v \in Value \ {0}, SearchTypeOK
    PROVE  Keypred(a) >= v <=>
               \E S \in asserts[a].lics : \A p \in S : KeyHas(p, v)
<1>1. /\ Keypred(a) \in Value /\ Keypred(a) \in Nat /\ v \in Value
      /\ v \in Nat /\ v # 0
  BY KeypredIsHad, ValueFacts
<1>2. ASSUME Keypred(a) >= v
      PROVE  \E S \in asserts[a].lics : \A p \in S : KeyHas(p, v)
  <2>1. Keypred(a) # 0
    BY <1>1, <1>2
  <2>2. PICK S \in asserts[a].lics : \A p \in S : KeyHas(p, Keypred(a))
    BY <2>1, KeypredIsHad
  <2>3. \A p : KeyHas(p, Keypred(a)) => KeyHas(p, v)
    <3>1. SUFFICES ASSUME NEW p, KeyHas(p, Keypred(a)), ~ InAuthorizers(p)
                   PROVE  \E b \in AssertionsBy(p) :
                              kresult[b] = "done" /\ result[b] >= v
      BY DEF KeyHas
    <3>2. PICK b \in AssertionsBy(p) :
              kresult[b] = "done" /\ result[b] >= Keypred(a)
      BY <2>1, <3>1 DEF KeyHas
    <3>3. result[b] \in Nat
      BY <3>2, ValueFacts DEF AssertionsBy, SearchTypeOK
    <3>4. QED BY <1>1, <1>2, <3>2, <3>3
  <2>4. QED BY <2>2, <2>3
<1>3. ASSUME \E S \in asserts[a].lics : \A p \in S : KeyHas(p, v),
             ~ (Keypred(a) >= v)
      PROVE  FALSE
  <2>1. v > Keypred(a)
    BY <1>1, <1>3
  <2>2. QED BY <1>1, <1>3, <2>1, KeypredIsHad
<1>4. QED BY <1>2, <1>3

\* An assertion that c does not depend on makes no difference to it.
LEMMA WorthSame ==
    ASSUME SearchTypeOK, NEW c \in Id, NEW a \in Id, NEW v,
           NEW U, NEW W, U \subseteq W, W \subseteq U \cup {a},
           a \in DependsOn(c) => InAuthorizers(asserts[a].auth)
    PROVE  Worth(c, v, W) <=> Worth(c, v, U)
<1>1. ASSUME NEW S \in asserts[c].lics, NEW p \in S, ~ InAuthorizers(p)
      PROVE  AssertionsBy(p) \intersect W = AssertionsBy(p) \intersect U
  <2>1. PICK k \in DOMAIN asserts[c].keys : p = asserts[c].keys[k]
    <3>1. asserts \in AssertionLists /\ c \in DOMAIN asserts
      BY DEF SearchTypeOK, Id
    <3>2. UNION asserts[c].lics \subseteq
              {asserts[c].keys[k] : k \in DOMAIN asserts[c].keys}
      BY <3>1, QueryAssumption
    <3>3. QED BY <1>1, <3>2
  <2>2. a \notin AssertionsBy(p)
    BY <1>1, <2>1 DEF AssertionsBy, DependsOn
  <2>3. QED BY <2>2
<1>2. QED BY <1>1 DEF Worth

\* What a step has to show so that Settled is kept.
LEMMA SettledStep ==
    ASSUME UNCHANGED asserts,
           \A b \in Id : \A v \in Value \ {0} :
               kresult'[b] = "done" => (result'[b] >= v <=> Worth(b, v, Have(v)'))
    PROVE  Settled'
<1>1. Id' = Id
  BY DEF Id
<1>2. /\ \A p : AssertionsBy(p)' = AssertionsBy(p)
      /\ \A b : Trusted(b)' <=> Trusted(b)
  BY <1>1 DEF AssertionsBy, Trusted
<1>3. \A b, v : Worth(b, v, Have(v))' <=> Worth(b, v, Have(v)')
  BY <1>2 DEF Worth
<1>4. QED BY <1>1, <1>3 DEF Settled

\* Entering an assertion that was not yet done.
LEMMA EnterSettled ==
    ASSUME SearchTypeOK, DoneFirst, Settled, UNCHANGED asserts,
           NEW a \in Id, NEW below, kresult[a] = "untouched", Enter(a, below)
    PROVE  DoneFirst' /\ Settled'
<1>1. /\ result'[a] = asserts[a].cond
      /\ kresult'[a] = IF asserts[a].cond = 0 THEN "done" ELSE "in progress"
      /\ \A b \in Id : b # a => result'[b] = result[b]
                                 /\ kresult'[b] = kresult[b]
  BY DEF Enter, SearchTypeOK
<1>2. /\ Id' = Id
      /\ \A b : DependsOn(b)' = DependsOn(b)
      /\ \A b \in Id : DependsOn(b) \subseteq Id
  BY DEF DependsOn, Id
<1>3. DoneFirst'
  <2>1. SUFFICES ASSUME NEW c \in Id, kresult'[c] = "done",
                        asserts[c].cond # 0, NEW b \in DependsOn(c),
                        ~ InAuthorizers(asserts[b].auth)
                 PROVE  kresult'[b] = "done"
    BY <1>2 DEF DoneFirst
  <2>2. c # a /\ kresult[c] = "done"
    BY <1>1, <2>1
  <2>3. kresult[b] = "done" /\ b \in Id
    BY <1>2, <2>1, <2>2 DEF DoneFirst
  <2>4. QED BY <1>1, <2>3
<1>4. \A v \in Value \ {0} : Have(v)' = Have(v)
  <2>1. SUFFICES ASSUME NEW v \in Value \ {0} PROVE Have(v) \subseteq Have(v)'
    BY EnterGivesNothing
  <2>2. SUFFICES ASSUME NEW b \in Id, kresult[b] = "done", result[b] >= v
                 PROVE  kresult'[b] = "done" /\ result'[b] >= v
    BY <1>2 DEF Have
  <2>3. QED BY <1>1, <2>2
<1>6. ASSUME NEW b \in Id, NEW v \in Value \ {0}, kresult'[b] = "done"
      PROVE  result'[b] >= v <=> Worth(b, v, Have(v))
  <2>1. CASE b = a
    <3>1. asserts[a].cond = 0 /\ v \in Nat /\ v # 0
      BY <1>1, <1>6, <2>1, ValueFacts
    <3>2. ~ (0 >= v)
      BY <3>1
    <3>3. QED BY <1>1, <2>1, <3>1, <3>2 DEF Worth
  <2>2. CASE b # a
    BY <1>1, <1>6, <2>2 DEF Settled
  <2>3. QED BY <2>1, <2>2
<1>7. Settled'
  BY <1>4, <1>6, SettledStep
<1>8. QED BY <1>3, <1>7

\* What the innermost assertion depends on, when it has come to its end.
LEMMA AllAreDone ==
    ASSUME SearchTypeOK, Acyclic, Frames(stack, kresult, result), Finish,
           NEW b \in DependsOn(frame.as), ~ InAuthorizers(asserts[b].auth)
    PROVE  kresult[b] = "done" /\ b # frame.as
<1>1. /\ stack \in Seq(Frame) /\ stack # <<>> /\ frame \in Frame
      /\ frame.as \in Id /\ frame.key > Len(asserts[frame.as].keys)
      /\ 1 \in DOMAIN stack /\ b \in Id
  <2>1. stack \in Seq(Frame) /\ stack # <<>>
        /\ frame.key > Len(asserts[frame.as].keys)
    BY DEF SearchTypeOK, Finish, Searching, keys
  <2>2. b \in Id
    BY DEF DependsOn
  <2>3. QED BY <2>1, <2>2, FrameFacts, StackFacts
<1>2. PICK k \in DOMAIN asserts[frame.as].keys :
          asserts[b].auth = asserts[frame.as].keys[k]
  BY DEF DependsOn
<1>3. k < frame.key
  <2>1. asserts[frame.as].keys \in Seq(Principal)
    BY <1>1, AssertionFields DEF SearchTypeOK
  <2>2. k \in 1 .. Len(asserts[frame.as].keys)
        /\ Len(asserts[frame.as].keys) \in Nat
    BY <1>2, <2>1, LenProperties
  <2>3. frame.key \in Nat
    BY <1>1 DEF Frame
  <2>4. QED BY <1>1, <2>2, <2>3
<1>4. kresult[b] # "untouched"
  <2>1. LookedAt(frame, kresult)
    BY <1>1 DEF Frames, frame
  <2>2. b \in AssertionsBy(asserts[frame.as].keys[k])
    BY <1>1, <1>2 DEF AssertionsBy
  <2>3. QED BY <1>2, <1>3, <2>1, <2>2 DEF LookedAt
<1>5. \A i \in DOMAIN stack : stack[i].as # b
  BY <1>1, NoCycle DEF Frames
<1>6. kresult[b] # "in progress"
  BY <1>1, <1>5 DEF Frames, OnStack
<1>7. kresult[b] \in {"untouched", "in progress", "done"}
  BY <1>1 DEF SearchTypeOK
<1>8. QED BY <1>1, <1>4, <1>5, <1>6, <1>7 DEF frame

\* The value that is kept at the end of a frame is the right one.
LEMMA FinishSettled ==
    ASSUME SearchTypeOK, Acyclic, Frames(stack, kresult, result),
           DoneFirst, Settled, Finish
    PROVE  DoneFirst' /\ Settled'
<1> DEFINE a == frame.as
<1>1. /\ a \in Id /\ UNCHANGED asserts /\ stack # <<>> /\ stack \in Seq(Frame)
      /\ 1 \in DOMAIN stack
  <2>1. UNCHANGED asserts /\ stack # <<>> /\ stack \in Seq(Frame)
    BY DEF SearchTypeOK, Finish, Searching
  <2>2. QED BY <2>1, FrameFacts, StackFacts
<1>2. kresult[a] = "in progress" /\ result[a] = asserts[a].cond
  BY <1>1 DEF Frames, OnStack, frame
<1>3. /\ result'[a] = IF Trusted(a) THEN Minimum(result[a], Keypred(a)) ELSE 0
      /\ kresult'[a] = "done"
      /\ \A b \in Id : b # a => result'[b] = result[b]
                                 /\ kresult'[b] = kresult[b]
  BY <1>1 DEF Finish, SearchTypeOK
<1>4. /\ Id' = Id
      /\ \A b : DependsOn(b)' = DependsOn(b)
      /\ \A b \in Id : DependsOn(b) \subseteq Id
  BY <1>1 DEF DependsOn, Id
<1>5. \A b \in DependsOn(a) :
          ~ InAuthorizers(asserts[b].auth) => kresult[b] = "done" /\ b # a
  BY AllAreDone
<1> HIDE DEF a
<1>6. DoneFirst'
  <2>1. SUFFICES ASSUME NEW c \in Id, kresult'[c] = "done",
                        asserts[c].cond # 0, NEW b \in DependsOn(c),
                        ~ InAuthorizers(asserts[b].auth)
                 PROVE  kresult'[b] = "done"
    BY <1>1, <1>4 DEF DoneFirst
  <2>2. b \in Id
    BY <1>4
  <2>3. CASE c = a
    BY <1>3, <1>5, <2>1, <2>2, <2>3
  <2>4. CASE c # a
    <3>1. kresult[b] = "done"
      BY <1>3, <2>1, <2>4 DEF DoneFirst
    <3>2. QED BY <1>3, <2>2, <3>1
  <2>5. QED BY <2>3, <2>4
<1>7. ASSUME NEW v
      PROVE  Have(v) \subseteq Have(v)' /\ Have(v)' \subseteq Have(v) \cup {a}
  BY <1>2, <1>3, <1>4 DEF Have
<1>8. ASSUME NEW c \in Id, NEW v \in Value \ {0}, kresult'[c] = "done"
      PROVE  result'[c] >= v <=> Worth(c, v, Have(v)')
  <2>1. CASE c = a
    <3>1. Worth(a, v, Have(v)') <=> Worth(a, v, Have(v))
      BY <1>1, <1>5, <1>7, WorthSame
    <3>2. /\ result[a] \in Nat /\ Keypred(a) \in Nat /\ v \in Nat /\ v # 0
      BY <1>1, ValueFacts, KeypredIsHad DEF SearchTypeOK
    <3>3. result'[a] >= v <=>
              Trusted(a) /\ asserts[a].cond >= v /\ Keypred(a) >= v
      <4>1. CASE Trusted(a)
        <5>1. result'[a] = Minimum(result[a], Keypred(a))
          BY <1>3, <4>1
        <5>2. Minimum(result[a], Keypred(a)) >= v <=>
                  result[a] >= v /\ Keypred(a) >= v
          BY <3>2 DEF Minimum
        <5>3. QED BY <1>2, <4>1, <5>1, <5>2
      <4>2. CASE ~ Trusted(a)
        BY <1>3, <3>2, <4>2
      <4>3. QED BY <4>1, <4>2
    <3>4. \A p : KeyHas(p, v) <=>
                     InAuthorizers(p) \/ AssertionsBy(p) \intersect Have(v) # {}
      BY <3>2 DEF KeyHas, Have, AssertionsBy
    <3>5. Worth(a, v, Have(v)) <=>
              Trusted(a) /\ asserts[a].cond >= v /\ Keypred(a) >= v
      BY <3>4, KeypredIsLeast DEF Worth
    <3>6. QED BY <2>1, <3>1, <3>3, <3>5
  <2>2. CASE c # a /\ asserts[c].cond # 0
    <3>1. kresult[c] = "done" /\ result'[c] = result[c]
      BY <1>3, <1>8, <2>2
    <3>2. a \in DependsOn(c) => InAuthorizers(asserts[a].auth)
      BY <1>2, <2>2, <3>1 DEF DoneFirst
    <3>3. Worth(c, v, Have(v)') <=> Worth(c, v, Have(v))
      BY <1>1, <1>7, <3>2, WorthSame
    <3>4. QED BY <3>1, <3>3 DEF Settled
  <2>3. CASE c # a /\ asserts[c].cond = 0
    <3>1. kresult[c] = "done" /\ result'[c] = result[c]
      BY <1>3, <1>8, <2>3
    <3>2. ~ (0 >= v)
      BY ValueFacts
    <3>3. QED BY <2>3, <3>1, <3>2 DEF Settled, Worth
  <2>4. QED BY <2>1, <2>2, <2>3
<1>9. Settled'
  BY <1>1, <1>8, SettledStep
<1>10. QED BY <1>6, <1>9

-------------------------------------------------------------------------------
(***************************************************************************)
(* The steps.                                                              *)
(***************************************************************************)
\* The innermost frame after the assertion it was at, or the key.
LEMMA LookedAtNextAssertion ==
    ASSUME SearchTypeOK, stack # <<>>, LookedAt(frame, kresult), NEW kr,
           \A b \in Id : kresult[b] # "untouched" => kr[b] # "untouched",
           NEW a \in found, kr[a] # "untouched"
    PROVE  LookedAt([frame EXCEPT !.num = @ + 1], kr)
<1> DEFINE f == [frame EXCEPT !.num = @ + 1]
<1>1. frame \in Frame /\ asserts \in Seq(Assertion)
  BY FrameFacts, AssertionFields DEF SearchTypeOK
<1>2. /\ f.as = frame.as /\ f.key = frame.key /\ f.num = frame.num + 1
      /\ frame.num \in Nat
  BY <1>1 DEF Frame
<1>3. LookedAt(frame, kr)
  BY LookedAtStays
<1> HIDE DEF f
<1>4. SUFFICES ASSUME NEW k \in DOMAIN asserts[f.as].keys,
                      NEW b \in AssertionsBy(asserts[f.as].keys[k]),
                      k < f.key \/ (k = f.key /\ Rank(b) < f.num)
               PROVE  InAuthorizers(asserts[f.as].keys[k]) \/ kr[b] # "untouched"
  <2>1. LookedAt(f, kr)
    BY <1>4 DEF LookedAt
  <2>2. QED BY <2>1 DEF f
<1>5. CASE k < f.key \/ (k = f.key /\ Rank(b) < frame.num)
  BY <1>2, <1>3, <1>5 DEF LookedAt
<1>6. CASE k = f.key /\ Rank(b) = frame.num
  <2>1. b \in found
    BY <1>2, <1>6, FindIsRank DEF found, keys
  <2>2. a = b
    BY <1>1, <2>1, OneIsFound DEF found
  <2>3. QED BY <2>2
<1>7. Rank(b) \in Nat
  BY <1>1, RankIsBefore, BeforeFacts
<1>8. QED BY <1>2, <1>4, <1>5, <1>6, <1>7

\* The key of a frame is done with when its chain is at its end.
LEMMA LookedAtNextKey ==
    ASSUME SearchTypeOK, stack # <<>>, LookedAt(frame, kresult),
           InAuthorizers(keys[frame.key]) \/ found = {}
    PROVE  LookedAt([as |-> frame.as, key |-> frame.key + 1, num |-> 0], kresult)
<1> DEFINE f == [as |-> frame.as, key |-> frame.key + 1, num |-> 0]
<1>1. frame \in Frame /\ asserts \in Seq(Assertion) /\ frame.as \in Id
  BY FrameFacts, AssertionFields DEF SearchTypeOK
<1>2. /\ f.as = frame.as /\ f.key = frame.key + 1 /\ f.num = 0
      /\ frame.num \in Nat /\ frame.key \in Nat
  BY <1>1 DEF Frame
<1> HIDE DEF f
<1>3. SUFFICES ASSUME NEW k \in DOMAIN asserts[f.as].keys,
                      NEW b \in AssertionsBy(asserts[f.as].keys[k]),
                      k < f.key \/ (k = f.key /\ Rank(b) < f.num)
               PROVE  InAuthorizers(asserts[f.as].keys[k])
                      \/ kresult[b] # "untouched"
  <2>1. LookedAt(f, kresult)
    BY <1>3 DEF LookedAt
  <2>2. QED BY <2>1 DEF f
<1>4. k \in Nat /\ Rank(b) \in Nat
  <2>1. asserts[frame.as].keys \in Seq(Principal)
    BY <1>1, AssertionFields DEF SearchTypeOK
  <2>2. k \in 1 .. Len(asserts[frame.as].keys)
    BY <1>2, <2>1, LenProperties
  <2>3. QED BY <1>1, <2>2, RankIsBefore, BeforeFacts
<1>5. CASE k < frame.key
  BY <1>2, <1>5 DEF LookedAt
<1>6. CASE k = frame.key /\ found = {}
  <2>1. Rank(b) < frame.num
    BY <1>1, <1>2, <1>6, NoneFoundAtTheEnd DEF found, keys
  <2>2. QED BY <1>2, <1>6, <2>1 DEF LookedAt
<1>7. CASE k = frame.key /\ InAuthorizers(keys[frame.key])
  BY <1>2, <1>7 DEF keys
<1>8. QED BY <1>2, <1>3, <1>4, <1>5, <1>6, <1>7

\* Once entered, an assertion has been looked at.
LEMMA EnterStays ==
    ASSUME SearchTypeOK, NEW a \in Id, NEW below, Enter(a, below)
    PROVE  /\ kresult'[a] # "untouched"
           /\ \A b \in Id : kresult[b] # "untouched" => kresult'[b] # "untouched"
           /\ \A b \in Id \ {a} : kresult'[b] = kresult[b]
BY DEF Enter, SearchTypeOK

\* A new frame keeps what is known of all frames.
LEMMA FramesEntered ==
    ASSUME SearchTypeOK, NEW a \in Id, NEW s \in Seq(Frame),
           kresult[a] = "untouched", OnStack(s, kresult, result),
           \A i \in DOMAIN s : LookedAt(s[i], kresult'), Enter(a, s),
           s # <<>> => a \in DependsOn(s[1].as)
    PROVE  Frames(stack', kresult', result')
<1>1. OnStack(stack', kresult', result')
  <2>1. \A i \in DOMAIN s : s[i].as # a
    BY DEF OnStack
  <2>2. QED BY <2>1, OnStackEntered
<1> DEFINE f == [as |-> a, key |-> 1, num |-> 0]
<1>2. LookedAt(f, kresult')
  <2>1. asserts \in Seq(Assertion) /\ asserts[a].keys \in Seq(Principal)
    BY AssertionFields DEF SearchTypeOK
  <2>2. \A k \in DOMAIN asserts[a].keys : ~ (k < 1)
    BY <2>1, LenProperties
  <2>3. \A p : \A b \in AssertionsBy(p) : ~ (Rank(b) < 0)
    BY <2>1, RankIsBefore, BeforeFacts
  <2>4. f.as = a /\ f.key = 1 /\ f.num = 0
    OBVIOUS
  <2> HIDE DEF f
  <2>5. QED BY <2>2, <2>3, <2>4 DEF LookedAt
<1>3. \A i \in DOMAIN stack' : LookedAt(stack'[i], kresult')
  <2>1. CASE stack' = s
    BY <2>1
  <2>2. CASE stack' = <<f>> \o s
    <3>1. f \in Frame
      BY DEF Frame
    <3> HIDE DEF f
    <3>2. /\ Len(s) \in Nat /\ DOMAIN s = 1 .. Len(s)
          /\ DOMAIN (<<f>> \o s) = 1 .. Len(s) + 1
          /\ \A i \in 1 .. Len(s) + 1 :
                 (<<f>> \o s)[i] = IF i = 1 THEN f ELSE s[i - 1]
      BY <3>1, PushFacts, LenProperties
    <3>3. ASSUME NEW i \in 1 .. Len(s) + 1
          PROVE  LookedAt(stack'[i], kresult')
      <4>1. CASE i = 1
        BY <1>2, <2>2, <3>2, <4>1
      <4>2. CASE i # 1
        <5>1. i - 1 \in DOMAIN s /\ stack'[i] = s[i - 1]
          BY <2>2, <3>2, <4>2
        <5>2. QED BY <5>1
      <4>3. QED BY <4>1, <4>2
    <3>4. QED BY <2>2, <3>2, <3>3
  <2>3. QED BY <2>1, <2>2 DEF Enter
<1>4. QED BY <1>1, <1>3 DEF Frames

\* Moving the innermost frame on.
LEMMA FramesMoved ==
    ASSUME SearchTypeOK, stack # <<>>, NEW f \in Frame, f.as = frame.as,
           NEW kr, OnStack(stack, kresult, result), LookedAt(f, kr),
           \A i \in DOMAIN stack : LookedAt(stack[i], kresult),
           \A b \in Id : kresult[b] # "untouched" => kr[b] # "untouched"
    PROVE  LET s == [stack EXCEPT ![1] = f]
           IN  /\ OnStack(s, kresult, result)
               /\ \A i \in DOMAIN s : LookedAt(s[i], kr)
<1> DEFINE s == [stack EXCEPT ![1] = f]
<1>1. stack \in Seq(Frame)
  BY DEF SearchTypeOK
<1>2. DOMAIN s = DOMAIN stack /\ DOMAIN stack = 1 .. Len(stack)
  BY <1>1, StackFacts
<1>3. s[1] = f /\ \A i \in DOMAIN stack : i # 1 => s[i] = stack[i]
  <2>1. 1 \in DOMAIN stack
    BY <1>1, StackFacts
  <2>2. QED BY <2>1
<1>4. OnStack(s, kresult, result)
  BY <1>1, OnStackMoved
<1>5. \A i \in DOMAIN stack : LookedAt(stack[i], kr)
  BY LookedAtStays
<1> HIDE DEF s
<1>6. \A i \in DOMAIN s : LookedAt(s[i], kr)
  BY <1>2, <1>3, <1>5
<1>7. QED BY <1>4, <1>6 DEF s

\* The invariant holds before the search.
LEMMA InitSInv == Init => SInv
<1> SUFFICES ASSUME Init PROVE SInv
  OBVIOUS
<1>1. stack = <<>> /\ \A b \in Id : kresult[b] = "untouched"
  BY DEF Init
<1>2. Frames(stack, kresult, result)
  <2>1. DOMAIN stack = {}
    BY <1>1
  <2>2. QED BY <1>1, <2>1 DEF Frames, OnStack
<1>3. DoneFirst /\ Settled
  BY <1>1 DEF DoneFirst, Settled
<1>4. PoliciesInTurn
  BY <1>1 DEF PoliciesInTurn, AssertionsBy
<1>5. QED BY <1>2, <1>3, <1>4 DEF SInv

\* What Strength says of the stack.
LEMMA StackOfStrength ==
    ASSUME SearchTypeOK, Strength
    PROVE  /\ stack \in Seq(Frame) /\ policy \in Nat
           /\ pc # "search" => stack = <<>>
           /\ pc = "search" => policy \in AssertionsBy(POLICY)
           /\ stack # <<>> => stack[Len(stack)].as = policy
           /\ \A b \in Id : b \in Nat
<1>1. \A b \in Id : b \in Nat
  BY AssertionFields DEF SearchTypeOK
<1>2. stack \in Seq(Frame) /\ policy \in Id \union {None}
  BY DEF SearchTypeOK
<1>3. policy \in Nat
  BY <1>1, <1>2 DEF None
<1>4. QED BY <1>1, <1>2, <1>3 DEF Strength

\* The recursive call: of an assertion of the licensee that the frame is at.
LEMMA RecurseFacts ==
    ASSUME SearchTypeOK, Recurse
    PROVE  /\ stack # <<>> /\ pc = "search" /\ UNCHANGED <<asserts, policy>>
           /\ frame.key \in DOMAIN keys /\ ~ InAuthorizers(keys[frame.key])
           /\ \E a \in found :
                  /\ kresult[a] = "untouched" /\ Enter(a, AtNextAssertion)
                  /\ a \in Id /\ asserts[a].auth = keys[frame.key]
                  /\ a \in DependsOn(frame.as)
<1>1. /\ stack # <<>> /\ pc = "search" /\ frame.key <= Len(keys)
      /\ UNCHANGED <<asserts, policy>> /\ ~ InAuthorizers(keys[frame.key])
  BY DEF Recurse, AtAnAssertion, AtAKey, Searching
<1>2. PICK a \in found : kresult[a] = "untouched" /\ Enter(a, AtNextAssertion)
  BY DEF Recurse
<1>3. a \in Id /\ asserts[a].auth = keys[frame.key]
  BY <1>2 DEF found, Find, AssertionsBy
<1>4. frame \in Frame /\ frame.as \in Id
  BY <1>1, FrameFacts DEF SearchTypeOK
<1>5. frame.key \in DOMAIN keys
  <2>1. keys \in Seq(Principal)
    BY <1>4, AssertionFields DEF SearchTypeOK, keys
  <2>2. frame.key \in Nat \ {0}
    BY <1>4 DEF Frame
  <2>3. DOMAIN keys = 1 .. Len(keys) /\ Len(keys) \in Nat
    BY <2>1, LenProperties
  <2>4. QED BY <1>1, <2>2, <2>3
<1>6. a \in DependsOn(frame.as)
  BY <1>3, <1>5 DEF DependsOn, keys
<1>7. QED BY <1>1, <1>2, <1>3, <1>5, <1>6

\* As long as no policy is entered for one that it is to license, each step
\* keeps the stack, and the policies are entered in their turn.
LEMMA NextFrames ==
    ASSUME SearchTypeOK, Strength, Frames(stack, kresult, result),
           PoliciesInTurn, [Next]_vars, Recurse => keys[frame.key] # POLICY
    PROVE  /\ Frames(stack', kresult', result') /\ PoliciesInTurn'
           /\ \A a \in Id : NextPolicy /\ policy' = a => kresult[a] = "untouched"
<1>0. /\ stack \in Seq(Frame) /\ policy \in Nat
      /\ pc # "search" => stack = <<>>
      /\ \A b \in Id : b \in Nat
  BY StackOfStrength
<1>0a. \A a \in Id : NextPolicy /\ policy' = a => kresult[a] = "untouched"
  BY <1>0 DEF NextPolicy, PoliciesInTurn
<1>1. CASE NextPolicy
  <2>1. PICK a \in AssertionsBy(POLICY) :
            a > policy /\ policy' = a /\ Enter(a, <<>>)
    BY <1>1 DEF NextPolicy
  <2>2. a \in Id /\ UNCHANGED asserts /\ pc = "next" /\ stack = <<>>
    BY <1>0, <1>1, <2>1 DEF NextPolicy, AssertionsBy
  <2>5. kresult[a] = "untouched"
    BY <1>0a, <1>1, <2>1, <2>2
  <2>6. Frames(stack', kresult', result')
    <3>1. <<>> \in Seq(Frame) /\ OnStack(<<>>, kresult, result)
      BY <2>2, EmptySeq DEF Frames
    <3>2. \A i \in DOMAIN <<>> : LookedAt(<<>>[i], kresult')
      OBVIOUS
    <3>3. QED BY <2>1, <2>2, <2>5, <3>1, <3>2, FramesEntered
  <2>8. PoliciesInTurn'
    <3>1. SUFFICES ASSUME NEW b \in AssertionsBy(POLICY),
                          kresult'[b] # "untouched"
                   PROVE  b <= a
      BY <2>1, <2>2 DEF PoliciesInTurn, AssertionsBy, Id
    <3>2. b \in Id /\ (b # a => kresult'[b] = kresult[b])
      BY <2>1, <2>2, EnterStays DEF AssertionsBy
    <3>3. CASE b = a
      BY <1>0, <3>2, <3>3
    <3>4. CASE b # a
      <4>1. b <= policy
        BY <3>1, <3>2, <3>4 DEF PoliciesInTurn
      <4>2. QED BY <1>0, <2>1, <2>2, <3>2, <4>1
    <3>5. QED BY <3>3, <3>4
  <2>9. QED BY <1>0a, <2>6, <2>8
<1>1a. ASSUME UNCHANGED <<asserts, kresult, policy>>
       PROVE  PoliciesInTurn'
  BY <1>1a DEF PoliciesInTurn, AssertionsBy, Id
<1>2. CASE NoMorePolicies \/ Judge \/ UNCHANGED vars
  <2>1. UNCHANGED <<asserts, kresult, result, stack, policy>>
    BY <1>2 DEF NoMorePolicies, Judge, vars, searchVars
  <2>2. QED BY <1>0a, <1>1a, <2>1
<1>3. CASE NextKey
  <2>1. /\ stack # <<>> /\ stack' = AtNextKey
        /\ UNCHANGED <<asserts, kresult, result, policy>>
        /\ InAuthorizers(keys[frame.key]) \/ found = {}
    BY <1>3 DEF NextKey, AtAKey, Searching
  <2>3. 1 \in DOMAIN stack
    BY <1>0, <2>1, StackFacts
  <2> DEFINE f == [as |-> frame.as, key |-> frame.key + 1, num |-> 0]
  <2>4. LookedAt(f, kresult)
    <3>1. LookedAt(frame, kresult)
      BY <2>3 DEF Frames, frame
    <3>2. QED BY <2>1, <3>1, LookedAtNextKey
  <2>5. f \in Frame /\ f.as = frame.as
    BY <1>0, <2>1, FrameFacts
  <2> HIDE DEF f
  <2>6. Frames(AtNextKey, kresult, result)
    <3>1. /\ OnStack([stack EXCEPT ![1] = f], kresult, result)
          /\ \A i \in DOMAIN [stack EXCEPT ![1] = f] :
                 LookedAt([stack EXCEPT ![1] = f][i], kresult)
      BY <2>1, <2>3, <2>4, <2>5, FramesMoved DEF Frames
    <3>2. QED BY <3>1 DEF Frames, AtNextKey, f
  <2>7. QED BY <1>0a, <1>1a, <2>1, <2>6
<1>4. CASE SkipAssertion
  <2>1. /\ stack # <<>> /\ stack' = AtNextAssertion
        /\ UNCHANGED <<asserts, kresult, result, policy>>
        /\ \E a \in found : kresult[a] # "untouched"
    BY <1>4 DEF SkipAssertion, AtAnAssertion, AtAKey, Searching
  <2>3. 1 \in DOMAIN stack
    BY <1>0, <2>1, StackFacts
  <2> DEFINE f == [frame EXCEPT !.num = @ + 1]
  <2>4. LookedAt(f, kresult)
    <3>1. LookedAt(frame, kresult)
      BY <2>3 DEF Frames, frame
    <3>2. QED BY <2>1, <3>1, LookedAtNextAssertion
  <2>5. f \in Frame /\ f.as = frame.as
    BY <1>0, <2>1, FrameFacts DEF Frame
  <2> HIDE DEF f
  <2>6. Frames(AtNextAssertion, kresult, result)
    <3>1. /\ OnStack([stack EXCEPT ![1] = f], kresult, result)
          /\ \A i \in DOMAIN [stack EXCEPT ![1] = f] :
                 LookedAt([stack EXCEPT ![1] = f][i], kresult)
      BY <2>1, <2>3, <2>4, <2>5, FramesMoved DEF Frames
    <3>2. QED BY <3>1 DEF Frames, AtNextAssertion, f
  <2>7. QED BY <1>0a, <1>1a, <2>1, <2>6
<1>5. CASE Recurse
  <2>1. stack # <<>> /\ UNCHANGED <<asserts, policy>>
    BY <1>5, RecurseFacts
  <2>2. PICK a \in found :
            /\ kresult[a] = "untouched" /\ Enter(a, AtNextAssertion)
            /\ a \in Id /\ asserts[a].auth = keys[frame.key]
            /\ a \in DependsOn(frame.as)
    BY <1>5, RecurseFacts
  <2>6. frame \in Frame /\ frame.as \in Id /\ 1 \in DOMAIN stack
    BY <1>0, <2>1, FrameFacts, StackFacts
  <2> DEFINE f == [frame EXCEPT !.num = @ + 1]
             s == [stack EXCEPT ![1] = f]
  <2>9. f \in Frame /\ f.as = frame.as
    BY <1>0, <2>1, FrameFacts DEF Frame
  <2>10. LookedAt(f, kresult')
    <3>1. LookedAt(frame, kresult)
      BY <2>6 DEF Frames, frame
    <3>2. QED BY <2>1, <2>2, <3>1, EnterStays, LookedAtNextAssertion
  <2>11. s = AtNextAssertion /\ s[1] = f /\ s \in Seq(Frame)
    BY <1>0, <2>1, <2>6, FrameFacts DEF AtNextAssertion
  <2> HIDE DEF f
  <2>12. OnStack(s, kresult, result) /\ \A i \in DOMAIN s : LookedAt(s[i], kresult')
    <3>1. \A b \in Id : kresult[b] # "untouched" => kresult'[b] # "untouched"
      BY <2>2, <2>11, EnterStays
    <3>2. QED BY <2>1, <2>9, <2>10, <3>1, FramesMoved DEF Frames
  <2> HIDE DEF s
  <2>13. Frames(stack', kresult', result')
    <3>1. a \in DependsOn(s[1].as)
      BY <2>2, <2>9, <2>11
    <3>2. Enter(a, s)
      BY <2>2, <2>11
    <3>3. QED BY <2>2, <2>11, <2>12, <3>1, <3>2, FramesEntered
  <2>15. asserts[a].auth # POLICY
    BY <1>5, <2>2
  <2>16. PoliciesInTurn'
    <3>1. SUFFICES ASSUME NEW b \in AssertionsBy(POLICY),
                          kresult'[b] # "untouched"
                   PROVE  b <= policy
      BY <2>1 DEF PoliciesInTurn, AssertionsBy, Id
    <3>2. b \in Id /\ b # a
      BY <2>15 DEF AssertionsBy
    <3>3. kresult'[b] = kresult[b]
      BY <2>2, <3>2, EnterStays
    <3>4. QED BY <3>1, <3>3 DEF PoliciesInTurn
  <2>17. QED BY <1>0a, <2>13, <2>16
<1>6. CASE Finish
  <2>1. /\ stack # <<>> /\ UNCHANGED <<asserts, policy>>
        /\ kresult' = [kresult EXCEPT ![frame.as] = "done"]
        /\ stack' = Tail(stack)
    BY <1>6 DEF Finish, Searching
  <2>5. OnStack(stack', kresult', result')
    BY <1>6, OnStackLeft DEF Frames
  <2>6. kresult[frame.as] = "in progress" /\ frame.as \in Id
    <3>1. 1 \in DOMAIN stack /\ frame.as \in Id
      BY <1>0, <2>1, StackFacts, FrameFacts
    <3>2. QED BY <3>1 DEF Frames, OnStack, frame
  <2>7. \A b \in Id : kresult[b] # "untouched" <=> kresult'[b] # "untouched"
    BY <2>1, <2>6 DEF SearchTypeOK
  <2>8. \A i \in DOMAIN stack' : LookedAt(stack'[i], kresult')
    <3>1. SUFFICES ASSUME NEW i \in DOMAIN Tail(stack)
                   PROVE  LookedAt(Tail(stack)[i], kresult')
      BY <2>1
    <3>2. i + 1 \in DOMAIN stack /\ Tail(stack)[i] = stack[i + 1]
      BY <1>0, <2>1, StackFacts
    <3>3. LookedAt(stack[i + 1], kresult)
      BY <3>2 DEF Frames
    <3>4. QED BY <2>7, <3>2, <3>3, LookedAtStays
  <2>9. PoliciesInTurn'
    BY <2>1, <2>7 DEF PoliciesInTurn, AssertionsBy, Id
  <2>10. QED BY <1>0a, <2>5, <2>8, <2>9 DEF Frames
<1>7. QED BY <1>1, <1>2, <1>3, <1>4, <1>5, <1>6 DEF Next

\* Each step keeps the invariant.
LEMMA NextSInv == SearchTypeOK /\ Strength /\ SInv /\ [Next]_vars => SInv'
<1> SUFFICES ASSUME SearchTypeOK, Strength, SInv, [Next]_vars PROVE SInv'
  OBVIOUS
<1>0. UNCHANGED asserts
  BY DEF Next, NextPolicy, NoMorePolicies, Judge, NextKey, SkipAssertion,
         Recurse, Finish, vars
<1>1. SUFFICES ASSUME Acyclic
               PROVE  /\ Frames(stack', kresult', result')
                      /\ DoneFirst' /\ PoliciesInTurn' /\ Settled'
  BY <1>0, SInvStep
<1>2. /\ Frames(stack, kresult, result) /\ DoneFirst
      /\ PoliciesInTurn /\ Settled
  BY <1>1 DEF SInv
<1>3. ASSUME Recurse PROVE keys[frame.key] # POLICY
  <2>1. SUFFICES ASSUME keys[frame.key] = POLICY PROVE FALSE
    OBVIOUS
  <2>2. /\ stack # <<>> /\ stack[Len(stack)].as = policy /\ stack \in Seq(Frame)
        /\ policy \in AssertionsBy(POLICY) /\ frame.key \in DOMAIN keys
        /\ Len(stack) \in DOMAIN stack
    BY <1>3, RecurseFacts, StackOfStrength, StackFacts
  <2>3. stack[Len(stack)].as \in DependsOn(frame.as)
    BY <2>1, <2>2 DEF DependsOn, AssertionsBy, keys
  <2>4. QED BY <1>1, <1>2, <2>2, <2>3, NoCycle DEF Frames
<1>4. /\ Frames(stack', kresult', result') /\ PoliciesInTurn'
      /\ \A a \in Id : NextPolicy /\ policy' = a => kresult[a] = "untouched"
  BY <1>2, <1>3, NextFrames
<1>5. DoneFirst' /\ Settled'
  <2>1. CASE NextPolicy
    <3>1. PICK a \in Id : policy' = a /\ Enter(a, <<>>)
      BY <2>1 DEF NextPolicy, AssertionsBy
    <3>2. QED BY <1>0, <1>2, <1>4, <2>1, <3>1, EnterSettled
  <2>2. CASE Recurse
    <3>1. PICK a \in Id : kresult[a] = "untouched" /\ Enter(a, AtNextAssertion)
      BY <2>2, RecurseFacts
    <3>2. QED BY <1>0, <1>2, <3>1, EnterSettled
  <2>3. CASE Finish
    BY <1>1, <1>2, <2>3, FinishSettled
  <2>4. CASE NoMorePolicies \/ Judge \/ NextKey \/ SkipAssertion \/ UNCHANGED vars
    <3>1. UNCHANGED <<asserts, kresult, result>>
      BY <2>4 DEF NoMorePolicies, Judge, NextKey, SkipAssertion, vars, searchVars
    <3>2. DoneFirst'
      BY <1>2, <3>1 DEF DoneFirst, DependsOn, Id
    <3>3. \A v : Have(v)' = Have(v)
      BY <3>1 DEF Have, Id
    <3>4. Settled'
      BY <1>2, <3>1, <3>3, SettledStep DEF Settled
    <3>5. QED BY <3>2, <3>4
  <2>5. QED BY <2>1, <2>2, <2>3, <2>4 DEF Next
<1>6. QED BY <1>4, <1>5

\* rec_evaluate_query gives each assertion the value that the others give it,
\* and keeps it, in whatever order the hash table has them, when no assertion
\* depends on itself: "in progress" then only ever says that a caller waits.
THEOREM ValuesAreRight == Spec => []SettledWithoutCycles
<1>1. SearchTypeOK /\ Strength /\ SInv /\ [Next]_vars => SInv'
  BY NextSInv
<1>2. SInv => SettledWithoutCycles
  BY DEF SInv, SettledWithoutCycles
<1>3. IInv => SearchTypeOK /\ Strength
  BY DEF IInv
<1>4. QED BY <1>1, <1>2, <1>3, InitSInv, Invariance, PTL DEF Spec
===============================================================================
