-------------------------- MODULE DataSwap_proofs --------------------------
(***************************************************************************)
(* Proofs about copying values from chain to chain, for any keys, versions *)
(* and number of gets, whatever the order of time-outs, retries and late   *)
(* answers.  What makes a copy fresh is said of every answer the hub may   *)
(* still take, before it takes it.                                         *)
(***************************************************************************)
EXTENDS DataSwap, Relay_proofs

Key(i) == outMessages[Pair][i].key

(* A success the hub heard of, or may hear of, with the value v. *)
Stored(i, v)   == receiptMessages[Pair][i] = 1 /\ payloads[i] = v
Answered(i, v) == <<i, 1, v>> \in receipts \/ Stored(i, v)

(* A get was emitted at a version B had. *)
AskedKnown ==
  \A i \in Indices : i <= outterMeta[Pair] => asked[i] \in 0 .. storeB[Key(i)]

(* An answer is of a get B took, and of a version between the one B had at *)
(* the emission and the one it has now.                                    *)
AnswersFresh ==
  \A i \in Indices, v \in Payloads \union {NoPayload} :
    Answered(i, v) => i <= innerMeta[Pair] /\ v \in asked[i] .. storeB[Key(i)]

(* Answers to later gets of a key are not older. *)
AnswersOrdered ==
  \A i, j \in Indices, v, w \in Payloads \union {NoPayload} :
    i < j /\ Answered(i, v) /\ Answered(j, w) /\ Key(i) = Key(j) => v <= w

(* A copy is the answer of a get whose callback was called. *)
CopiesCalled ==
  \A i \in Indices :
    copied[i] # Nothing => called[Pair][i] = <<"callback">> /\ copied[i] = answers[i]

IInv ==
  /\ TypeOK /\ RelayInv
  /\ AskedKnown /\ AnswersFresh /\ AnswersOrdered /\ CopiesCalled /\ NewestKept

-----------------------------------------------------------------------------

USE MaxIndexAssumption, MaxVersionAssumption

(* A set of indices has a greatest one. *)
LEMMA MaxIn ==
  ASSUME NEW S, S \subseteq Indices, S # {}
  PROVE  Max(S) \in S /\ \A j \in S : Max(S) >= j
  <1> DEFINE T == {n \in Nat : \E j \in S : n = MaxIndex - j}
  <1>1. \A j \in S : j \in Int /\ MaxIndex - j \in Nat
    BY DEF Indices
  <1>2. T \subseteq Nat /\ T # {}
    BY <1>1
  <1>3. PICK n \in T : \A m \in T : ~(m < n)
    <2> HIDE DEF T
    <2> QED BY <1>2, Least
  <1>4. PICK x \in S : n = MaxIndex - x
    BY <1>3
  <1>5. ASSUME NEW j \in S PROVE x >= j
    <2>1. MaxIndex - j \in T
      BY <1>1
    <2>2. ~(MaxIndex - j < MaxIndex - x)
      BY <1>3, <1>4, <2>1
    <2> QED BY <1>1, <2>2
  <1> QED BY <1>4, <1>5 DEF Max

(* An index that is not below any of a set is its greatest. *)
LEMMA MaxIs ==
  ASSUME NEW S, S \subseteq Indices, NEW i \in S, \A j \in S : j <= i
  PROVE  Max(S) = i
  <1>1. Max(S) \in S /\ Max(S) >= i
    BY MaxIn
  <1>2. Max(S) <= i
    BY <1>1
  <1>3. Max(S) \in Indices /\ i \in Indices
    BY <1>1
  <1>4. \A x, y \in Indices : x >= y /\ x <= y => x = y
    BY DEF Indices
  <1> QED BY <1>1, <1>2, <1>3, <1>4

(* The types, one by one. *)
LEMMA SwapTypes ==
  ASSUME TypeOK
  PROVE  /\ storeA \in [Keys -> (0 .. MaxVersion) \union {Own}]
         /\ storeB \in [Keys -> 0 .. MaxVersion]
         /\ asked \in [Indices -> (0 .. MaxVersion) \union {Nothing}]
         /\ copied \in [Indices -> (0 .. MaxVersion) \union {Nothing}]
  BY DEF TypeOK

(* The stores keep their type after a step that kept these parts. *)
LEMMA SwapTypeParts ==
  ASSUME RelayInv',
         storeA' \in [Keys -> (0 .. MaxVersion) \union {Own}],
         storeB' \in [Keys -> 0 .. MaxVersion],
         asked' \in [Indices -> (0 .. MaxVersion) \union {Nothing}],
         copied' \in [Indices -> (0 .. MaxVersion) \union {Nothing}]
  PROVE  TypeOK'
  BY DEF TypeOK, RelayInv

(* The key of a get. *)
LEMMA KeyAt ==
  ASSUME RelayInv, NEW i \in Indices, i <= outterMeta[Pair]
  PROVE  Key(i) \in Keys
  <1>1. outMessages[Pair][i] \in Events
    BY Types, SrcAt
  <1> QED BY <1>1, EventsAssumption DEF Key

(* What the invariant says of one answer. *)
LEMMA AnswerAt ==
  ASSUME IInv, NEW i \in Indices, NEW v \in Payloads \union {NoPayload}, Answered(i, v)
  PROVE  /\ i <= innerMeta[Pair] /\ i <= outterMeta[Pair]
         /\ Key(i) \in Keys /\ storeB[Key(i)] \in 0 .. MaxVersion
         /\ asked[i] \in 0 .. storeB[Key(i)] /\ v \in asked[i] .. storeB[Key(i)]
         /\ v \in 0 .. MaxVersion
  <1>1. i <= innerMeta[Pair] /\ v \in asked[i] .. storeB[Key(i)]
    BY DEF IInv, AnswersFresh
  <1>2. i <= outterMeta[Pair]
    <2>1. innerMeta[Pair] <= outterMeta[Pair]
      BY DEF IInv, RelayInv, HubBehind
    <2> QED BY <1>1, <2>1, Types DEF IInv, Indices
  <1>3. Key(i) \in Keys
    BY <1>2, KeyAt DEF IInv
  <1>4. storeB[Key(i)] \in 0 .. MaxVersion
    BY <1>3, SwapTypes DEF IInv
  <1>5. asked[i] \in 0 .. storeB[Key(i)]
    BY <1>2 DEF IInv, AskedKnown
  <1> QED BY <1>1, <1>2, <1>3, <1>4, <1>5

(* The copies a step adds none to. *)
LEMMA CopiesFrame ==
  ASSUME NewestKept, \A k \in Keys : CopiesOf(k)' = CopiesOf(k),
         UNCHANGED <<storeA, copied>>
  PROVE  NewestKept'
  BY DEF NewestKept

(* A step on which no message is emitted and no value set on B, and which  *)
(* adds no answer.                                                         *)
LEMMA AnswersFrame ==
  ASSUME IInv, UNCHANGED <<outterMeta, outMessages, innerMeta, asked, storeB>>,
         \A i \in Indices, v \in Payloads \union {NoPayload} : Answered(i, v)' => Answered(i, v)
  PROVE  AskedKnown' /\ AnswersFresh' /\ AnswersOrdered'
  <1>1. \A i : Key(i)' = Key(i)
    BY DEF Key
  <1>2. AskedKnown'
    BY <1>1 DEF IInv, AskedKnown
  <1>3. AnswersFresh'
    BY <1>1 DEF IInv, AnswersFresh
  <1>4. AnswersOrdered'
    BY <1>1 DEF IInv, AnswersOrdered
  <1> QED BY <1>2, <1>3, <1>4

(* A step that touches none of the two brokers' messages, nor the hub. *)
LEMMA SwapFrame ==
  ASSUME IInv, UNCHANGED varsRelay
  PROVE  /\ RelayInv'
         /\ \A i, v : Answered(i, v)' <=> Answered(i, v)
         /\ \A i : Key(i)' = Key(i)
         /\ UNCHANGED <<outterMeta, outMessages, innerMeta, called, answers>>
  <1>1. RelayInv'
    BY RelayFrame DEF IInv
  <1>2. UNCHANGED <<outterMeta, outMessages, innerMeta, called, answers, receipts,
                    receiptMessages, payloads>>
    BY DEF varsRelay, varsSrc, varsDst, varsHub
  <1> QED BY <1>1, <1>2 DEF Answered, Stored, Key

(* A user of A writes the key: whatever A held, it is no copy now. *)
LEMMA SetAInv ==
  ASSUME IInv, NEW k \in Keys, SetA(k) PROVE IInv'
  <1>1. /\ storeA' = [storeA EXCEPT ![k] = Own]
        /\ UNCHANGED <<varsRelay, storeB, asked, copied>>
    BY DEF SetA, history
  <1>2. /\ RelayInv' /\ UNCHANGED <<outterMeta, outMessages, innerMeta, called, answers>>
        /\ \A i, v : Answered(i, v)' <=> Answered(i, v)
    BY <1>1, SwapFrame
  <1>3. AskedKnown' /\ AnswersFresh' /\ AnswersOrdered'
    BY <1>1, <1>2, AnswersFrame
  <1>4. CopiesCalled'
    BY <1>1, <1>2 DEF IInv, CopiesCalled
  <1>5. storeA' \in [Keys -> (0 .. MaxVersion) \union {Own}]
    BY <1>1, SwapTypes DEF IInv
  <1>6. TypeOK'
    BY <1>1, <1>2, <1>5, SwapTypes, SwapTypeParts DEF IInv
  <1>7. NewestKept'
    <2> SUFFICES ASSUME NEW l \in Keys, storeA'[l] # Own
                 PROVE  storeA'[l] = IF CopiesOf(l)' = {} THEN 0
                                     ELSE copied'[Max(CopiesOf(l)')]
      BY DEF NewestKept
    <2>1. storeA'[l] = storeA[l]
      BY <1>1, SwapTypes DEF IInv
    <2>2. CopiesOf(l)' = CopiesOf(l)
      BY <1>1, <1>2 DEF CopiesOf
    <2> QED BY <1>1, <2>1, <2>2 DEF IInv, NewestKept
  <1> QED BY <1>2, <1>3, <1>4, <1>6, <1>7 DEF IInv

(* B's versions only grow. *)
LEMMA SetBInv ==
  ASSUME IInv, NEW k \in Keys, SetB(k) PROVE IInv'
  <1>1. /\ storeB[k] < MaxVersion /\ storeB' = [storeB EXCEPT ![k] = @ + 1]
        /\ UNCHANGED <<varsRelay, storeA, asked, copied>>
    BY DEF SetB, history
  <1>2. /\ RelayInv' /\ UNCHANGED <<outterMeta, outMessages, innerMeta, called, answers>>
        /\ \A i, v : Answered(i, v)' <=> Answered(i, v)
        /\ \A i : Key(i)' = Key(i)
    BY <1>1, SwapFrame
  <1>3. storeB' \in [Keys -> 0 .. MaxVersion] /\ \A l \in Keys : storeB[l] <= storeB'[l]
    BY <1>1, SwapTypes DEF IInv
  <1>4. TypeOK'
    BY <1>1, <1>2, <1>3, SwapTypes, SwapTypeParts DEF IInv
  <1>5. AskedKnown'
    <2> SUFFICES ASSUME NEW i \in Indices, i <= outterMeta[Pair]
                 PROVE  asked[i] \in 0 .. storeB'[Key(i)]
      BY <1>1, <1>2 DEF AskedKnown
    <2>1. Key(i) \in Keys /\ asked[i] \in 0 .. storeB[Key(i)]
      BY KeyAt DEF IInv, AskedKnown
    <2>2. storeB[Key(i)] <= storeB'[Key(i)] /\ storeB[Key(i)] \in Int /\ storeB'[Key(i)] \in Int
      BY <1>3, <2>1, SwapTypes DEF IInv
    <2> QED BY <2>1, <2>2
  <1>6. AnswersFresh'
    <2> SUFFICES ASSUME NEW i \in Indices, NEW v \in Payloads \union {NoPayload},
                        Answered(i, v)
                 PROVE  i <= innerMeta[Pair] /\ v \in asked[i] .. storeB'[Key(i)]
      BY <1>1, <1>2 DEF AnswersFresh
    <2>1. /\ i <= innerMeta[Pair] /\ Key(i) \in Keys /\ storeB[Key(i)] \in 0 .. MaxVersion
          /\ asked[i] \in 0 .. storeB[Key(i)] /\ v \in asked[i] .. storeB[Key(i)]
      BY AnswerAt
    <2>2. storeB[Key(i)] <= storeB'[Key(i)] /\ storeB'[Key(i)] \in Int
      BY <1>3, <2>1
    <2> QED BY <2>1, <2>2
  <1>7. AnswersOrdered'
    BY <1>2 DEF IInv, AnswersOrdered
  <1>8. CopiesCalled'
    BY <1>1, <1>2 DEF IInv, CopiesCalled
  <1>9. NewestKept'
    <2>1. \A l \in Keys : CopiesOf(l)' = CopiesOf(l)
      BY <1>1, <1>2 DEF CopiesOf
    <2> QED BY <1>1, <2>1, CopiesFrame DEF IInv
  <1> QED BY <1>2, <1>4, <1>5, <1>6, <1>7, <1>8, <1>9 DEF IInv

(* A get is emitted at the version B has. *)
LEMMA GetRemoteInv ==
  ASSUME IInv, NEW k \in Keys, GetRemote(k) PROVE IInv'
  <1> DEFINE e == [key |-> k]
  <1>1. /\ Emit(e)
        /\ asked' = [asked EXCEPT ![outterMeta[Pair] + 1] = storeB[k]]
        /\ UNCHANGED <<storeA, storeB, copied>>
    BY DEF GetRemote, stores
  <1>2. e \in Events /\ e.key = k
    BY EventsAssumption
  <1>3. PICK i : i = outterMeta[Pair] + 1
    OBVIOUS
  <1>4. /\ i \in Indices /\ ~(i <= outterMeta[Pair])
        /\ outterMeta' = [outterMeta EXCEPT ![Pair] = i]
        /\ outMessages' = [outMessages EXCEPT ![Pair][i] = e]
        /\ UNCHANGED called
    <2> HIDE DEF e
    <2> QED BY <1>1, <1>2, <1>3, EmitEffect DEF IInv
  <1>5. RelayInv'
    <2> HIDE DEF e
    <2> QED BY <1>1, <1>2, EmitInv DEF IInv
  <1>6. UNCHANGED <<innerMeta, receiptMessages, payloads, receipts, answers>>
    BY <1>1 DEF Emit, varsDst, varsHub
  <1>7. outterMeta'[Pair] = i /\ asked' = [asked EXCEPT ![i] = storeB[k]]
    BY <1>1, <1>3, <1>4, Types DEF IInv
  <1>8. Key(i)' = k
    <2>1. outMessages'[Pair][i] = e
      <3> HIDE DEF e
      <3> QED BY <1>4, Types DEF IInv
    <2> QED BY <1>2, <2>1 DEF Key
  <1>9. ASSUME NEW j \in Indices, j <= outterMeta[Pair]
        PROVE  j # i /\ Key(j)' = Key(j) /\ asked'[j] = asked[j]
    <2>1. j # i
      BY <1>4, <1>9
    <2>2. outMessages'[Pair][j] = outMessages[Pair][j]
      <3> HIDE DEF e
      <3> QED BY <1>4, <2>1, Types DEF IInv
    <2>3. asked'[j] = asked[j]
      BY <1>7, <2>1, SwapTypes DEF IInv
    <2> QED BY <2>1, <2>2, <2>3 DEF Key
  <1>10. \A j, v : Answered(j, v)' <=> Answered(j, v)
    BY <1>6 DEF Answered, Stored
  <1>11. storeB[k] \in 0 .. MaxVersion
    BY SwapTypes DEF IInv
  <1>12. TypeOK'
    <2>1. asked' \in [Indices -> (0 .. MaxVersion) \union {Nothing}]
      BY <1>7, <1>11, SwapTypes DEF IInv
    <2> QED BY <1>1, <1>5, <2>1, SwapTypes, SwapTypeParts DEF IInv
  <1>13. AskedKnown'
    <2> SUFFICES ASSUME NEW j \in Indices, j <= i
                 PROVE  asked'[j] \in 0 .. storeB[Key(j)']
      BY <1>1, <1>7 DEF AskedKnown
    <2>1. CASE j = i
      <3>1. asked'[i] = storeB[k]
        BY <1>4, <1>7, SwapTypes DEF IInv
      <3> QED BY <1>8, <1>11, <2>1, <3>1
    <2>2. CASE j # i
      <3>1. j <= outterMeta[Pair]
        BY <1>3, <2>2, Types DEF IInv, Indices
      <3> QED BY <1>9, <3>1 DEF IInv, AskedKnown
    <2> QED BY <2>1, <2>2
  <1>14. AnswersFresh'
    <2> SUFFICES ASSUME NEW j \in Indices, NEW v \in Payloads \union {NoPayload},
                        Answered(j, v)
                 PROVE  j <= innerMeta[Pair] /\ v \in asked'[j] .. storeB[Key(j)']
      BY <1>1, <1>6, <1>10 DEF AnswersFresh
    <2> QED BY <1>9, AnswerAt
  <1>15. AnswersOrdered'
    <2> SUFFICES ASSUME NEW j \in Indices, NEW l \in Indices,
                        NEW v \in Payloads \union {NoPayload},
                        NEW w \in Payloads \union {NoPayload},
                        j < l, Answered(j, v), Answered(l, w), Key(j)' = Key(l)'
                 PROVE  v <= w
      BY <1>10 DEF AnswersOrdered
    <2>1. Key(j) = Key(l)
      BY <1>9, AnswerAt
    <2> QED BY <2>1 DEF IInv, AnswersOrdered
  <1>16. CopiesCalled'
    BY <1>1, <1>4, <1>6 DEF IInv, CopiesCalled
  <1>17. NewestKept'
    <2>1. ASSUME NEW j \in Indices, copied[j] # Nothing PROVE Key(j)' = Key(j)
      <3>1. called[Pair][j] # <<>>
        <4>1. <<"callback">> # <<>>
          OBVIOUS
        <4> QED BY <2>1, <4>1 DEF IInv, CopiesCalled
      <3>2. j <= outterMeta[Pair]
        BY <3>1, SrcAt DEF IInv
      <3> QED BY <1>9, <3>2
    <2>2. \A l \in Keys : CopiesOf(l)' = CopiesOf(l)
      BY <1>1, <2>1 DEF CopiesOf, Key
    <2> QED BY <1>1, <2>2, CopiesFrame DEF IInv
  <1> QED BY <1>5, <1>12, <1>13, <1>14, <1>15, <1>16, <1>17 DEF IInv

(* B answers a get with the version of the moment: later gets are executed *)
(* later.  A get that is read again has no answer of success any more.     *)
LEMMA SubmitIBTPInv ==
  ASSUME IInv, NEW i \in Indices, NEW st \in Opened, SubmitIBTP(i, st) PROVE IInv'
  <1> DEFINE u == storeB[Key(i)]
  <1>1. Deliver(i, st, TRUE, u) /\ UNCHANGED <<storeA, storeB, asked, copied>>
    BY DEF SubmitIBTP, InterchainGet, Key, stores, history
  <1>2. /\ <<i, st>> \in ibtps
        /\ \/ st = Begin /\ Executes(i, TRUE, u)
           \/ st # Begin /\ Reverses(i, TRUE, u)
           \/ st # Begin /\ Cancels(i)
        /\ UNCHANGED <<varsSrc, varsHub>>
    <2> HIDE DEF u
    <2> QED BY <1>1, DeliverEffect DEF IInv
  <1>3. i <= outterMeta[Pair]
    <2>1. hub[i] # None
      <3>1. None \notin {BeginFailure, BeginRollback, Failure, Rollback}
        BY DEF None, BeginFailure, BeginRollback, Failure, Rollback
      <3> QED BY <1>2, <3>1, FetchedAt DEF IInv, Opened
    <2> QED BY <2>1 DEF IInv, RelayInv, HubBehind
  <1>4. Key(i) \in Keys /\ u \in 0 .. MaxVersion /\ asked[i] \in 0 .. u
    <2>1. Key(i) \in Keys
      BY <1>3, KeyAt DEF IInv
    <2> QED BY <1>3, <2>1, SwapTypes DEF IInv, AskedKnown
  <1>5. RelayInv'
    <2>1. u \in Payloads \union {NoPayload}
      BY <1>4, PayloadsAssumption
    <2> HIDE DEF u
    <2> QED BY <1>1, <2>1, DeliverInv DEF IInv
  <1>6. UNCHANGED <<outterMeta, outMessages, called, receipts, answers>>
    BY <1>2 DEF varsSrc, varsHub
  <1>7. \A j : Key(j)' = Key(j)
    BY <1>6 DEF Key
  <1>8. TypeOK'
    BY <1>1, <1>5, SwapTypes, SwapTypeParts DEF IInv
  <1>9. AskedKnown'
    BY <1>1, <1>6, <1>7 DEF IInv, AskedKnown
  <1>10. CopiesCalled'
    BY <1>1, <1>6 DEF IInv, CopiesCalled
  <1>11. NewestKept'
    <2>1. \A l \in Keys : CopiesOf(l)' = CopiesOf(l)
      BY <1>1, <1>6 DEF CopiesOf
    <2> QED BY <1>1, <2>1, CopiesFrame DEF IInv
  <1>12. ASSUME NEW j \in Indices, NEW v, Answered(j, v)'
         PROVE  Answered(j, v) \/ (st = Begin /\ Executes(i, TRUE, u) /\ j = i /\ v = u)
    <2>1. CASE <<j, 1, v>> \in receipts
      BY <2>1 DEF Answered
    <2>2. CASE <<j, 1, v>> \notin receipts
      <3>1. receiptMessages'[Pair][j] = 1 /\ payloads'[j] = v
        BY <1>6, <1>12, <2>2 DEF Answered, Stored
      <3>2. /\ receiptMessages \in [{Pair} -> [Indices -> 0 .. 4]]
            /\ payloads \in [Indices -> Payloads \union {NoPayload}]
        BY Types DEF IInv, RelayInv, RelayTypeOK
      <3>3. CASE j # i
        <4>1. PICK t, p : /\ receiptMessages' = [receiptMessages EXCEPT ![Pair][i] = t]
                          /\ payloads' = [payloads EXCEPT ![i] = p]
          <5> HIDE DEF u
          <5> QED BY <1>2 DEF Executes, Reverses, Cancels
        <4>2. receiptMessages[Pair][j] = 1 /\ payloads[j] = v
          BY <3>1, <3>2, <3>3, <4>1
        <4> QED BY <4>2 DEF Answered, Stored
      <3>4. CASE j = i /\ st = Begin /\ Executes(i, TRUE, u)
        <4>1. payloads'[i] = u
          <5> HIDE DEF u
          <5> QED BY <3>2, <3>4 DEF Executes
        <4> QED BY <3>1, <3>4, <4>1
      <3>5. CASE j = i /\ st # Begin
        <4>1. PICK t \in 2 .. 4 : receiptMessages' = [receiptMessages EXCEPT ![Pair][i] = t]
          <5> HIDE DEF u
          <5> QED BY <1>2, <3>5 DEF Reverses, Cancels
        <4>2. receiptMessages'[Pair][i] = t
          BY <3>2, <4>1
        <4> QED BY <3>1, <3>5, <4>1, <4>2
      <3> HIDE DEF u
      <3> QED BY <1>2, <3>3, <3>4, <3>5
    <2> QED BY <2>1, <2>2
  <1>13. innerMeta[Pair] \in Int /\ innerMeta'[Pair] \in {innerMeta[Pair], innerMeta[Pair] + 1}
    <2> HIDE DEF u
    <2> QED BY <1>2, Types DEF IInv, Executes, Reverses, Cancels
  <1>14. AnswersFresh'
    <2> SUFFICES ASSUME NEW j \in Indices, NEW v \in Payloads \union {NoPayload},
                        Answered(j, v)'
                 PROVE  j <= innerMeta'[Pair] /\ v \in asked[j] .. storeB[Key(j)]
      BY <1>1, <1>7 DEF AnswersFresh
    <2>1. CASE Answered(j, v)
      <3>1. j <= innerMeta[Pair] /\ v \in asked[j] .. storeB[Key(j)]
        BY <2>1, AnswerAt
      <3> QED BY <1>13, <3>1 DEF Indices
    <2>2. CASE Executes(i, TRUE, u) /\ j = i /\ v = u
      <3>1. innerMeta'[Pair] = i
        <4> HIDE DEF u
        <4> QED BY <2>2, Types DEF IInv, Executes
      <3> QED BY <1>4, <2>2, <3>1 DEF Indices
    <2> QED BY <1>12, <2>1, <2>2
  <1>15. AnswersOrdered'
    <2> SUFFICES ASSUME NEW j \in Indices, NEW l \in Indices,
                        NEW v \in Payloads \union {NoPayload},
                        NEW w \in Payloads \union {NoPayload},
                        j < l, Answered(j, v)', Answered(l, w)', Key(j) = Key(l)
                 PROVE  v <= w
      BY <1>7 DEF AnswersOrdered
    <2>1. CASE Answered(j, v) /\ Answered(l, w)
      BY <2>1 DEF IInv, AnswersOrdered
    <2>2. CASE Answered(j, v) /\ l = i /\ w = u
      BY <2>2, AnswerAt
    <2>3. CASE Executes(i, TRUE, u) /\ j = i
      <3>1. i = innerMeta[Pair] + 1
        BY <2>3 DEF Executes
      <3>2. ~(l <= innerMeta[Pair]) /\ l # i
        BY <1>13, <2>3, <3>1 DEF Indices
      <3>3. Answered(l, w)
        BY <1>12, <3>2
      <3> QED BY <3>2, <3>3, AnswerAt
    <2> QED BY <1>12, <2>1, <2>2, <2>3
  <1> QED BY <1>5, <1>8, <1>9, <1>10, <1>11, <1>14, <1>15 DEF IInv

(* A success stores its answer, the newest copy of its key: gets are       *)
(* settled in order.                                                       *)
LEMMA SubmitReceiptInv ==
  ASSUME IInv, NEW i \in Indices, SubmitReceipt(i) PROVE IInv'
  <1> DEFINE v == answers[i]
  <1>1. Settle(i) /\ UNCHANGED <<storeB, asked>>
    BY DEF SubmitReceipt
  <1>2. UNCHANGED <<varsDst, varsHub>>
    BY <1>1 DEF Settle
  <1>3. RelayInv'
    BY <1>1, <1>2, SettleInv DEF IInv
  <1>4. /\ i <= outterMeta[Pair] /\ called[Pair][i] = <<>>
        /\ called' = [called EXCEPT ![Pair][i] =
                        IF hub[i] = Success THEN <<"callback">> ELSE <<"rollback">>]
        /\ CallsRollback(i) <=> hub[i] # Success
        /\ UNCHANGED <<outterMeta, outMessages>>
    BY <1>1, SettleEffect DEF IInv
  <1>5. UNCHANGED <<innerMeta, receiptMessages, payloads, receipts, answers>>
    BY <1>2 DEF varsDst, varsHub
  <1>6. AskedKnown' /\ AnswersFresh' /\ AnswersOrdered'
    <2>1. \A j, w : Answered(j, w)' <=> Answered(j, w)
      BY <1>5 DEF Answered, Stored
    <2> QED BY <1>1, <1>4, <1>5, <2>1, AnswersFrame
  <1>7. ASSUME NEW j \in Indices, copied[j] # Nothing
        PROVE  /\ j < i /\ called'[Pair][j] = <<"callback">> /\ copied[j] = answers[j]
    <2>1. called[Pair][j] = <<"callback">> /\ copied[j] = answers[j]
      BY <1>7 DEF IInv, CopiesCalled
    <2>2. <<"callback">> # <<>>
      OBVIOUS
    <2>3. j # i
      BY <1>4, <2>1, <2>2
    <2>4. called'[Pair][j] = called[Pair][j]
      BY <1>4, <2>3, Types DEF IInv
    <2>5. j <= callbackMeta[Pair]
      BY <2>1, <2>2, SrcAt DEF IInv
    <2>6. i = callbackMeta[Pair] + 1
      BY <1>1, SettleEffect DEF IInv
    <2>7. j < i
      BY <2>5, <2>6, Types DEF IInv, Indices
    <2> QED BY <2>1, <2>4, <2>7
  <1>8. CASE UNCHANGED <<storeA, copied>>
    <2>1. TypeOK'
      BY <1>1, <1>3, <1>8, SwapTypes, SwapTypeParts DEF IInv
    <2>2. CopiesCalled'
      BY <1>5, <1>7, <1>8 DEF CopiesCalled
    <2>3. NewestKept'
      <3>1. \A l \in Keys : CopiesOf(l)' = CopiesOf(l)
        BY <1>4, <1>8 DEF CopiesOf
      <3> QED BY <1>8, <3>1, CopiesFrame DEF IInv
    <2> QED BY <1>3, <1>6, <2>1, <2>2, <2>3 DEF IInv
  <1>9. CASE /\ ~CallsRollback(i)
             /\ storeA' = [storeA EXCEPT ![Key(i)] = v]
             /\ copied' = [copied EXCEPT ![i] = v]
    <2>1. hub[i] = Success
      BY <1>4, <1>9
    <2>2. v \in 0 .. MaxVersion /\ Key(i) \in Keys
      <3>1. v \in Payloads \union {NoPayload} /\ <<i, 1, v>> \in receipts
        BY <2>1 DEF IInv, RelayInv, RelayTypeOK, SuccessProved
      <3> HIDE DEF v
      <3>2. Answered(i, v)
        BY <3>1 DEF Answered
      <3> QED BY <3>1, <3>2, AnswerAt
    <2>3. TypeOK'
      <3>1. storeA' \in [Keys -> (0 .. MaxVersion) \union {Own}]
        BY <1>9, <2>2, SwapTypes DEF IInv
      <3>2. copied' \in [Indices -> (0 .. MaxVersion) \union {Nothing}]
        BY <1>9, <2>2, SwapTypes DEF IInv
      <3> QED BY <1>1, <1>3, <3>1, <3>2, SwapTypes, SwapTypeParts DEF IInv
    <2>4. ASSUME NEW j \in Indices
          PROVE  copied'[j] = IF j = i THEN v ELSE copied[j]
      BY <1>9, SwapTypes DEF IInv
    <2>5. copied'[i] = v /\ v # Nothing /\ v # Own
      <3>1. copied'[i] = v
        BY <2>4
      <3> HIDE DEF v
      <3> QED BY <2>2, <3>1, OwnAssumption DEF Nothing
    <2>6. CopiesCalled'
      <3> SUFFICES ASSUME NEW j \in Indices, copied'[j] # Nothing
                   PROVE  called'[Pair][j] = <<"callback">> /\ copied'[j] = answers[j]
        BY <1>5 DEF CopiesCalled
      <3>1. CASE j = i
        <4>1. called'[Pair][i] = <<"callback">>
          BY <1>4, <2>1, Types DEF IInv
        <4> QED BY <2>5, <3>1, <4>1
      <3>2. CASE j # i
        BY <1>7, <2>4, <3>2
      <3> QED BY <3>1, <3>2
    <2>7. ASSUME NEW l \in Keys, l # Key(i) PROVE CopiesOf(l)' = CopiesOf(l)
      BY <1>4, <2>4, <2>5, <2>7 DEF CopiesOf, Key
    <2>8. NewestKept'
      <3> SUFFICES ASSUME NEW l \in Keys, storeA'[l] # Own
                   PROVE  storeA'[l] = IF CopiesOf(l)' = {} THEN 0
                                       ELSE copied'[Max(CopiesOf(l)')]
        BY DEF NewestKept
      <3>1. CASE l = Key(i)
        <4> DEFINE S == CopiesOf(l)'
        <4>1. S = CopiesOf(l) \union {i} /\ CopiesOf(l) \subseteq Indices
          <5>1. S = CopiesOf(l) \union {i}
            BY <1>4, <2>4, <2>5, <3>1 DEF CopiesOf, Key
          <5>2. CopiesOf(l) \subseteq Indices
            BY DEF CopiesOf
          <5> QED BY <5>1, <5>2
        <4>2. \A j \in CopiesOf(l) : j < i
          BY <1>7 DEF CopiesOf
        <4>3. S \subseteq Indices /\ i \in S /\ \A j \in S : j <= i
          <5> HIDE DEF S
          <5> QED BY <4>1, <4>2 DEF Indices
        <4> HIDE DEF S
        <4>4. Max(S) = i
          BY <4>3, MaxIs
        <4>5. storeA'[l] = v
          BY <1>9, <3>1, SwapTypes DEF IInv
        <4>6. S # {} /\ storeA'[l] = IF S = {} THEN 0 ELSE copied'[Max(S)]
          BY <2>5, <4>3, <4>4, <4>5
        <4> QED BY <4>6 DEF S
      <3>2. CASE l # Key(i)
        <4>1. storeA'[l] = storeA[l]
          BY <1>9, <3>2, SwapTypes DEF IInv
        <4>2. CopiesOf(l)' = CopiesOf(l)
          BY <2>7, <3>2
        <4>3. storeA[l] = IF CopiesOf(l) = {} THEN 0 ELSE copied[Max(CopiesOf(l))]
          BY <4>1 DEF IInv, NewestKept
        <4>4. CopiesOf(l) # {} => copied'[Max(CopiesOf(l))] = copied[Max(CopiesOf(l))]
          <5> SUFFICES ASSUME CopiesOf(l) # {}
                       PROVE  copied'[Max(CopiesOf(l))] = copied[Max(CopiesOf(l))]
            OBVIOUS
          <5>1. CopiesOf(l) \subseteq Indices /\ i \notin CopiesOf(l)
            BY <3>2 DEF CopiesOf, Key
          <5>2. Max(CopiesOf(l)) \in CopiesOf(l)
            BY <5>1, MaxIn
          <5>3. Max(CopiesOf(l)) \in Indices /\ Max(CopiesOf(l)) # i
            BY <5>1, <5>2
          <5> QED BY <2>4, <5>3
        <4> QED BY <4>1, <4>2, <4>3, <4>4
      <3> QED BY <3>1, <3>2
    <2> QED BY <1>3, <1>6, <2>3, <2>6, <2>8 DEF IInv
  <1> QED BY <1>8, <1>9 DEF SubmitReceipt, InterchainSet, Key

(* A step of the hub or of a pier: no answer is invented on the way. *)
LEMMA TransportStep ==
  ASSUME IInv, Transport, UNCHANGED <<stores, history>> PROVE IInv'
  <1>1. RelayInv'
    BY TransportInv DEF IInv
  <1>2. UNCHANGED <<varsSrc, varsDst>>
    BY DEF Transport, HubAccept, HubTimeout, Fetch, PollReceipt, HubReceipt
  <1>3. /\ UNCHANGED <<outterMeta, outMessages, called, innerMeta, receiptMessages, payloads>>
        /\ UNCHANGED <<storeA, storeB, asked, copied>>
    BY <1>2 DEF varsSrc, varsDst, stores, history
  <1>4. \/ UNCHANGED receipts
        \/ \E i \in Indices : receipts' = receipts \union {generateReceipt(i)}
    BY DEF Transport, HubAccept, HubTimeout, Fetch, PollReceipt, HubReceipt
  <1>5. ASSUME NEW j \in Indices, NEW v, Answered(j, v)' PROVE Answered(j, v)
    <2>1. CASE \E i \in Indices : <<j, 1, v>> = generateReceipt(i)
      BY <2>1 DEF Answered, Stored, generateReceipt
    <2>2. CASE ~\E i \in Indices : <<j, 1, v>> = generateReceipt(i)
      <3>1. <<j, 1, v>> \in receipts' => <<j, 1, v>> \in receipts
        BY <1>4, <2>2
      <3> QED BY <1>3, <1>5, <3>1 DEF Answered, Stored
    <2> QED BY <2>1, <2>2
  <1>6. AskedKnown' /\ AnswersFresh' /\ AnswersOrdered'
    BY <1>3, <1>5, AnswersFrame
  <1>7. CopiesCalled'
    <2> SUFFICES ASSUME NEW j \in Indices, copied[j] # Nothing
                 PROVE  called[Pair][j] = <<"callback">> /\ copied[j] = answers'[j]
      BY <1>3 DEF CopiesCalled
    <2>1. called[Pair][j] = <<"callback">> /\ copied[j] = answers[j]
      BY DEF IInv, CopiesCalled
    <2>2. hub[j] = Success
      BY <2>1 DEF IInv, RelayInv, VerdictsKept
    <2>3. answers'[j] = answers[j]
      <3>1. CASE UNCHANGED answers
        BY <3>1
      <3>2. CASE \E i \in Indices, typ \in 1 .. 4 : HubReceipt(i, typ)
        <4>1. PICK i \in Indices, typ \in 1 .. 4 : HubReceipt(i, typ)
          BY <3>2
        <4>2. PICK payload \in Payloads \union {NoPayload}, new \in Decided :
                /\ \/ hub[i] = Begin /\ typ = 1 /\ new = Success
                   \/ hub[i] \in {Begin, BeginFailure} /\ typ = 2 /\ new = Failure
                   \/ hub[i] = BeginRollback /\ typ = 3 /\ new = Rollback
                /\ answers' = [answers EXCEPT ![i] = IF new = Success THEN payload ELSE @]
          <5>1. RelayInv
            BY DEF IInv
          <5>2. \E payload \in Payloads \union {NoPayload}, new \in Decided :
                  /\ <<i, typ, payload>> \in receipts
                  /\ \/ hub[i] = Begin /\ typ = 1 /\ new = Success
                     \/ hub[i] \in {Begin, BeginFailure} /\ typ = 2 /\ new = Failure
                     \/ hub[i] = BeginRollback /\ typ = 3 /\ new = Rollback
                  /\ hub' = [hub EXCEPT ![i] = new]
                  /\ answers' = [answers EXCEPT ![i] = IF new = Success THEN payload ELSE @]
                  /\ UNCHANGED <<varsSrc, varsDst, ibtps, receipts>>
            BY <4>1, <5>1, HubReceiptEffect
          <5> QED BY <5>2
        <4>3. hub[i] # Success
          BY <4>2 DEF Begin, BeginFailure, BeginRollback, Success
        <4>4. j # i
          BY <2>2, <4>3
        <4>5. answers \in [Indices -> Payloads \union {NoPayload}]
          BY DEF IInv, RelayInv, RelayTypeOK
        <4> QED BY <4>2, <4>4, <4>5
      <3> QED BY <3>1, <3>2 DEF Transport, HubAccept, HubTimeout, Fetch, PollReceipt
    <2> QED BY <2>1, <2>3
  <1>8. TypeOK'
    BY <1>1, <1>3, SwapTypes, SwapTypeParts DEF IInv
  <1>9. NewestKept'
    <2>1. \A l \in Keys : CopiesOf(l)' = CopiesOf(l)
      BY <1>3 DEF CopiesOf
    <2> QED BY <1>3, <2>1, CopiesFrame DEF IInv
  <1> QED BY <1>1, <1>6, <1>7, <1>8, <1>9 DEF IInv

(* A step that changes nothing. *)
LEMMA StutterStep ==
  ASSUME IInv, UNCHANGED vars PROVE IInv'
  <1>1. UNCHANGED varsRelay /\ UNCHANGED <<storeA, storeB, asked, copied>>
    BY DEF vars, stores, history
  <1>2. /\ RelayInv' /\ UNCHANGED <<outterMeta, outMessages, innerMeta, called, answers>>
        /\ \A i, v : Answered(i, v)' <=> Answered(i, v)
    BY <1>1, SwapFrame
  <1>3. AskedKnown' /\ AnswersFresh' /\ AnswersOrdered'
    BY <1>1, <1>2, AnswersFrame
  <1>4. CopiesCalled'
    BY <1>1, <1>2 DEF IInv, CopiesCalled
  <1>5. TypeOK'
    BY <1>1, <1>2, SwapTypes, SwapTypeParts DEF IInv
  <1>6. NewestKept'
    <2>1. \A l \in Keys : CopiesOf(l)' = CopiesOf(l)
      BY <1>1, <1>2 DEF CopiesOf
    <2> QED BY <1>1, <2>1, CopiesFrame DEF IInv
  <1> QED BY <1>2, <1>3, <1>4, <1>5, <1>6 DEF IInv

(* Nothing was asked, and nothing set. *)
LEMMA InitInv == Init => IInv
  <1> SUFFICES ASSUME Init PROVE IInv
    OBVIOUS
  <1>1. RelayInv
    BY RelayInitInv DEF Init
  <1>2. /\ storeA = [k \in Keys |-> 0] /\ storeB = [k \in Keys |-> 0]
        /\ asked = [i \in Indices |-> Nothing] /\ copied = [i \in Indices |-> Nothing]
    BY DEF Init
  <1>3. outterMeta[Pair] = 0 /\ receipts = {}
    BY DEF Init, RelayInit, Src!Init, Src!Zeros
  <1>4. TypeOK
    BY <1>1, <1>2 DEF TypeOK, RelayInv
  <1>5. AskedKnown
    BY <1>3 DEF AskedKnown, Indices
  <1>6. \A i \in Indices : \A v : ~Answered(i, v)
    <2> SUFFICES ASSUME NEW i \in Indices PROVE receiptMessages[Pair][i] # 1
      BY <1>3 DEF Answered, Stored
    <2> QED BY DEF Init, RelayInit, Dst!Init, Dst!NoReceipts, Dst!Indices, Indices
  <1>7. AnswersFresh /\ AnswersOrdered
    BY <1>6 DEF AnswersFresh, AnswersOrdered
  <1>8. CopiesCalled
    BY <1>2 DEF CopiesCalled
  <1>9. NewestKept
    <2>1. \A k \in Keys : CopiesOf(k) = {}
      BY <1>2 DEF CopiesOf
    <2> QED BY <1>2, <2>1 DEF NewestKept
  <1> QED BY <1>1, <1>4, <1>5, <1>7, <1>8, <1>9 DEF IInv

-----------------------------------------------------------------------------

(* Every step keeps the invariant. *)
LEMMA NextInv == IInv /\ [Next]_vars => IInv'
  <1> SUFFICES ASSUME IInv, [Next]_vars PROVE IInv'
    OBVIOUS
  <1>1. CASE \E k \in Keys : GetRemote(k) \/ SetA(k) \/ SetB(k)
    BY <1>1, GetRemoteInv, SetAInv, SetBInv
  <1>2. CASE \E i \in Indices, st \in Opened : SubmitIBTP(i, st)
    BY <1>2, SubmitIBTPInv
  <1>3. CASE \E i \in Indices : SubmitReceipt(i)
    BY <1>3, SubmitReceiptInv
  <1>4. CASE Transport /\ UNCHANGED <<stores, history>>
    BY <1>4, TransportStep
  <1>5. CASE UNCHANGED vars
    BY <1>5, StutterStep
  <1> QED BY <1>1, <1>2, <1>3, <1>4, <1>5 DEF Next

(* The invariant of copying values from chain to chain. *)
THEOREM Invariance == Spec => []IInv
  BY InitInv, NextInv, PTL DEF Spec

(* The state of both chains, of the hub and of the stores keeps its type: a *)
(* copy is always a value B had, whatever the payloads a receipt carries.  *)
THEOREM TypeCorrect == Spec => []TypeOK
  <1>1. IInv => TypeOK
    BY DEF IInv
  <1> QED BY <1>1, Invariance, PTL

(* A copy is at least as new as its get, and copies of a key never go      *)
(* back: for any number of keys, gets and writes.                          *)
THEOREM FreshAlways == Spec => []Fresh
  <1>1. IInv => Fresh
    <2> SUFFICES ASSUME IInv PROVE Fresh
      OBVIOUS
    <2>1. ASSUME NEW j \in Indices, copied[j] # Nothing
          PROVE  /\ copied[j] \in Payloads \union {NoPayload}
                 /\ Answered(j, copied[j])
      <3>1. called[Pair][j] = <<"callback">> /\ copied[j] = answers[j]
        BY <2>1 DEF IInv, CopiesCalled
      <3>2. hub[j] = Success
        BY <3>1 DEF IInv, RelayInv, VerdictsKept
      <3> QED BY <3>1, <3>2 DEF IInv, RelayInv, RelayTypeOK, SuccessProved, Answered
    <2>2. ASSUME NEW k \in Keys, NEW j \in Indices, j \in CopiesOf(k)
          PROVE  asked[j] <= copied[j]
      <3>1. copied[j] # Nothing
        BY <2>2 DEF CopiesOf
      <3>2. asked[j] \in 0 .. storeB[Key(j)] /\ copied[j] \in asked[j] .. storeB[Key(j)]
        BY <2>1, <3>1, AnswerAt
      <3> QED BY <3>2
    <2>3. ASSUME NEW k \in Keys, NEW j \in Indices, j \in CopiesOf(k),
                 NEW i \in CopiesOf(k), i < j
          PROVE  copied[i] <= copied[j]
      <3>1. /\ i \in Indices /\ copied[i] # Nothing /\ copied[j] # Nothing
            /\ Key(i) = Key(j)
        BY <2>3 DEF CopiesOf, Key
      <3> QED BY <2>1, <2>3, <3>1 DEF IInv, AnswersOrdered
    <2> QED BY <2>2, <2>3 DEF Fresh
  <1> QED BY <1>1, Invariance, PTL

(* What A holds is the newest copy, unless a user of A wrote it. *)
THEOREM NewestKeptAlways == Spec => []NewestKept
  <1>1. IInv => NewestKept
    BY DEF IInv
  <1> QED BY <1>1, Invariance, PTL
=============================================================================
