-------------------------- MODULE BrokerIn_proofs --------------------------
(***************************************************************************)
(* Proofs about the destination broker, for any pairs, thresholds and      *)
(* message bound, when a pier keeps each pair's messages in order          *)
(* (RollbackWindow <= 1).  IInv, the conjunction of the invariants that    *)
(* are model-checked, is inductive.                                        *)
(***************************************************************************)
EXTENDS BrokerIn, TLAPS

IInv ==
  /\ TypeOK
  /\ RollbackBehind
  /\ CallsPaired
  /\ ReceiptForEach
  /\ ReceiptTruth

USE MaxIndexAssumption, ThresholdsAssumption, RollbackWindowAssumption

(* What IInv says of one message, in the form the step proofs use. *)
LEMMA At ==
  ASSUME IInv, NEW p \in Pairs, NEW i \in Indices
  PROVE  /\ PairedAt(p, i)
         /\ i \notin skipped[p] => (receiptMessages[p][i] # 0 <=> i <= innerMeta[p])
         /\ receiptMessages[p][i] = 1 <=> applied[p][i] = <<"ok">>
         /\ applied[p][i] \in Seq(Executions \union Reversals)
         /\ innerMeta[p] \in 0 .. MaxIndex /\ dstRollbackMeta[p] \in 0 .. MaxIndex
         /\ dstRollbackMeta[p] <= innerMeta[p]
         /\ i \in Nat /\ i >= 1 /\ i <= MaxIndex
  BY DEF IInv, TypeOK, RollbackBehind, CallsPaired, ReceiptForEach, ReceiptTruth, Indices

(* The initial state, with nothing taken, satisfies the invariant. *)
LEMMA InitInv == Init => IInv
  <1> SUFFICES ASSUME Init PROVE IInv
    OBVIOUS
  <1> USE DEF Init, Zeros, NoReceipts, NoHistory
  <1>1. TypeOK
    BY DEF TypeOK
  <1>2. RollbackBehind
    <2> SUFFICES ASSUME NEW p \in Pairs PROVE dstRollbackMeta[p] <= innerMeta[p]
      BY DEF RollbackBehind
    <2> QED BY <1>1 DEF TypeOK
  <1>3. CallsPaired
    BY DEF CallsPaired, PairedAt, Indices
  <1>4. ReceiptForEach
    BY DEF ReceiptForEach, Indices
  <1>5. ReceiptTruth
    <2>1. <<>> # <<"ok">>
      OBVIOUS
    <2> QED BY <2>1 DEF ReceiptTruth
  <1> QED BY <1>1, <1>2, <1>3, <1>4, <1>5 DEF IInv

(* An initialize by the admin starts over. *)
LEMMA InitializeInv ==
  ASSUME NEW t \in Thresholds, Initialize(t)
  PROVE  IInv'
  <1> USE DEF Initialize, InitMap, Zeros, NoReceipts, NoHistory
  <1>1. TypeOK'
    BY DEF TypeOK
  <1>2. RollbackBehind'
    BY DEF RollbackBehind
  <1>3. CallsPaired'
    BY DEF CallsPaired, PairedAt, Indices
  <1>4. ReceiptForEach'
    BY DEF ReceiptForEach, Indices
  <1>5. ReceiptTruth'
    <2>1. <<>> # <<"ok">>
      OBVIOUS
    <2> QED BY <2>1 DEF ReceiptTruth
  <1> QED BY <1>1, <1>2, <1>3, <1>4, <1>5 DEF IInv

(* A message that is not taken yet has no history. *)
LEMMA Untaken ==
  ASSUME IInv, NEW p \in Pairs, NEW i \in Indices, ~(i <= innerMeta[p])
  PROVE  /\ applied[p][i] = <<>>
         /\ i \notin skipped[p]
         /\ ~(i <= dstRollbackMeta[p])
         /\ receiptMessages[p][i] = 0
  BY At DEF PairedAt

(* A rollback that calls the service finds one execution, or a skip. *)
LEMMA Reversible ==
  ASSUME IInv, NEW p \in Pairs, NEW i \in Indices,
         i <= innerMeta[p], ~(i <= dstRollbackMeta[p])
  PROVE  /\ i \in skipped[p] => applied[p][i] = <<>>
         /\ i \notin skipped[p] => /\ Len(applied[p][i]) = 1
                                   /\ applied[p][i][1] \in Executions
  <1> DEFINE a == applied[p][i]
  <1>1. a \in Seq(Executions \union Reversals) /\ PairedAt(p, i)
    BY At
  <1>2. \A k \in 1 .. Len(a) : a[k] \in Executions /\ k = 1 /\ i \notin skipped[p]
    BY <1>1 DEF PairedAt
  <1>3. Len(a) \in Nat
    BY <1>1
  <1>4. Len(a) <= 1
    <2> SUFFICES ASSUME 2 <= Len(a) PROVE FALSE
      BY <1>3
    <2>1. 2 \in 1 .. Len(a)
      BY <1>3
    <2> QED BY <1>2, <2>1
  <1>5. CASE Len(a) = 0
    <2>1. a = <<>>
      BY <1>1, <1>5
    <2>2. i \in skipped[p]
      BY <1>1, <2>1 DEF PairedAt
    <2> QED BY <2>1, <2>2
  <1>6. CASE Len(a) = 1
    <2>1. 1 \in 1 .. Len(a)
      BY <1>6
    <2> QED BY <1>2, <1>6, <2>1
  <1>7. Len(a) = 0 \/ Len(a) = 1
    <2> SUFFICES ASSUME NEW n \in Nat, n <= 1 PROVE n = 0 \/ n = 1
      BY <1>3, <1>4
    <2> QED OBVIOUS
  <1> QED BY <1>5, <1>6, <1>7

-----------------------------------------------------------------------------

(* The three ways invokeInterchain takes effect: it runs the next message, *)
(* reverses one already taken, or cancels the next one.                    *)
Request(p, i, e) ==
  /\ i = innerMeta[p] + 1
  /\ e \in Executions
  /\ innerMeta' = [innerMeta EXCEPT ![p] = i]
  /\ dstRollbackMeta' = dstRollbackMeta
  /\ applied' = [applied EXCEPT ![p][i] = <<e>>]
  /\ receiptMessages' = [receiptMessages EXCEPT ![p][i] = IF e = "ok" THEN 1 ELSE 2]

Reversal(p, i, r, typ) ==
  /\ i <= innerMeta[p] /\ ~(i <= dstRollbackMeta[p])
  /\ r \in Reversals /\ typ \in 2 .. 4
  /\ innerMeta' = innerMeta
  /\ dstRollbackMeta' = [dstRollbackMeta EXCEPT ![p] = i]
  /\ applied' = [applied EXCEPT ![p][i] = Append(@, r)]
  /\ receiptMessages' = [receiptMessages EXCEPT ![p][i] = typ]

Cancellation(p, i, typ) ==
  /\ i = innerMeta[p] + 1
  /\ typ \in 2 .. 4
  /\ innerMeta' = [innerMeta EXCEPT ![p] = i]
  /\ dstRollbackMeta' = [dstRollbackMeta EXCEPT ![p] = i]
  /\ applied' = applied
  /\ receiptMessages' = [receiptMessages EXCEPT ![p][i] = typ]

LEMMA InterchainCases ==
  ASSUME RollbackWindow <= 1, IInv, NEW p \in Pairs, NEW i \in Indices,
         NEW s \in TxStatuses, NEW ok \in BOOLEAN, InvokeInterchain(p, i, s, ok)
  PROVE  /\ UNCHANGED <<valThreshold, skipped>>
         /\ \/ \E e \in Executions : Request(p, i, e)
            \/ \E r \in Reversals, typ \in 2 .. 4 : Reversal(p, i, r, typ)
            \/ \E typ \in 2 .. 4 : Cancellation(p, i, typ)
  <1> DEFINE ans == Answer(s, ok)
             typ == ReceiptType(s, ok)
  <1>0. /\ innerMeta \in [Pairs -> 0 .. MaxIndex]
        /\ dstRollbackMeta \in [Pairs -> 0 .. MaxIndex]
        /\ applied \in [Pairs -> [Indices -> Seq(Executions \union Reversals)]]
        /\ i \in Nat
    BY DEF IInv, TypeOK, Indices
  <1>1. /\ UNCHANGED <<valThreshold, skipped>>
        /\ receiptMessages' = [receiptMessages EXCEPT ![p][i] = typ]
    BY DEF InvokeInterchain
  <1>2. CASE s = 0
    <2>1. ans \in Executions /\ typ = IF ans = "ok" THEN 1 ELSE 2
      BY <1>2 DEF Answer, ReceiptType, Executions
    <2>2. /\ i = innerMeta[p] + 1
          /\ innerMeta' = [innerMeta EXCEPT ![p] = @ + 1]
          /\ dstRollbackMeta' = dstRollbackMeta
          /\ applied' = [applied EXCEPT ![p][i] = Append(@, ans)]
      BY <1>2 DEF InvokeInterchain, CallMade, UpdateIndexRequest, IsNextIn, MarkInCounter
    <2>3. applied[p][i] = <<>>
      BY <1>0, <2>2, Untaken
    <2>4. applied' = [applied EXCEPT ![p][i] = <<ans>>]
      BY <1>0, <2>2, <2>3
    <2>5. innerMeta' = [innerMeta EXCEPT ![p] = i]
      BY <1>0, <2>2
    <2> HIDE DEF ans, typ
    <2>6. Request(p, i, ans)
      BY <1>1, <2>1, <2>2, <2>4, <2>5 DEF Request
    <2> QED BY <1>1, <2>1, <2>6
  <1>3. CASE s # 0
    <2>1. ans \in Reversals /\ typ \in 2 .. 4
      BY <1>3 DEF Answer, ReceiptType, Reversals
    <2>2. /\ i <= innerMeta[p] + 1
          /\ ~(i <= dstRollbackMeta[p])
          /\ dstRollbackMeta' = [dstRollbackMeta EXCEPT ![p] = i]
          /\ innerMeta' = IF i = innerMeta[p] + 1
                          THEN [innerMeta EXCEPT ![p] = @ + 1] ELSE innerMeta
          /\ applied' = IF innerMeta[p] >= i
                        THEN [applied EXCEPT ![p][i] = Append(@, ans)] ELSE applied
      BY <1>0, <1>3 DEF InvokeInterchain, CallMade, UpdateIndexRollback, InWindow,
         IsLaterRollback, IsNextIn, MarkInCounter
    <2> HIDE DEF ans, typ
    <2>3. CASE i <= innerMeta[p]
      <3>1. Reversal(p, i, ans, typ)
        BY <1>0, <1>1, <2>1, <2>2, <2>3 DEF Reversal
      <3> QED BY <1>1, <2>1, <3>1
    <2>4. CASE i = innerMeta[p] + 1
      <3>1. Cancellation(p, i, typ)
        BY <1>0, <1>1, <2>1, <2>2, <2>4 DEF Cancellation
      <3> QED BY <1>1, <2>1, <3>1
    <2> QED BY <1>0, <2>2, <2>3, <2>4
  <1> QED BY <1>2, <1>3

-----------------------------------------------------------------------------

(* To prove IInv' it is enough to look at each message; the messages that  *)
(* a step leaves alone keep what At says of them.                          *)
LEMMA Pointwise ==
  ASSUME TypeOK', RollbackBehind',
         \A q \in Pairs, j \in Indices :
           /\ PairedAt(q, j)'
           /\ j \notin skipped'[q] =>
                (receiptMessages'[q][j] # 0 <=> j <= innerMeta'[q])
           /\ receiptMessages'[q][j] = 1 <=> applied'[q][j] = <<"ok">>
  PROVE  IInv'
  BY DEF IInv, CallsPaired, ReceiptForEach, ReceiptTruth

LEMMA PairedFrame ==
  ASSUME NEW q \in Pairs, NEW j \in Indices, PairedAt(q, j),
         applied'[q][j] = applied[q][j],
         j \in skipped'[q] <=> j \in skipped[q],
         j <= innerMeta'[q] <=> j <= innerMeta[q],
         j <= dstRollbackMeta[q] => j <= dstRollbackMeta'[q]
  PROVE  PairedAt(q, j)'
  BY DEF PairedAt

(* A message with a single call, an execution. *)
LEMMA PairedExecuted ==
  ASSUME NEW q \in Pairs, NEW j \in Indices, NEW e \in Executions,
         applied'[q][j] = <<e>>, j \notin skipped'[q], j <= innerMeta'[q]
  PROVE  PairedAt(q, j)'
  <1>1. Len(<<e>>) = 1 /\ <<e>>[1] = e /\ <<e>> # <<>>
    OBVIOUS
  <1>2. \A k \in 1 .. Len(<<e>>) : <<e>>[k] \in Executions /\ k = 1
    BY <1>1
  <1> QED BY <1>1, <1>2 DEF PairedAt

(* Running the next message keeps the invariant. *)
LEMMA RequestInv ==
  ASSUME IInv, NEW p \in Pairs, NEW i \in Indices, NEW e \in Executions,
         Request(p, i, e), UNCHANGED <<valThreshold, skipped>>
  PROVE  IInv'
  <1> USE DEF Request
  <1>0. /\ innerMeta \in [Pairs -> 0 .. MaxIndex]
        /\ dstRollbackMeta \in [Pairs -> 0 .. MaxIndex]
        /\ receiptMessages \in [Pairs -> [Indices -> 0 .. 4]]
        /\ applied \in [Pairs -> [Indices -> Seq(Executions \union Reversals)]]
        /\ i \in 1 .. MaxIndex
    BY DEF IInv, TypeOK, Indices
  <1>1. TypeOK'
    <2>1. <<e>> \in Seq(Executions \union Reversals)
      OBVIOUS
    <2>2. applied' \in [Pairs -> [Indices -> Seq(Executions \union Reversals)]]
      BY <1>0, <2>1
    <2>3. innerMeta' \in [Pairs -> 0 .. MaxIndex]
      BY <1>0
    <2>4. receiptMessages' \in [Pairs -> [Indices -> 0 .. 4]]
      BY <1>0
    <2> QED BY <2>2, <2>3, <2>4 DEF IInv, TypeOK
  <1>2. RollbackBehind'
    BY <1>0 DEF IInv, RollbackBehind
  <1>3. ASSUME NEW q \in Pairs, NEW j \in Indices
        PROVE  /\ PairedAt(q, j)'
               /\ j \notin skipped'[q] =>
                    (receiptMessages'[q][j] # 0 <=> j <= innerMeta'[q])
               /\ receiptMessages'[q][j] = 1 <=> applied'[q][j] = <<"ok">>
    <2>1. CASE q = p /\ j = i
      <3>1. ~(i <= innerMeta[p]) /\ i <= innerMeta'[p]
        BY <1>0
      <3>2. i \notin skipped'[p]
        BY <3>1, Untaken
      <3>3. applied'[p][i] = <<e>> /\ receiptMessages'[p][i] = IF e = "ok" THEN 1 ELSE 2
        BY <1>0
      <3>4. Len(<<e>>) = 1 /\ <<e>>[1] = e /\ <<e>> # <<>> /\ (<<e>> = <<"ok">> <=> e = "ok")
        OBVIOUS
      <3>5. PairedAt(p, i)'
        BY <3>1, <3>2, <3>3, PairedExecuted
      <3>6. receiptMessages'[p][i] # 0 /\ (receiptMessages'[p][i] = 1 <=> e = "ok")
        BY <3>3
      <3> QED BY <2>1, <3>1, <3>3, <3>4, <3>5, <3>6
    <2>2. CASE ~(q = p /\ j = i)
      <3>1. /\ applied'[q][j] = applied[q][j] /\ skipped'[q] = skipped[q]
            /\ receiptMessages'[q][j] = receiptMessages[q][j]
            /\ dstRollbackMeta'[q] = dstRollbackMeta[q]
            /\ j <= innerMeta'[q] <=> j <= innerMeta[q]
        BY <1>0, <2>2 DEF Indices
      <3>2. PairedAt(q, j)'
        BY <3>1, At, PairedFrame
      <3> QED BY <3>1, <3>2, At
    <2> QED BY <2>1, <2>2
  <1> QED BY <1>1, <1>2, <1>3, Pointwise

(* Reversing a message taken earlier keeps the invariant. *)
LEMMA ReversalInv ==
  ASSUME IInv, NEW p \in Pairs, NEW i \in Indices, NEW r \in Reversals, NEW typ \in 2 .. 4,
         Reversal(p, i, r, typ), UNCHANGED <<valThreshold, skipped>>
  PROVE  IInv'
  <1> USE DEF Reversal
  <1> DEFINE a == applied[p][i]
  <1>0. /\ innerMeta \in [Pairs -> 0 .. MaxIndex]
        /\ dstRollbackMeta \in [Pairs -> 0 .. MaxIndex]
        /\ receiptMessages \in [Pairs -> [Indices -> 0 .. 4]]
        /\ applied \in [Pairs -> [Indices -> Seq(Executions \union Reversals)]]
        /\ i \in 1 .. MaxIndex
    BY DEF IInv, TypeOK, Indices
  <1>a. a \in Seq(Executions \union Reversals)
    BY <1>0
  <1>1. TypeOK'
    <2>1. Append(a, r) \in Seq(Executions \union Reversals)
      BY <1>a
    <2>2. applied' \in [Pairs -> [Indices -> Seq(Executions \union Reversals)]]
      BY <1>0, <2>1
    <2>3. dstRollbackMeta' \in [Pairs -> 0 .. MaxIndex]
      BY <1>0
    <2>4. receiptMessages' \in [Pairs -> [Indices -> 0 .. 4]]
      BY <1>0
    <2> QED BY <2>2, <2>3, <2>4 DEF IInv, TypeOK
  <1>2. RollbackBehind'
    BY <1>0 DEF IInv, RollbackBehind
  <1>3. ASSUME NEW q \in Pairs, NEW j \in Indices
        PROVE  /\ PairedAt(q, j)'
               /\ j \notin skipped'[q] =>
                    (receiptMessages'[q][j] # 0 <=> j <= innerMeta'[q])
               /\ receiptMessages'[q][j] = 1 <=> applied'[q][j] = <<"ok">>
    <2>1. CASE q = p /\ j = i
      <3>1. i <= innerMeta'[p] /\ i <= dstRollbackMeta'[p] /\ skipped' = skipped
        BY <1>0
      <3>2. applied'[p][i] = Append(a, r) /\ receiptMessages'[p][i] = typ
        BY <1>0
      <3>3. /\ i \in skipped[p] => a = <<>>
            /\ i \notin skipped[p] => Len(a) = 1 /\ a[1] \in Executions
        <4>1. i <= innerMeta[p] /\ ~(i <= dstRollbackMeta[p])
          OBVIOUS
        <4> HIDE DEF Reversal
        <4> QED BY <4>1, Reversible
      <3>4. r \notin Executions /\ "ok" \in Executions /\ typ # 0 /\ typ # 1
        BY DEF Executions, Reversals
      <3>5. CASE i \in skipped[p]
        <4>1. Append(a, r) = <<r>> /\ Len(<<r>>) = 1 /\ <<r>>[1] = r /\ <<r>> # <<>>
          <5>1. a = <<>>
            BY <3>3, <3>5
          <5>2. Append(<<>>, r) = <<r>> /\ Len(<<r>>) = 1 /\ <<r>>[1] = r /\ <<r>> # <<>>
            OBVIOUS
          <5> QED BY <5>1, <5>2
        <4>2. <<r>> # <<"ok">>
          <5>1. <<"ok">>[1] = "ok" /\ r # "ok"
            BY <3>4
          <5> QED BY <4>1, <5>1
        <4>3. PairedAt(p, i)'
          BY <3>1, <3>2, <3>5, <4>1 DEF PairedAt
        <4> QED BY <2>1, <3>1, <3>2, <3>4, <3>5, <4>1, <4>2, <4>3
      <3>6. CASE i \notin skipped[p]
        <4> DEFINE b == Append(a, r)
        <4>1. Len(b) = 2 /\ b[1] = a[1] /\ b[2] = r /\ b # <<>>
          BY <1>a, <3>3, <3>6
        <4>2. b # <<"ok">>
          <5>1. Len(<<"ok">>) = 1
            OBVIOUS
          <5> QED BY <4>1, <5>1
        <4> HIDE DEF b
        <4>3. \A k \in 1 .. Len(b) :
                \/ b[k] \in Executions /\ k = 1
                \/ b[k] \in Reversals /\ k = 2
          BY <3>3, <3>6, <4>1
        <4>4. applied'[p][i] = b
          BY <3>2 DEF b
        <4>5. PairedAt(p, i)'
          BY <3>1, <3>6, <4>1, <4>3, <4>4 DEF PairedAt
        <4> QED BY <2>1, <3>1, <3>2, <3>4, <4>2, <4>4, <4>5
      <3> QED BY <3>5, <3>6
    <2>2. CASE ~(q = p /\ j = i)
      <3>1. /\ applied'[q][j] = applied[q][j] /\ skipped'[q] = skipped[q]
            /\ receiptMessages'[q][j] = receiptMessages[q][j]
            /\ innerMeta'[q] = innerMeta[q]
            /\ j <= dstRollbackMeta[q] => j <= dstRollbackMeta'[q]
        BY <1>0, <2>2 DEF Indices
      <3>2. PairedAt(q, j)'
        BY <3>1, At, PairedFrame
      <3> QED BY <3>1, <3>2, At
    <2> QED BY <2>1, <2>2
  <1> QED BY <1>1, <1>2, <1>3, Pointwise

(* Cancelling the next message keeps the invariant. *)
LEMMA CancellationInv ==
  ASSUME IInv, NEW p \in Pairs, NEW i \in Indices, NEW typ \in 2 .. 4,
         Cancellation(p, i, typ), UNCHANGED <<valThreshold, skipped>>
  PROVE  IInv'
  <1> USE DEF Cancellation
  <1>0. /\ innerMeta \in [Pairs -> 0 .. MaxIndex]
        /\ dstRollbackMeta \in [Pairs -> 0 .. MaxIndex]
        /\ receiptMessages \in [Pairs -> [Indices -> 0 .. 4]]
        /\ i \in 1 .. MaxIndex
    BY DEF IInv, TypeOK, Indices
  <1>1. TypeOK'
    BY <1>0 DEF IInv, TypeOK
  <1>2. RollbackBehind'
    BY <1>0 DEF IInv, RollbackBehind
  <1>3. ASSUME NEW q \in Pairs, NEW j \in Indices
        PROVE  /\ PairedAt(q, j)'
               /\ j \notin skipped'[q] =>
                    (receiptMessages'[q][j] # 0 <=> j <= innerMeta'[q])
               /\ receiptMessages'[q][j] = 1 <=> applied'[q][j] = <<"ok">>
    <2>1. CASE q = p /\ j = i
      <3>1. ~(i <= innerMeta[p]) /\ i <= innerMeta'[p] /\ i <= dstRollbackMeta'[p]
        BY <1>0
      <3>2. i \notin skipped'[p] /\ applied'[p][i] = <<>>
        BY <3>1, Untaken
      <3>3. receiptMessages'[p][i] = typ /\ typ # 0 /\ typ # 1
        BY <1>0
      <3>4. Len(<<>>) = 0 /\ <<>> # <<"ok">>
        OBVIOUS
      <3>5. PairedAt(p, i)'
        BY <3>1, <3>2, <3>4 DEF PairedAt
      <3> QED BY <2>1, <3>1, <3>2, <3>3, <3>4, <3>5
    <2>2. CASE ~(q = p /\ j = i)
      <3>1. /\ applied'[q][j] = applied[q][j] /\ skipped'[q] = skipped[q]
            /\ receiptMessages'[q][j] = receiptMessages[q][j]
            /\ j <= innerMeta'[q] <=> j <= innerMeta[q]
        BY <1>0, <2>2 DEF Indices
      <3>2. j <= dstRollbackMeta[q] => j <= dstRollbackMeta'[q]
        BY <1>0, <2>2, At DEF Indices
      <3>3. PairedAt(q, j)'
        BY <3>1, <3>2, At, PairedFrame
      <3> QED BY <3>1, <3>3, At
    <2> QED BY <2>1, <2>2
  <1> QED BY <1>1, <1>2, <1>3, Pointwise

(* The two ways invokeIndexUpdate takes effect: it takes the next message, *)
(* or closes one already taken to rollbacks.                               *)
LEMMA IndexUpdateInv ==
  ASSUME RollbackWindow <= 1, IInv, NEW p \in Pairs, NEW i \in Indices,
         NEW reqType \in {0, 2}, InvokeIndexUpdate(p, i, reqType)
  PROVE  IInv'
  <1> USE DEF InvokeIndexUpdate, UpdateIndexRequest, UpdateIndexRollback, IsNextIn,
              MarkInCounter, IsLaterRollback, InWindow
  <1>0. /\ innerMeta \in [Pairs -> 0 .. MaxIndex]
        /\ dstRollbackMeta \in [Pairs -> 0 .. MaxIndex]
        /\ skipped \in [Pairs -> SUBSET Indices]
        /\ i \in 1 .. MaxIndex
        /\ \A q \in Pairs : dstRollbackMeta[q] <= innerMeta[q]
    BY DEF IInv, TypeOK, RollbackBehind, Indices
  <1>1. UNCHANGED <<valThreshold, receiptMessages, applied>>
    OBVIOUS
  <1>2. /\ skipped' \in [Pairs -> SUBSET Indices]
        /\ \A q \in Pairs, j \in Indices :
             j \in skipped'[q] <=>
               j \in skipped[q] \/ (q = p /\ j = i /\ i = innerMeta[p] + 1)
    BY <1>0
  <1>3. /\ i <= innerMeta[p] + 1
        /\ innerMeta' = IF i = innerMeta[p] + 1
                        THEN [innerMeta EXCEPT ![p] = i] ELSE innerMeta
        /\ \/ dstRollbackMeta' = dstRollbackMeta
           \/ /\ i > dstRollbackMeta[p]
              /\ dstRollbackMeta' = [dstRollbackMeta EXCEPT ![p] = i]
    <2>1. CASE reqType = 0
      BY <1>0, <2>1
    <2>2. CASE reqType = 2
      BY <1>0, <2>2
    <2> QED BY <2>1, <2>2
  <1> HIDE DEF InvokeIndexUpdate
  <1>4. TypeOK'
    <2>1. innerMeta' \in [Pairs -> 0 .. MaxIndex]
      BY <1>0, <1>3
    <2>2. dstRollbackMeta' \in [Pairs -> 0 .. MaxIndex]
      BY <1>0, <1>3
    <2> QED BY <1>1, <1>2, <2>1, <2>2 DEF IInv, TypeOK
  <1>5. RollbackBehind'
    BY <1>0, <1>3 DEF RollbackBehind
  <1>6. ASSUME NEW q \in Pairs, NEW j \in Indices
        PROVE  /\ PairedAt(q, j)'
               /\ j \notin skipped'[q] =>
                    (receiptMessages'[q][j] # 0 <=> j <= innerMeta'[q])
               /\ receiptMessages'[q][j] = 1 <=> applied'[q][j] = <<"ok">>
    <2>1. CASE q = p /\ j = i /\ i = innerMeta[p] + 1
      <3>1. ~(i <= innerMeta[p]) /\ i <= innerMeta'[p] /\ i \in skipped'[p]
        BY <1>0, <1>2, <1>3, <2>1
      <3>2. applied'[p][i] = <<>>
        BY <1>1, <3>1, Untaken
      <3>3. Len(<<>>) = 0
        OBVIOUS
      <3>4. PairedAt(p, i)'
        BY <3>1, <3>2, <3>3 DEF PairedAt
      <3> QED BY <1>1, <2>1, <3>1, <3>4, At
    <2>2. CASE ~(q = p /\ j = i /\ i = innerMeta[p] + 1)
      <3>1. /\ j \in skipped'[q] <=> j \in skipped[q]
            /\ j <= innerMeta'[q] <=> j <= innerMeta[q]
            /\ j <= dstRollbackMeta[q] => j <= dstRollbackMeta'[q]
        BY <1>0, <1>2, <1>3, <2>2 DEF Indices
      <3>2. PairedAt(q, j)'
        BY <1>1, <3>1, At, PairedFrame
      <3> QED BY <1>1, <3>1, <3>2, At
    <2> QED BY <2>1, <2>2
  <1> QED BY <1>4, <1>5, <1>6, Pointwise

(* Every step keeps the invariant. *)
LEMMA NextInv == RollbackWindow <= 1 /\ IInv /\ [Next]_vars => IInv'
  <1> SUFFICES ASSUME RollbackWindow <= 1, IInv, [Next]_vars PROVE IInv'
    OBVIOUS
  <1>1. CASE \E t \in Thresholds : Initialize(t)
    BY <1>1, InitializeInv
  <1>2. ASSUME NEW p \in Pairs, NEW i \in Indices, NEW s \in TxStatuses,
               NEW ok \in BOOLEAN, InvokeInterchain(p, i, s, ok)
        PROVE  IInv'
    BY <1>2, InterchainCases, RequestInv, ReversalInv, CancellationInv
  <1>3. CASE \E p \in Pairs, i \in Indices, r \in {0, 2} : InvokeIndexUpdate(p, i, r)
    BY <1>3, IndexUpdateInv
  <1>4. CASE UNCHANGED vars
    BY <1>4 DEF vars, IInv, TypeOK, RollbackBehind, CallsPaired, PairedAt,
       ReceiptForEach, ReceiptTruth
  <1> QED BY <1>1, <1>2, <1>3, <1>4 DEF Next

(* The inductive invariant holds in every reachable state. *)
THEOREM Invariance ==
  ASSUME RollbackWindow <= 1 PROVE Spec => []IInv
  <1>1. IInv /\ [Next]_vars => IInv'
    BY NextInv
  <1> QED BY <1>1, InitInv, PTL DEF Spec

(* Type correctness. *)
THEOREM TypeCorrect ==
  ASSUME RollbackWindow <= 1 PROVE Spec => []TypeOK
  BY Invariance, PTL DEF IInv

(* A message's function runs at most once and its reversal only after it. *)
THEOREM CallsArePaired ==
  ASSUME RollbackWindow <= 1 PROVE Spec => []CallsPaired
  BY Invariance, PTL DEF IInv

(* Every message taken leaves a receipt to poll. *)
THEOREM ReceiptsComplete ==
  ASSUME RollbackWindow <= 1 PROVE Spec => []ReceiptForEach
  BY Invariance, PTL DEF IInv

(* Receipts tell the truth about what ran on this chain. *)
THEOREM ReceiptsTrue ==
  ASSUME RollbackWindow <= 1 PROVE Spec => []ReceiptTruth
  BY Invariance, PTL DEF IInv

(* The rollback counter stays behind the messages taken. *)
THEOREM RollbackStaysBehind ==
  ASSUME RollbackWindow <= 1 PROVE Spec => []RollbackBehind
  BY Invariance, PTL DEF IInv

-----------------------------------------------------------------------------

(* What was rolled back is closed: a request needs an index above the      *)
(* messages taken, a rollback one above the last rollback.                 *)
THEOREM RollbackIsFinal ==
  ASSUME RollbackWindow <= 1 PROVE Spec => RollbackFinal
  <1> DEFINE A == \/ \E t \in Thresholds : Initialize(t)
                  \/ \A p \in Pairs, i \in Indices : i <= dstRollbackMeta[p] =>
                       /\ applied'[p][i] = applied[p][i]
                       /\ receiptMessages'[p][i] = receiptMessages[p][i]
  <1>1. IInv /\ [Next]_vars => [A]_vars
    <2> SUFFICES ASSUME IInv, Next PROVE A
      OBVIOUS
    <2>1. CASE \E t \in Thresholds : Initialize(t)
      BY <2>1
    <2>2. ASSUME NEW p \in Pairs, NEW i \in Indices, NEW s \in TxStatuses,
                 NEW ok \in BOOLEAN, InvokeInterchain(p, i, s, ok)
          PROVE  A
      <3> SUFFICES ASSUME NEW q \in Pairs, NEW j \in Indices, j <= dstRollbackMeta[q]
                   PROVE  /\ applied'[q][j] = applied[q][j]
                          /\ receiptMessages'[q][j] = receiptMessages[q][j]
        OBVIOUS
      <3>1. ~(q = p /\ j = i)
        <4>1. ~(i <= dstRollbackMeta[p])
          <5>1. CASE \E e \in Executions : Request(p, i, e)
            BY <5>1, At DEF Request
          <5>2. CASE \E r \in Reversals, typ \in 2 .. 4 : Reversal(p, i, r, typ)
            BY <5>2 DEF Reversal
          <5>3. CASE \E typ \in 2 .. 4 : Cancellation(p, i, typ)
            BY <5>3, At DEF Cancellation
          <5> QED BY <2>2, <5>1, <5>2, <5>3, InterchainCases
        <4> QED BY <4>1
      <3> QED BY <2>2, <3>1 DEF InvokeInterchain, IInv, TypeOK
    <2>3. CASE UNCHANGED <<applied, receiptMessages>>
      BY <2>3
    <2> QED BY <2>1, <2>2, <2>3 DEF Next, InvokeIndexUpdate
  <1>2. Spec => [][A]_vars
    BY <1>1, Invariance, PTL DEF Spec
  <1> QED BY <1>2 DEF RollbackFinal

-----------------------------------------------------------------------------

(* What was withdrawn is at or below the rollback counter. *)
LEMMA WithdrawnClosed ==
  ASSUME IInv, NEW p \in Pairs, NEW i \in Indices,
         States[<<p, i>>] \in Delivery!Withdrawn
  PROVE  i <= dstRollbackMeta[p]
  <1> DEFINE a == applied[p][i]
  <1>1. /\ PairedAt(p, i) /\ a \in Seq(Executions \union Reversals)
        /\ innerMeta[p] \in 0 .. MaxIndex /\ i \in Nat
    BY At
  <1>2. StateOf(<<p, i>>) \in {"cancelled", "reversed"}
    BY DEF States, Delivery!Withdrawn
  <1>3. CASE a = <<>>
    BY <1>1, <1>2, <1>3 DEF StateOf, PairedAt
  <1>4. CASE a # <<>>
    <2>1. a # <<"ok">> /\ a # <<"fail">>
      BY <1>2 DEF StateOf
    <2>2. Len(a) \in Nat /\ Len(a) >= 1
      BY <1>1, <1>4
    <2>3. CASE Len(a) = 1
      <3>1. a = <<a[1]>>
        BY <1>1, <2>3
      <3>2. a[1] \notin Executions
        BY <2>1, <3>1 DEF Executions
      <3>3. 1 \in 1 .. Len(a)
        BY <2>2
      <3> QED BY <1>1, <3>2, <3>3 DEF PairedAt
    <2>4. CASE Len(a) >= 2
      <3>1. 2 \in 1 .. Len(a)
        BY <2>2, <2>4
      <3> QED BY <1>1, <3>1 DEF PairedAt
    <2>5. Len(a) = 1 \/ Len(a) >= 2
      <3> SUFFICES ASSUME NEW n \in Nat, n >= 1 PROVE n = 1 \/ n >= 2
        BY <2>2
      <3> QED OBVIOUS
    <2> QED BY <2>3, <2>4, <2>5
  <1> QED BY <1>3, <1>4

(* A step that leaves a message alone leaves its state alone, and one that *)
(* touches a single message changes that state only.                       *)
LEMMA StateKept ==
  ASSUME NEW q, NEW j, applied'[q][j] = applied[q][j],
         j \in skipped'[q] <=> j \in skipped[q],
         innerMeta'[q] < j <=> innerMeta[q] < j
  PROVE  StateOf(<<q, j>>)' = StateOf(<<q, j>>)
  BY DEF StateOf

LEMMA OneState ==
  ASSUME NEW p \in Pairs, NEW i \in Indices,
         \A q \in Pairs, j \in Indices : ~(q = p /\ j = i) =>
           StateOf(<<q, j>>)' = StateOf(<<q, j>>)
  PROVE  States' = [States EXCEPT ![<<p, i>>] = StateOf(<<p, i>>)']
  <1> SUFFICES ASSUME NEW m \in Pairs \X Indices
               PROVE  States'[m] = IF m = <<p, i>> THEN StateOf(<<p, i>>)' ELSE States[m]
    BY DEF States
  <1>1. PICK q \in Pairs, j \in Indices : m = <<q, j>>
    OBVIOUS
  <1>2. CASE q = p /\ j = i
    BY <1>1, <1>2 DEF States
  <1>3. CASE ~(q = p /\ j = i)
    <2>1. StateOf(<<q, j>>)' = StateOf(<<q, j>>) /\ <<q, j>> # <<p, i>>
      BY <1>3
    <2> QED BY <1>1, <2>1 DEF States
  <1> QED BY <1>2, <1>3

(* The next message of a pair is unseen, and those before it are not. *)
LEMMA NextUnseen ==
  ASSUME IInv, NEW p \in Pairs, NEW i \in Indices, i = innerMeta[p] + 1
  PROVE  Delivery!IsNext(<<p, i>>)
  <1>1. innerMeta[p] \in Nat /\ i \in Nat
    BY At DEF Indices
  <1>2. States[<<p, i>>] = "unseen"
    BY <1>1 DEF States, StateOf
  <1>3. ASSUME NEW j \in 1 .. i - 1 PROVE States[<<p, j>>] # "unseen"
    <2>1. j \in Indices /\ ~(innerMeta[p] < j)
      BY <1>1 DEF Indices
    <2> QED BY <2>1 DEF States, StateOf
  <1> QED BY <1>2, <1>3 DEF Delivery!IsNext

(* Above the rollback counter nothing is withdrawn. *)
LEMMA NoneWithdrawn ==
  ASSUME IInv, NEW p \in Pairs, NEW i \in Indices, ~(i <= dstRollbackMeta[p])
  PROVE  Delivery!NoneWithdrawnFrom(<<p, i>>)
  <1> SUFFICES ASSUME NEW j \in i .. MaxIndex PROVE States[<<p, j>>] \notin Delivery!Withdrawn
    BY DEF Delivery!NoneWithdrawnFrom
  <1>1. j \in Indices /\ ~(j <= dstRollbackMeta[p])
    BY At DEF Indices
  <1> QED BY <1>1, WithdrawnClosed

(* The cases of invokeInterchain are Take, Reverse and Cancel. *)
LEMMA RequestTakes ==
  ASSUME IInv, NEW p \in Pairs, NEW i \in Indices, NEW e \in Executions,
         Request(p, i, e), UNCHANGED skipped
  PROVE  \E how \in Delivery!Executed : Delivery!Take(<<p, i>>, how)
  <1>0. /\ innerMeta \in [Pairs -> 0 .. MaxIndex]
        /\ applied \in [Pairs -> [Indices -> Seq(Executions \union Reversals)]]
        /\ i \in Nat /\ i = innerMeta[p] + 1
    BY DEF IInv, TypeOK, Indices, Request
  <1>1. Delivery!IsNext(<<p, i>>)
    BY <1>0, NextUnseen
  <1>2. StateOf(<<p, i>>)' = IF e = "ok" THEN "succeeded" ELSE "failed"
    <2>1. applied'[p][i] = <<e>> /\ ~(innerMeta'[p] < i)
      BY <1>0 DEF Request
    <2>2. e = "ok" \/ e = "fail"
      BY DEF Executions
    <2>3. <<"ok">> # <<"fail">>
      <3>1. <<"ok">>[1] = "ok" /\ <<"fail">>[1] = "fail"
        OBVIOUS
      <3> QED BY <3>1
    <2> QED BY <2>1, <2>2, <2>3 DEF StateOf
  <1>3. ASSUME NEW q \in Pairs, NEW j \in Indices, ~(q = p /\ j = i)
        PROVE  StateOf(<<q, j>>)' = StateOf(<<q, j>>)
    <2>1. /\ applied'[q][j] = applied[q][j]
          /\ innerMeta'[q] < j <=> innerMeta[q] < j
      BY <1>0, <1>3 DEF Request, Indices
    <2> QED BY <2>1, StateKept
  <1>4. States' = [States EXCEPT ![<<p, i>>] = StateOf(<<p, i>>)']
    BY <1>3, OneState
  <1>5. StateOf(<<p, i>>)' \in Delivery!Executed
    BY <1>2 DEF Delivery!Executed
  <1> QED BY <1>1, <1>4, <1>5 DEF Delivery!Take

LEMMA ReversalReverses ==
  ASSUME IInv, NEW p \in Pairs, NEW i \in Indices, NEW r \in Reversals,
         NEW typ \in 2 .. 4, Reversal(p, i, r, typ), UNCHANGED skipped
  PROVE  Delivery!Reverse(<<p, i>>)
  <1> DEFINE a == applied[p][i]
  <1>0. /\ innerMeta \in [Pairs -> 0 .. MaxIndex]
        /\ applied \in [Pairs -> [Indices -> Seq(Executions \union Reversals)]]
        /\ i \in Nat /\ i <= innerMeta[p] /\ ~(i <= dstRollbackMeta[p])
        /\ innerMeta' = innerMeta
        /\ applied' = [applied EXCEPT ![p][i] = Append(@, r)]
    BY DEF IInv, TypeOK, Indices, Reversal
  <1>1. Delivery!NoneWithdrawnFrom(<<p, i>>)
    BY <1>0, NoneWithdrawn
  <1>2. States[<<p, i>>] \in Delivery!Executed \union {"skipped"}
    <2>1. States[<<p, i>>] \notin Delivery!Withdrawn
      BY <1>0, WithdrawnClosed
    <2>2. ~(innerMeta[p] < i)
      BY <1>0
    <2> QED BY <2>1, <2>2 DEF States, StateOf, Delivery!Withdrawn, Delivery!Executed
  <1>3. StateOf(<<p, i>>)' = "reversed"
    <2>1. a \in Seq(Executions \union Reversals) /\ applied'[p][i] = Append(a, r)
      BY <1>0
    <2>2. Len(a) \in Nat /\ Append(a, r)[Len(a) + 1] = r /\ Len(Append(a, r)) = Len(a) + 1
      BY <2>1
    <2>3. r # "ok" /\ r # "fail"
      BY DEF Reversals
    <2>4. Append(a, r) # <<>> /\ Append(a, r) # <<"ok">> /\ Append(a, r) # <<"fail">>
      <3>1. /\ Len(<<>>) = 0
            /\ \A x : Len(<<x>>) = 1 /\ <<x>>[1] = x
        OBVIOUS
      <3>2. Append(a, r) # <<>>
        BY <2>2, <3>1
      <3>3. ASSUME NEW x, Append(a, r) = <<x>> PROVE x = r
        <4>1. Len(a) + 1 = 1
          BY <2>2, <3>1, <3>3
        <4>2. Append(a, r)[1] = r
          BY <2>2, <4>1
        <4> QED BY <3>1, <3>3, <4>2
      <3> QED BY <2>3, <3>2, <3>3
    <2>5. ~(innerMeta'[p] < i)
      BY <1>0
    <2> QED BY <2>1, <2>4, <2>5 DEF StateOf
  <1>4. ASSUME NEW q \in Pairs, NEW j \in Indices, ~(q = p /\ j = i)
        PROVE  StateOf(<<q, j>>)' = StateOf(<<q, j>>)
    <2>1. applied'[q][j] = applied[q][j]
      BY <1>0, <1>4
    <2> QED BY <1>0, <2>1, StateKept
  <1>5. States' = [States EXCEPT ![<<p, i>>] = "reversed"]
    BY <1>3, <1>4, OneState
  <1> QED BY <1>1, <1>2, <1>5 DEF Delivery!Reverse

LEMMA CancellationCancels ==
  ASSUME IInv, NEW p \in Pairs, NEW i \in Indices, NEW typ \in 2 .. 4,
         Cancellation(p, i, typ), UNCHANGED skipped
  PROVE  Delivery!Cancel(<<p, i>>)
  <1>0. /\ innerMeta \in [Pairs -> 0 .. MaxIndex]
        /\ i \in Nat /\ i = innerMeta[p] + 1
        /\ innerMeta' = [innerMeta EXCEPT ![p] = i]
        /\ applied' = applied
    BY DEF IInv, TypeOK, Indices, Cancellation
  <1>1. applied[p][i] = <<>> /\ i \notin skipped[p] /\ ~(i <= dstRollbackMeta[p])
    <2>1. ~(i <= innerMeta[p])
      BY <1>0
    <2> QED BY <2>1, Untaken
  <1>2. Delivery!IsNext(<<p, i>>) /\ Delivery!NoneWithdrawnFrom(<<p, i>>)
    BY <1>0, <1>1, NextUnseen, NoneWithdrawn
  <1>3. StateOf(<<p, i>>)' = "cancelled"
    <2>1. ~(innerMeta'[p] < i)
      BY <1>0
    <2>2. <<>> # <<"ok">> /\ <<>> # <<"fail">>
      OBVIOUS
    <2> QED BY <1>0, <1>1, <2>1, <2>2 DEF StateOf
  <1>4. ASSUME NEW q \in Pairs, NEW j \in Indices, ~(q = p /\ j = i)
        PROVE  StateOf(<<q, j>>)' = StateOf(<<q, j>>)
    <2>1. innerMeta'[q] < j <=> innerMeta[q] < j
      BY <1>0, <1>4 DEF Indices
    <2> QED BY <1>0, <2>1, StateKept
  <1>5. States' = [States EXCEPT ![<<p, i>>] = "cancelled"]
    BY <1>3, <1>4, OneState
  <1> QED BY <1>2, <1>5 DEF Delivery!Cancel, Delivery!Take

(* invokeIndexUpdate skips the next message, or changes no message. *)
LEMMA IndexUpdateSkips ==
  ASSUME IInv, NEW p \in Pairs, NEW i \in Indices, NEW reqType \in {0, 2},
         InvokeIndexUpdate(p, i, reqType)
  PROVE  Delivery!Take(<<p, i>>, "skipped") \/ UNCHANGED States
  <1>0. /\ innerMeta \in [Pairs -> 0 .. MaxIndex]
        /\ skipped \in [Pairs -> SUBSET Indices]
        /\ i \in Nat /\ applied' = applied
    BY DEF IInv, TypeOK, Indices, InvokeIndexUpdate
  <1>1. CASE i = innerMeta[p] + 1
    <2>1. /\ innerMeta' = [innerMeta EXCEPT ![p] = i]
          /\ skipped' = [skipped EXCEPT ![p] = @ \union {i}]
      BY <1>0, <1>1 DEF InvokeIndexUpdate, UpdateIndexRequest, UpdateIndexRollback,
         IsNextIn, MarkInCounter
    <2>2. applied[p][i] = <<>>
      <3>1. ~(i <= innerMeta[p])
        BY <1>0, <1>1
      <3> QED BY <3>1, Untaken
    <2>3. StateOf(<<p, i>>)' = "skipped"
      <3>1. ~(innerMeta'[p] < i) /\ i \in skipped'[p]
        BY <1>0, <2>1
      <3>2. <<>> # <<"ok">> /\ <<>> # <<"fail">>
        OBVIOUS
      <3> QED BY <1>0, <2>2, <3>1, <3>2 DEF StateOf
    <2>4. ASSUME NEW q \in Pairs, NEW j \in Indices, ~(q = p /\ j = i)
          PROVE  StateOf(<<q, j>>)' = StateOf(<<q, j>>)
      <3>1. /\ innerMeta'[q] < j <=> innerMeta[q] < j
            /\ j \in skipped'[q] <=> j \in skipped[q]
        BY <1>0, <1>1, <2>1, <2>4 DEF Indices
      <3> QED BY <1>0, <3>1, StateKept
    <2>5. States' = [States EXCEPT ![<<p, i>>] = "skipped"]
      BY <2>3, <2>4, OneState
    <2> QED BY <1>1, <2>5, NextUnseen DEF Delivery!Take
  <1>2. CASE i # innerMeta[p] + 1
    <2>1. innerMeta' = innerMeta /\ skipped' = skipped
      BY <1>0, <1>2 DEF InvokeIndexUpdate, UpdateIndexRequest, UpdateIndexRollback, IsNextIn
    <2> QED BY <1>0, <2>1 DEF States, StateOf
  <1> QED BY <1>1, <1>2

(* The destination broker implements Delivery: messages are taken in       *)
(* order, once, and what was withdrawn stays so until initialize.          *)
THEOREM Refinement ==
  ASSUME RollbackWindow <= 1 PROVE Spec => ImplementsDelivery
  <1>1. Init => Delivery!Init
    <2> SUFFICES ASSUME Init, NEW m \in Pairs \X Indices PROVE StateOf(m) = "unseen"
      BY DEF Delivery!Init, Delivery!Messages, States, Indices
    <2>1. m[1] \in Pairs /\ m[2] \in Nat /\ 0 < m[2]
      BY DEF Indices
    <2> QED BY <2>1 DEF Init, Zeros, StateOf
  <1>2. IInv /\ [Next]_vars => [Delivery!Next]_States
    <2> SUFFICES ASSUME IInv, [Next]_vars, ~(UNCHANGED States) PROVE Delivery!Next
      OBVIOUS
    <2>1. CASE \E t \in Thresholds : Initialize(t)
      <3> SUFFICES ASSUME NEW m \in Pairs \X Indices PROVE StateOf(m)' = "unseen"
        BY DEF Delivery!Next, Delivery!Reset, Delivery!Messages, States, Indices
      <3>1. m[1] \in Pairs /\ m[2] \in Nat /\ 0 < m[2]
        BY DEF Indices
      <3> QED BY <2>1, <3>1 DEF Initialize, InitMap, Zeros, StateOf
    <2>2. ASSUME NEW p \in Pairs, NEW i \in Indices, NEW s \in TxStatuses,
                 NEW ok \in BOOLEAN, InvokeInterchain(p, i, s, ok)
          PROVE  Delivery!Next
      <3>1. <<p, i>> \in Delivery!Messages
        BY DEF Delivery!Messages, Indices
      <3>2. UNCHANGED skipped
        BY <2>2 DEF InvokeInterchain
      <3>3. CASE \E e \in Executions : Request(p, i, e)
        BY <3>1, <3>2, <3>3, RequestTakes DEF Delivery!Next
      <3>4. CASE \E r \in Reversals, typ \in 2 .. 4 : Reversal(p, i, r, typ)
        BY <3>1, <3>2, <3>4, ReversalReverses DEF Delivery!Next
      <3>5. CASE \E typ \in 2 .. 4 : Cancellation(p, i, typ)
        BY <3>1, <3>2, <3>5, CancellationCancels DEF Delivery!Next
      <3> QED BY <2>2, <3>3, <3>4, <3>5, InterchainCases
    <2>3. ASSUME NEW p \in Pairs, NEW i \in Indices, NEW r \in {0, 2},
                 InvokeIndexUpdate(p, i, r)
          PROVE  Delivery!Next
      <3>1. <<p, i>> \in Delivery!Messages
        BY DEF Delivery!Messages, Indices
      <3> QED BY <2>3, <3>1, IndexUpdateSkips DEF Delivery!Next
    <2>4. CASE UNCHANGED vars
      BY <2>4 DEF vars, States, StateOf
    <2> QED BY <2>1, <2>2, <2>3, <2>4 DEF Next
  <1> QED BY <1>1, <1>2, Invariance, PTL DEF Spec, ImplementsDelivery, Delivery!Spec
=============================================================================
