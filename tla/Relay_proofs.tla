---------------------------- MODULE Relay_proofs ----------------------------
(***************************************************************************)
(* Proofs about relay mode, whatever the business chaincodes: what the     *)
(* modules of the two brokers prove holds of each chain, and RelayInv, on  *)
(* the hub and on what is in flight, ties the two chains together.  The    *)
(* proofs about the modules that extend Relay rest on these lemmas.        *)
(***************************************************************************)
EXTENDS Relay, SequenceTheorems, WellFoundedInduction, TLAPS

SrcP == INSTANCE BrokerOut_proofs WITH
          Pairs <- {Pair}, BrokerPairs <- {}, Thresholds <- {1},
          valThreshold <- 1, skipped <- [p \in {Pair} |-> {}],
          transactionStatus <- [t \in {Pair} \X Indices |-> 0]
DstP == INSTANCE BrokerIn_proofs WITH
          Pairs <- {Pair}, Thresholds <- {1}, RollbackWindow <- 1,
          valThreshold <- 1, skipped <- [p \in {Pair} |-> {}]

(* A message is with the hub, or executed on B, only once A stored it. *)
HubBehind ==
  /\ innerMeta[Pair] <= outterMeta[Pair]
  /\ \A i \in Indices : hub[i] # None => i <= outterMeta[Pair]

(* What was fetched says how the transaction went on: a rollback is        *)
(* fetched of none that succeeded.                                         *)
FetchedTrue ==
  \A i \in Indices :
    /\ <<i, Begin>> \in ibtps => hub[i] \notin {None, BeginFailure}
    /\ <<i, BeginFailure>> \in ibtps => hub[i] \in {BeginFailure, Failure}
    /\ <<i, BeginRollback>> \in ibtps => hub[i] \in {BeginRollback, Rollback}

Withdrawn(i) == <<i, BeginFailure>> \in ibtps \/ <<i, BeginRollback>> \in ibtps

(* A receipt of success stays true until a rollback is fetched. *)
ReceiptsTrue ==
  \A i \in Indices, v \in Payloads \union {NoPayload} :
    <<i, 1, v>> \in receipts => applied[Pair][i] = <<"ok">> \/ Withdrawn(i)

(* The hub decides for success on such a receipt, and keeps its payload. *)
SuccessProved ==
  \A i \in Indices : hub[i] = Success => <<i, 1, answers[i]>> \in receipts

(* A calls a callback on a success, a rollback on another verdict. *)
VerdictsKept ==
  \A i \in Indices :
    /\ called[Pair][i] \in {<<>>, <<"callback">>, <<"rollback">>}
    /\ called[Pair][i] = <<"callback">> => hub[i] = Success
    /\ called[Pair][i] = <<"rollback">> => hub[i] \in Decided \ {Success}

RelayInv ==
  /\ RelayTypeOK
  /\ SrcP!IInv /\ DstP!IInv
  /\ HubBehind /\ FetchedTrue /\ ReceiptsTrue /\ SuccessProved /\ VerdictsKept

(* RelayInv is enough: a success that A saw is an execution B keeps. *)
SuccessMeansApplied ==
  \A i \in Indices : hub[i] = Success => applied[Pair][i] = <<"ok">>

-----------------------------------------------------------------------------

USE MaxIndexAssumption, NoEventAssumption

(* The brokers of Relay are those of the two proof modules. *)
LEMMA BrokerTypes ==
  ASSUME SrcP!IInv, DstP!IInv PROVE Src!TypeOK /\ Dst!TypeOK
  <1>1. Src!TypeOK
    <2>1. Src!Tx!TypeOK
      BY DEF Indices, Src!Tx!TypeOK, Src!Tx!Statuses, Src!Tx!Absent, Src!Tx!Rollback,
         Src!Indices
    <2> QED BY <2>1 DEF SrcP!IInv, SrcP!TypeOK, SrcP!Indices, Src!TypeOK, Src!Indices
  <1>2. Dst!TypeOK
    BY DEF DstP!IInv, DstP!TypeOK, DstP!Indices, DstP!Executions, DstP!Reversals,
       Dst!TypeOK, Dst!Indices, Dst!Executions, Dst!Reversals
  <1> QED BY <1>1, <1>2

(* A chain no step touches keeps its invariant. *)
LEMMA SrcFrame ==
  ASSUME SrcP!IInv, UNCHANGED varsSrc PROVE SrcP!IInv'
  <1>1. UNCHANGED SrcP!vars
    BY DEF varsSrc, SrcP!vars
  <1>2. {} \subseteq {Pair} /\ {1} \subseteq Int
    OBVIOUS
  <1> QED BY <1>1, <1>2, SrcP!NextInv DEF SrcP!NextInv

(* A step that leaves the destination broker alone. *)
LEMMA DstFrame ==
  ASSUME DstP!IInv, UNCHANGED varsDst PROVE DstP!IInv'
  <1>1. UNCHANGED DstP!vars
    BY DEF varsDst, DstP!vars
  <1>2. {1} \subseteq Int /\ 1 \in Nat /\ 1 <= 1
    OBVIOUS
  <1> QED BY <1>1, <1>2, DstP!NextInv DEF DstP!NextInv

(* The types of the brokers' state, in the terms of Relay. *)
LEMMA Types ==
  ASSUME RelayInv
  PROVE  /\ outterMeta \in [{Pair} -> 0 .. MaxIndex]
         /\ callbackMeta \in [{Pair} -> 0 .. MaxIndex]
         /\ outMessages \in [{Pair} -> [Indices -> Events \union {NoEvent}]]
         /\ called \in [{Pair} -> [Indices -> Seq({"callback", "rollback"})]]
         /\ innerMeta \in [{Pair} -> 0 .. MaxIndex]
         /\ dstRollbackMeta \in [{Pair} -> 0 .. MaxIndex]
         /\ receiptMessages \in [{Pair} -> [Indices -> 0 .. 4]]
         /\ applied \in [{Pair} -> [Indices -> Seq({"ok", "fail", "undone", "undofail"})]]
  <1>1. Src!TypeOK /\ Dst!TypeOK
    BY BrokerTypes DEF RelayInv
  <1>2. Dst!Executions \union Dst!Reversals = {"ok", "fail", "undone", "undofail"}
    BY DEF Dst!Executions, Dst!Reversals
  <1> QED BY <1>1, <1>2 DEF Src!TypeOK, Dst!TypeOK, Src!Indices, Dst!Indices, Indices

(* What the source broker knows of one message. *)
LEMMA SrcAt ==
  ASSUME RelayInv, NEW i \in Indices
  PROVE  /\ outMessages[Pair][i] # NoEvent <=> i <= outterMeta[Pair]
         /\ called[Pair][i] # <<>> => i <= outterMeta[Pair]
         /\ called[Pair][i] = <<>> <=> ~(i <= callbackMeta[Pair])
  <1>1. SrcP!MessagesDense /\ SrcP!ExactlyOnceInOrder
    BY DEF RelayInv, SrcP!IInv
  <1>2. /\ outMessages[Pair][i] # NoEvent <=> i <= outterMeta[Pair]
        /\ called[Pair][i] # <<>> => i <= outterMeta[Pair]
        /\ Len(called[Pair][i]) = IF i <= callbackMeta[Pair] THEN 1 ELSE 0
    BY <1>1 DEF SrcP!MessagesDense, SrcP!ExactlyOnceInOrder, SrcP!Indices, Indices
  <1>3. called[Pair][i] \in Seq({"callback", "rollback"})
    BY Types
  <1>4. called[Pair][i] = <<>> <=> Len(called[Pair][i]) = 0
    BY <1>3
  <1> QED BY <1>2, <1>4

(* An emission stores the next message of A. *)
LEMMA EmitEffect ==
  ASSUME RelayInv, NEW e \in Events, Emit(e), NEW i, i = outterMeta[Pair] + 1
  PROVE  /\ i \in Indices /\ ~(i <= outterMeta[Pair])
         /\ outterMeta' = [outterMeta EXCEPT ![Pair] = i]
         /\ outMessages' = [outMessages EXCEPT ![Pair][i] = e]
         /\ UNCHANGED <<callbackMeta, called>>
         /\ SrcP!IInv'
  <1>1. Src!EmitInterchainEvent(Pair, e)
    BY DEF Emit
  <1>2. SrcP!EmitInterchainEvent(Pair, e)
    BY <1>1 DEF Src!EmitInterchainEvent, Src!NextIndex, Src!Readable, Src!OpenTransaction,
       Src!Direct, SrcP!EmitInterchainEvent, SrcP!NextIndex, SrcP!Readable,
       SrcP!OpenTransaction, SrcP!Direct
  <1>3. SrcP!IInv'
    <2>1. {} \subseteq {Pair} /\ {1} \subseteq Int
      OBVIOUS
    <2> QED BY <1>2, <2>1, SrcP!EmitInv DEF SrcP!EmitInv, RelayInv
  <1>4. /\ i <= MaxIndex
        /\ outterMeta' = [outterMeta EXCEPT ![Pair] = i]
        /\ outMessages' = [outMessages EXCEPT ![Pair][i] = e]
        /\ UNCHANGED <<callbackMeta, called>>
    BY <1>1 DEF Src!EmitInterchainEvent, Src!NextIndex
  <1>5. i \in Indices /\ ~(i <= outterMeta[Pair])
    BY <1>4, Types DEF Indices
  <1> QED BY <1>3, <1>4, <1>5

(* A verdict calls one function, of the next message of A. *)
LEMMA SettleEffect ==
  ASSUME RelayInv, NEW i \in Indices, Settle(i)
  PROVE  /\ hub[i] \in Decided
         /\ i = callbackMeta[Pair] + 1 /\ i <= outterMeta[Pair]
         /\ called[Pair][i] = <<>>
         /\ callbackMeta' = [callbackMeta EXCEPT ![Pair] = i]
         /\ called' = [called EXCEPT ![Pair][i] =
                         IF hub[i] = Success THEN <<"callback">> ELSE <<"rollback">>]
         /\ CallsRollback(i) <=> hub[i] # Success
         /\ UNCHANGED <<outterMeta, outMessages>>
         /\ SrcP!IInv'
  <1>1. PICK typ \in Src!Types : Src!InvokeReceipt(Pair, i, typ, hub[i])
    BY DEF Settle
  <1>2. hub[i] \in Decided
    BY DEF Settle
  <1>3. SrcP!InvokeReceipt(Pair, i, typ, hub[i])
    BY <1>1 DEF Src!InvokeReceipt, Src!Readable, Src!CloseTransaction, Src!Direct,
       Src!IsNextCallback, Src!MarkCallbackCounter, Src!IsRollback,
       SrcP!InvokeReceipt, SrcP!Readable, SrcP!CloseTransaction, SrcP!Direct,
       SrcP!IsNextCallback, SrcP!MarkCallbackCounter, SrcP!IsRollback
  <1>4. SrcP!IInv'
    <2>1. {} \subseteq {Pair} /\ {1} \subseteq Int
      OBVIOUS
    <2>2. i \in SrcP!Indices /\ typ \in SrcP!Types /\ hub[i] \in SrcP!TxStatuses
      BY <1>2 DEF SrcP!Indices, Indices, SrcP!Types, Src!Types, SrcP!TxStatuses, Decided,
         BeginFailure, BeginRollback, Success, Failure, Rollback
    <2> QED BY <1>3, <2>1, <2>2, SrcP!ReceiptInv DEF SrcP!ReceiptInv, RelayInv
  <1>5. CallsRollback(i) <=> hub[i] # Success
    BY <1>2 DEF CallsRollback, Src!IsRollback, Src!Direct, Decided, BeginFailure,
       BeginRollback, Success, Failure, Rollback
  <1>6. Src!IsRollback(typ, hub[i]) <=> CallsRollback(i)
    BY DEF CallsRollback, Src!IsRollback, Src!Direct
  <1>7. /\ i = callbackMeta[Pair] + 1
        /\ callbackMeta' = [callbackMeta EXCEPT ![Pair] = i]
        /\ outMessages[Pair][i] # NoEvent
        /\ called' = [called EXCEPT ![Pair][i] =
                        Append(@, IF Src!IsRollback(typ, hub[i])
                                  THEN "rollback" ELSE "callback")]
        /\ UNCHANGED <<outterMeta, outMessages>>
    BY <1>1 DEF Src!InvokeReceipt, Src!IsNextCallback, Src!MarkCallbackCounter
  <1>8. i <= outterMeta[Pair] /\ called[Pair][i] = <<>>
    <2>1. ~(i <= callbackMeta[Pair])
      BY <1>7, Types DEF Indices
    <2> QED BY <1>7, <2>1, SrcAt
  <1>9. Append(called[Pair][i], IF Src!IsRollback(typ, hub[i]) THEN "rollback" ELSE "callback")
          = IF hub[i] = Success THEN <<"callback">> ELSE <<"rollback">>
    BY <1>5, <1>6, <1>8
  <1> QED BY <1>2, <1>4, <1>5, <1>7, <1>8, <1>9, Types

(* The three things a submission can do on B: execute the next message,    *)
(* reverse one that was executed, or cancel the next one.                  *)
Executes(i, ok, payload) ==
  /\ i = innerMeta[Pair] + 1
  /\ applied[Pair][i] = <<>> /\ receiptMessages[Pair][i] = 0
  /\ innerMeta' = [innerMeta EXCEPT ![Pair] = i]
  /\ applied' = [applied EXCEPT ![Pair][i] = IF ok THEN <<"ok">> ELSE <<"fail">>]
  /\ receiptMessages' = [receiptMessages EXCEPT ![Pair][i] = IF ok THEN 1 ELSE 2]
  /\ payloads' = [payloads EXCEPT ![i] = payload]

Reverses(i, ok, payload) ==
  /\ i <= innerMeta[Pair]
  /\ applied[Pair][i] \in {<<"ok">>, <<"fail">>}
  /\ innerMeta' = innerMeta
  /\ applied' = [applied EXCEPT ![Pair][i] =
                   <<applied[Pair][i][1], IF ok THEN "undone" ELSE "undofail">>]
  /\ \E typ \in 2 .. 4 :
       receiptMessages' = [receiptMessages EXCEPT ![Pair][i] = typ]
  /\ payloads' = [payloads EXCEPT ![i] = payload]

Cancels(i) ==
  /\ i = innerMeta[Pair] + 1
  /\ applied[Pair][i] = <<>> /\ receiptMessages[Pair][i] = 0
  /\ innerMeta' = [innerMeta EXCEPT ![Pair] = i]
  /\ applied' = applied
  /\ \E typ \in 2 .. 4 :
       receiptMessages' = [receiptMessages EXCEPT ![Pair][i] = typ]
  /\ payloads' = [payloads EXCEPT ![i] = NoPayload]

(* What the destination broker knows of one message. *)
LEMMA DstAt ==
  ASSUME RelayInv, NEW i \in Indices
  PROVE  /\ applied[Pair][i] # <<>> => i <= innerMeta[Pair]
         /\ receiptMessages[Pair][i] # 0 <=> i <= innerMeta[Pair]
         /\ receiptMessages[Pair][i] = 1 <=> applied[Pair][i] = <<"ok">>
         /\ ~(i <= innerMeta[Pair]) => ~(i <= dstRollbackMeta[Pair])
  <1>1. /\ DstP!ReceiptForEach /\ DstP!ReceiptTruth /\ DstP!CallsPaired
        /\ DstP!RollbackBehind
    BY DEF RelayInv, DstP!IInv
  <1>2. innerMeta[Pair] \in Int /\ dstRollbackMeta[Pair] \in Int /\ i \in Int
    BY Types DEF Indices
  <1> QED BY <1>1, <1>2 DEF DstP!ReceiptForEach, DstP!ReceiptTruth, DstP!CallsPaired,
          DstP!PairedAt, DstP!RollbackBehind, DstP!Indices, Indices

(* A message of B that is rolled back was executed, once. *)
LEMMA Reversible ==
  ASSUME RelayInv, NEW i \in Indices, i <= innerMeta[Pair], ~(i <= dstRollbackMeta[Pair])
  PROVE  applied[Pair][i] \in {<<"ok">>, <<"fail">>}
  <1>1. {1} \subseteq Int /\ 1 \in Nat /\ 1 <= 1
    OBVIOUS
  <1>2. Len(applied[Pair][i]) = 1 /\ applied[Pair][i][1] \in {"ok", "fail"}
    <2>1. i \notin [p \in {Pair} |-> {}][Pair]
      OBVIOUS
    <2> QED BY <1>1, <2>1, DstP!Reversible DEF DstP!Reversible, RelayInv, DstP!Indices, Indices,
            DstP!Executions
  <1>3. applied[Pair][i] \in Seq({"ok", "fail", "undone", "undofail"})
    BY Types
  <1>4. applied[Pair][i] = <<applied[Pair][i][1]>>
    BY <1>2, <1>3
  <1> QED BY <1>2, <1>4

(* A second call appended to a single one. *)
LEMMA AppendSecond ==
  ASSUME NEW S, NEW x \in S, NEW y \in S
  PROVE  Append(<<x>>, y) = <<x, y>> /\ <<x>>[1] = x
  <1> DEFINE s == Append(<<x>>, y)
             t == <<x, y>>
  <1>1. <<x>> \in Seq(S) /\ Len(<<x>>) = 1 /\ <<x>>[1] = x
    OBVIOUS
  <1>2. s \in Seq(S) /\ Len(s) = 2 /\ s[1] = x /\ s[2] = y
    BY <1>1
  <1>3. t \in Seq(S) /\ Len(t) = 2 /\ t[1] = x /\ t[2] = y
    OBVIOUS
  <1>4. ASSUME NEW k \in 1 .. Len(s) PROVE s[k] = t[k]
    <2>1. k = 1 \/ k = 2
      BY <1>2
    <2> QED BY <1>2, <1>3, <2>1
  <1> HIDE DEF s, t
  <1>5. s = t
    BY <1>2, <1>3, <1>4, SeqEqual
  <1> QED BY <1>1, <1>5 DEF s, t

(* A set of numbers has a least one: induction, without a predicate as a   *)
(* parameter.                                                              *)
LEMMA Least ==
  ASSUME NEW T, T \subseteq Nat, T # {}
  PROVE  \E n \in T : \A m \in T : ~(m < n)
  <1>1. PICK n \in T : \A m \in T : ~(<<m, n>> \in OpToRel(<, Nat))
    BY NatLessThanWellFounded, WFMin
  <1>2. \A m \in T : <<m, n>> \in OpToRel(<, Nat) <=> m < n
    BY DEF OpToRel
  <1> QED BY <1>1, <1>2

(* What a submission does to B and to what the hub will hear of it. *)
LEMMA DeliverEffect ==
  ASSUME RelayInv, NEW i \in Indices, NEW st \in Opened, NEW ok \in BOOLEAN,
         NEW payload, Deliver(i, st, ok, payload)
  PROVE  /\ <<i, st>> \in ibtps
         /\ \/ st = Begin /\ Executes(i, ok, payload)
            \/ st # Begin /\ Reverses(i, ok, payload)
            \/ st # Begin /\ Cancels(i)
         /\ UNCHANGED <<varsSrc, varsHub>>
         /\ DstP!IInv'
  <1>1. /\ <<i, st>> \in ibtps
        /\ Dst!InvokeInterchain(Pair, i, st, ok)
        /\ payloads' = [payloads EXCEPT ![i] =
                          IF Dst!CallMade(Pair, i, st) THEN payload ELSE NoPayload]
        /\ UNCHANGED <<varsSrc, varsHub>>
    BY DEF Deliver
  <1>2. st \in {0, 1, 2}
    BY DEF Opened, Begin, BeginFailure, BeginRollback
  <1>3. DstP!IInv'
    <2>1. DstP!InvokeInterchain(Pair, i, st, ok)
      BY <1>1 DEF Dst!InvokeInterchain, Dst!Readable, Dst!CallMade, Dst!Answer,
         Dst!UpdateIndexRequest, Dst!UpdateIndexRollback, Dst!InWindow, Dst!IsNextIn,
         Dst!MarkInCounter, Dst!IsLaterRollback, Dst!ReceiptType, Dst!Direct,
         DstP!InvokeInterchain, DstP!Readable, DstP!CallMade, DstP!Answer,
         DstP!UpdateIndexRequest, DstP!UpdateIndexRollback, DstP!InWindow, DstP!IsNextIn,
         DstP!MarkInCounter, DstP!IsLaterRollback, DstP!ReceiptType, DstP!Direct
    <2>2. {1} \subseteq Int /\ 1 \in Nat /\ 1 <= 1
      OBVIOUS
    <2>3. i \in DstP!Indices /\ st \in DstP!TxStatuses
      BY <1>2 DEF DstP!Indices, Indices, DstP!TxStatuses
    <2>4. DstP!Next
      BY <2>1, <2>3 DEF DstP!Next
    <2> QED BY <2>2, <2>4, DstP!NextInv DEF DstP!NextInv, RelayInv
  <1>4. CASE st = Begin
    <2>1. /\ i = innerMeta[Pair] + 1
          /\ innerMeta' = [innerMeta EXCEPT ![Pair] = @ + 1]
          /\ applied' = [applied EXCEPT ![Pair][i] =
                            Append(@, IF ok THEN "ok" ELSE "fail")]
          /\ receiptMessages' = [receiptMessages EXCEPT ![Pair][i] = IF ok THEN 1 ELSE 2]
          /\ payloads' = [payloads EXCEPT ![i] = payload]
      BY <1>1, <1>4 DEF Dst!InvokeInterchain, Dst!CallMade, Dst!Answer, Begin,
         Dst!UpdateIndexRequest, Dst!IsNextIn, Dst!MarkInCounter, Dst!ReceiptType
    <2>2. ~(i <= innerMeta[Pair])
      BY <2>1, Types DEF Indices
    <2>3. applied[Pair][i] = <<>> /\ receiptMessages[Pair][i] = 0
      BY <2>2, DstAt
    <2>4. Append(applied[Pair][i], IF ok THEN "ok" ELSE "fail")
            = IF ok THEN <<"ok">> ELSE <<"fail">>
      BY <2>3
    <2>5. innerMeta' = [innerMeta EXCEPT ![Pair] = i]
      BY <2>1
    <2>6. applied' = [applied EXCEPT ![Pair][i] = IF ok THEN <<"ok">> ELSE <<"fail">>]
      BY <2>1, <2>4
    <2> QED BY <1>1, <1>3, <1>4, <2>1, <2>3, <2>5, <2>6 DEF Executes
  <1>5. CASE st # Begin
    <2>1. /\ ~(i <= dstRollbackMeta[Pair])
          /\ i <= innerMeta[Pair] + 1
          /\ innerMeta' = IF i = innerMeta[Pair] + 1 THEN [innerMeta EXCEPT ![Pair] = i]
                                                     ELSE innerMeta
          /\ applied' = IF innerMeta[Pair] >= i
                        THEN [applied EXCEPT ![Pair][i] =
                                Append(@, IF ok THEN "undone" ELSE "undofail")]
                        ELSE applied
          /\ \E typ \in 2 .. 4 :
               receiptMessages' = [receiptMessages EXCEPT ![Pair][i] = typ]
          /\ payloads' = [payloads EXCEPT ![i] =
                            IF innerMeta[Pair] >= i THEN payload ELSE NoPayload]
      <3>1. st # 0
        BY <1>5 DEF Begin
      <3>2. /\ Dst!UpdateIndexRollback(Pair, i) /\ Dst!InWindow(Pair, i)
            /\ receiptMessages' =
                 [receiptMessages EXCEPT ![Pair][i] = Dst!ReceiptType(st, ok)]
            /\ applied' = IF Dst!CallMade(Pair, i, st)
                          THEN [applied EXCEPT ![Pair][i] = Append(@, Dst!Answer(st, ok))]
                          ELSE applied
        BY <1>1, <3>1 DEF Dst!InvokeInterchain
      <3>3. Dst!ReceiptType(st, ok) \in 2 .. 4
        BY <3>1 DEF Dst!ReceiptType, Dst!Direct
      <3>4. Dst!Answer(st, ok) = IF ok THEN "undone" ELSE "undofail"
        BY <3>1 DEF Dst!Answer
      <3>5. Dst!CallMade(Pair, i, st) <=> innerMeta[Pair] >= i
        BY <3>1 DEF Dst!CallMade
      <3>6. ~(i <= dstRollbackMeta[Pair])
        BY <3>2, Types DEF Dst!UpdateIndexRollback, Dst!IsLaterRollback, Indices
      <3>7. innerMeta' = IF i = innerMeta[Pair] + 1 THEN [innerMeta EXCEPT ![Pair] = i]
                                                     ELSE innerMeta
        BY <3>2 DEF Dst!UpdateIndexRollback, Dst!IsNextIn, Dst!MarkInCounter
      <3>8. i <= innerMeta[Pair] + 1
        BY <3>2 DEF Dst!InWindow
      <3> QED BY <1>1, <3>2, <3>3, <3>4, <3>5, <3>6, <3>7, <3>8
    <2>2. CASE i <= innerMeta[Pair]
      <3>1. applied[Pair][i] \in {<<"ok">>, <<"fail">>}
        BY <2>1, <2>2, Reversible
      <3>2. innerMeta[Pair] >= i /\ i # innerMeta[Pair] + 1
        BY <2>2, Types DEF Indices
      <3>3. Append(applied[Pair][i], IF ok THEN "undone" ELSE "undofail")
              = <<applied[Pair][i][1], IF ok THEN "undone" ELSE "undofail">>
        <4> DEFINE y == IF ok THEN "undone" ELSE "undofail"
        <4>1. PICK x \in {"ok", "fail"} : applied[Pair][i] = <<x>>
          BY <3>1
        <4>2. /\ x \in {"ok", "fail", "undone", "undofail"}
              /\ y \in {"ok", "fail", "undone", "undofail"}
          OBVIOUS
        <4> HIDE DEF y
        <4>3. Append(<<x>>, y) = <<x, y>> /\ <<x>>[1] = x
          BY <4>2, AppendSecond
        <4>4. Append(applied[Pair][i], y) = <<applied[Pair][i][1], y>>
          BY <4>1, <4>3
        <4> QED BY <4>4 DEF y
      <3>4. applied' = [applied EXCEPT ![Pair][i] =
                          <<applied[Pair][i][1], IF ok THEN "undone" ELSE "undofail">>]
        BY <2>1, <3>2, <3>3
      <3> QED BY <1>1, <1>3, <1>5, <2>1, <2>2, <3>1, <3>2, <3>4 DEF Reverses
    <2>3. CASE ~(i <= innerMeta[Pair])
      <3>1. i = innerMeta[Pair] + 1 /\ ~(innerMeta[Pair] >= i)
        BY <2>1, <2>3, Types DEF Indices
      <3>2. applied[Pair][i] = <<>> /\ receiptMessages[Pair][i] = 0
        BY <2>3, DstAt
      <3> QED BY <1>1, <1>3, <1>5, <2>1, <3>1, <3>2 DEF Cancels
    <2> QED BY <2>2, <2>3
  <1> QED BY <1>4, <1>5

-----------------------------------------------------------------------------

(* The same of the next state. *)
LEMMA BrokerTypesNext ==
  (SrcP!IInv /\ DstP!IInv)' => (Src!TypeOK /\ Dst!TypeOK)'
  <1>1. SrcP!IInv /\ DstP!IInv => Src!TypeOK /\ Dst!TypeOK
    BY BrokerTypes
  <1> QED BY <1>1, PTL

(* Nothing was emitted, fetched or executed yet. *)
LEMMA RelayInitInv == RelayInit => RelayInv
  <1> SUFFICES ASSUME RelayInit PROVE RelayInv
    OBVIOUS
  <1>1. SrcP!IInv
    <2>1. SrcP!Init
      BY DEF RelayInit, Src!Init, Src!Zeros, Src!NoMessages, Src!NoHistory, Src!Indices,
         Src!Tx!Init, Src!Tx!Absent, SrcP!Init, SrcP!Zeros, SrcP!NoMessages, SrcP!NoHistory,
         SrcP!Indices, SrcP!Tx!Init, SrcP!Tx!Absent
    <2>2. {} \subseteq {Pair} /\ {1} \subseteq Int
      OBVIOUS
    <2> QED BY <2>1, <2>2, SrcP!InitInv DEF SrcP!InitInv
  <1>2. DstP!IInv
    <2>1. DstP!Init
      BY DEF RelayInit, Dst!Init, Dst!Zeros, Dst!NoReceipts, Dst!NoHistory, Dst!Indices,
         DstP!Init, DstP!Zeros, DstP!NoReceipts, DstP!NoHistory, DstP!Indices
    <2>2. {1} \subseteq Int /\ 1 \in Nat
      OBVIOUS
    <2> QED BY <2>1, <2>2, DstP!InitInv DEF DstP!InitInv
  <1>3. RelayTypeOK
    BY <1>1, <1>2, BrokerTypes DEF RelayInit, RelayTypeOK
  <1>4. /\ innerMeta[Pair] = 0 /\ outterMeta[Pair] = 0
        /\ \A i \in Indices : called[Pair][i] = <<>>
    BY DEF RelayInit, Src!Init, Src!Zeros, Src!NoHistory, Src!Indices, Indices,
       Dst!Init, Dst!Zeros
  <1>5. HubBehind
    BY <1>4 DEF RelayInit, HubBehind
  <1>6. FetchedTrue /\ ReceiptsTrue
    BY DEF RelayInit, FetchedTrue, ReceiptsTrue
  <1>7. SuccessProved
    BY DEF RelayInit, SuccessProved, None, Success
  <1>8. VerdictsKept
    <2>1. <<>> # <<"callback">> /\ <<>> # <<"rollback">>
      OBVIOUS
    <2> QED BY <1>4, <2>1 DEF VerdictsKept
  <1> QED BY <1>1, <1>2, <1>3, <1>5, <1>6, <1>7, <1>8 DEF RelayInv

(* A step of the invariant by its parts: the brokers keep theirs, the rest *)
(* is about the hub and what is in flight.                                 *)
HubTypeOK ==
  /\ payloads \in [Indices -> Payloads \union {NoPayload}]
  /\ hub \in [Indices -> {None} \union Opened \union Decided]
  /\ answers \in [Indices -> Payloads \union {NoPayload}]
  /\ ibtps \subseteq Indices \X Opened
  /\ receipts \subseteq Indices \X (1 .. 4) \X (Payloads \union {NoPayload})

(* RelayInv holds after a step that kept its parts. *)
LEMMA Parts ==
  ASSUME SrcP!IInv', DstP!IInv', HubTypeOK', HubBehind', FetchedTrue', ReceiptsTrue',
         SuccessProved', VerdictsKept'
  PROVE  RelayInv'
  BY BrokerTypesNext DEF RelayInv, RelayTypeOK, HubTypeOK

(* What FetchedTrue says of one message. *)
LEMMA FetchedAt ==
  ASSUME RelayInv, NEW i \in Indices
  PROVE  /\ <<i, Begin>> \in ibtps => hub[i] \notin {None, BeginFailure}
         /\ <<i, BeginFailure>> \in ibtps => hub[i] \in {BeginFailure, Failure}
         /\ <<i, BeginRollback>> \in ibtps => hub[i] \in {BeginRollback, Rollback}
  BY DEF RelayInv, FetchedTrue

(* A stores and numbers a message: the hub has not seen it. *)
LEMMA EmitInv ==
  ASSUME RelayInv, NEW e \in Events, Emit(e) PROVE RelayInv'
  <1>1. PICK i : i = outterMeta[Pair] + 1
    OBVIOUS
  <1>2. /\ outterMeta' = [outterMeta EXCEPT ![Pair] = i]
        /\ UNCHANGED <<callbackMeta, called>>
        /\ SrcP!IInv'
    BY <1>1, EmitEffect
  <1>3. UNCHANGED <<varsDst, varsHub>>
    BY DEF Emit
  <1>4. DstP!IInv'
    BY <1>3, DstFrame DEF RelayInv
  <1>5. HubTypeOK' /\ FetchedTrue' /\ ReceiptsTrue' /\ SuccessProved' /\ VerdictsKept'
    BY <1>2, <1>3 DEF varsDst, varsHub, RelayInv, RelayTypeOK, HubTypeOK, FetchedTrue,
       ReceiptsTrue, Withdrawn, SuccessProved, VerdictsKept
  <1>6. HubBehind'
    BY <1>1, <1>2, <1>3, Types DEF varsDst, varsHub, RelayInv, HubBehind, Indices
  <1> QED BY <1>2, <1>4, <1>5, <1>6, Parts

(* The hub opens, or refuses, a message it did not have. *)
LEMMA HubAcceptInv ==
  ASSUME RelayInv, NEW i \in Indices, HubAccept(i) PROVE RelayInv'
  <1> USE DEF None, Begin, BeginFailure, BeginRollback, Success, Failure, Rollback
  <1>1. /\ hub[i] = None /\ i <= outterMeta[Pair]
        /\ \E h \in {Begin, BeginFailure} : hub' = [hub EXCEPT ![i] = h]
        /\ UNCHANGED <<varsSrc, varsDst, answers, ibtps, receipts>>
    BY DEF HubAccept
  <1>2. SrcP!IInv' /\ DstP!IInv'
    BY <1>1, SrcFrame, DstFrame DEF RelayInv
  <1>3. HubTypeOK'
    BY <1>1 DEF varsDst, RelayInv, RelayTypeOK, HubTypeOK, Opened, Decided
  <1>4. hub \in [Indices -> {None} \union Opened \union Decided]
    BY DEF RelayInv, RelayTypeOK
  <1>5. HubBehind'
    BY <1>1, <1>4 DEF varsSrc, varsDst, RelayInv, HubBehind
  <1>6. FetchedTrue'
    <2>1. FetchedTrue
      BY DEF RelayInv
    <2>2. ASSUME NEW j \in Indices
          PROVE  /\ <<j, Begin>> \in ibtps => hub'[j] \notin {None, BeginFailure}
                 /\ <<j, BeginFailure>> \in ibtps => hub'[j] \in {BeginFailure, Failure}
                 /\ <<j, BeginRollback>> \in ibtps => hub'[j] \in {BeginRollback, Rollback}
      <3>1. CASE j = i
        BY <1>1, <2>1, <3>1 DEF FetchedTrue
      <3>2. CASE j # i
        BY <1>1, <1>4, <2>1, <3>2 DEF FetchedTrue
      <3> QED BY <3>1, <3>2
    <2> QED BY <1>1, <2>2 DEF FetchedTrue
  <1>7. ReceiptsTrue'
    BY <1>1 DEF varsDst, RelayInv, ReceiptsTrue, Withdrawn
  <1>8. SuccessProved' /\ VerdictsKept'
    BY <1>1, <1>4 DEF varsSrc, RelayInv, SuccessProved, VerdictsKept, Decided
  <1> QED BY <1>2, <1>3, <1>5, <1>6, <1>7, <1>8, Parts

(* The hub gives a message up: from now on a rollback may be fetched. *)
LEMMA HubTimeoutInv ==
  ASSUME RelayInv, NEW i \in Indices, HubTimeout(i) PROVE RelayInv'
  <1> USE DEF None, Begin, BeginFailure, BeginRollback, Success, Failure, Rollback
  <1>1. /\ hub[i] = Begin /\ hub' = [hub EXCEPT ![i] = BeginRollback]
        /\ UNCHANGED <<varsSrc, varsDst, answers, ibtps, receipts>>
    BY DEF HubTimeout
  <1>2. SrcP!IInv' /\ DstP!IInv'
    BY <1>1, SrcFrame, DstFrame DEF RelayInv
  <1>3. HubTypeOK'
    BY <1>1 DEF varsDst, RelayInv, RelayTypeOK, HubTypeOK, Opened, Decided
  <1>4. hub \in [Indices -> {None} \union Opened \union Decided]
    BY DEF RelayInv, RelayTypeOK
  <1>5. HubBehind'
    BY <1>1, <1>4 DEF varsSrc, varsDst, RelayInv, HubBehind
  <1>6. FetchedTrue'
    <2>1. FetchedTrue
      BY DEF RelayInv
    <2>2. ASSUME NEW j \in Indices
          PROVE  /\ <<j, Begin>> \in ibtps => hub'[j] \notin {None, BeginFailure}
                 /\ <<j, BeginFailure>> \in ibtps => hub'[j] \in {BeginFailure, Failure}
                 /\ <<j, BeginRollback>> \in ibtps => hub'[j] \in {BeginRollback, Rollback}
      <3>1. CASE j = i
        <4>1. hub[j] = Begin /\ hub'[j] = BeginRollback
          BY <1>1, <1>4, <3>1
        <4>2. hub[j] \notin {BeginFailure, Failure}
          BY <4>1
        <4>3. <<j, BeginFailure>> \notin ibtps
          BY <4>2, FetchedAt
        <4> QED BY <4>1, <4>3
      <3>2. CASE j # i
        BY <1>1, <1>4, <2>1, <3>2 DEF FetchedTrue
      <3> QED BY <3>1, <3>2
    <2> QED BY <1>1, <2>2 DEF FetchedTrue
  <1>7. ReceiptsTrue'
    BY <1>1 DEF varsDst, RelayInv, ReceiptsTrue, Withdrawn
  <1>8. SuccessProved' /\ VerdictsKept'
    BY <1>1, <1>4 DEF varsSrc, RelayInv, SuccessProved, VerdictsKept, Decided
  <1> QED BY <1>2, <1>3, <1>5, <1>6, <1>7, <1>8, Parts

(* A pier takes what the hub asks for. *)
LEMMA FetchInv ==
  ASSUME RelayInv, NEW i \in Indices, Fetch(i) PROVE RelayInv'
  <1> USE DEF None, Begin, BeginFailure, BeginRollback, Success, Failure, Rollback
  <1>1. /\ hub[i] \in Opened
        /\ ibtps' = ibtps \union {<<i, hub[i]>>}
        /\ UNCHANGED <<varsSrc, varsDst, hub, answers, receipts>>
    BY DEF Fetch
  <1>2. SrcP!IInv' /\ DstP!IInv'
    BY <1>1, SrcFrame, DstFrame DEF RelayInv
  <1>3. HubTypeOK'
    BY <1>1 DEF varsDst, RelayInv, RelayTypeOK, HubTypeOK
  <1>4. HubBehind' /\ SuccessProved' /\ VerdictsKept'
    BY <1>1 DEF varsSrc, varsDst, RelayInv, HubBehind, SuccessProved, VerdictsKept
  <1>5. FetchedTrue'
    <2>1. FetchedTrue
      BY DEF RelayInv
    <2>2. ASSUME NEW j \in Indices
          PROVE  /\ <<j, Begin>> \in ibtps' => hub[j] \notin {None, BeginFailure}
                 /\ <<j, BeginFailure>> \in ibtps' => hub[j] \in {BeginFailure, Failure}
                 /\ <<j, BeginRollback>> \in ibtps' => hub[j] \in {BeginRollback, Rollback}
      <3>1. ASSUME NEW st \in Opened, <<j, st>> \in ibtps'
            PROVE  <<j, st>> \in ibtps \/ st = hub[j]
        BY <1>1, <3>1
      <3> QED BY <2>1, <3>1 DEF FetchedTrue, Opened
    <2> QED BY <1>1, <2>2 DEF FetchedTrue
  <1>6. ReceiptsTrue'
    BY <1>1 DEF varsDst, RelayInv, ReceiptsTrue, Withdrawn
  <1> QED BY <1>2, <1>3, <1>4, <1>5, <1>6, Parts

(* A pier takes the receipt B has now, which may be replaced later. *)
LEMMA PollReceiptInv ==
  ASSUME RelayInv, NEW i \in Indices, PollReceipt(i) PROVE RelayInv'
  <1> DEFINE r == <<i, receiptMessages[Pair][i], payloads[i]>>
  <1>1. /\ i <= innerMeta[Pair]
        /\ receipts' = receipts \union {r}
        /\ UNCHANGED <<varsSrc, varsDst, hub, answers, ibtps>>
    BY DEF PollReceipt, generateReceipt
  <1>2. SrcP!IInv' /\ DstP!IInv'
    BY <1>1, SrcFrame, DstFrame DEF RelayInv
  <1>3. HubTypeOK'
    <2>1. receiptMessages[Pair][i] \in 1 .. 4
      <3>1. receiptMessages[Pair][i] \in 0 .. 4 /\ receiptMessages[Pair][i] # 0
        BY <1>1, DstAt, Types
      <3> QED BY <3>1
    <2>2. payloads[i] \in Payloads \union {NoPayload}
      BY DEF RelayInv, RelayTypeOK
    <2>3. receipts' \subseteq Indices \X (1 .. 4) \X (Payloads \union {NoPayload})
      BY <1>1, <2>1, <2>2 DEF RelayInv, RelayTypeOK
    <2> QED BY <1>1, <2>3 DEF varsDst, RelayInv, RelayTypeOK, HubTypeOK
  <1>4. HubBehind' /\ FetchedTrue' /\ VerdictsKept'
    BY <1>1 DEF varsSrc, varsDst, RelayInv, HubBehind, FetchedTrue, VerdictsKept
  <1>5. ReceiptsTrue'
    <2>1. ASSUME NEW j \in Indices, NEW v \in Payloads \union {NoPayload}, <<j, 1, v>> = r
          PROVE  applied[Pair][j] = <<"ok">>
      BY <2>1, DstAt
    <2> QED BY <1>1, <2>1 DEF varsDst, RelayInv, ReceiptsTrue, Withdrawn
  <1>6. SuccessProved'
    BY <1>1 DEF RelayInv, SuccessProved
  <1> QED BY <1>2, <1>3, <1>4, <1>5, <1>6, Parts

(* Which receipts move the hub, and where to. *)
LEMMA HubReceiptEffect ==
  ASSUME RelayInv, NEW i \in Indices, NEW typ \in 1 .. 4, HubReceipt(i, typ)
  PROVE  \E payload \in Payloads \union {NoPayload}, new \in Decided :
           /\ <<i, typ, payload>> \in receipts
           /\ \/ hub[i] = Begin /\ typ = 1 /\ new = Success
              \/ hub[i] \in {Begin, BeginFailure} /\ typ = 2 /\ new = Failure
              \/ hub[i] = BeginRollback /\ typ = 3 /\ new = Rollback
           /\ hub' = [hub EXCEPT ![i] = new]
           /\ answers' = [answers EXCEPT ![i] = IF new = Success THEN payload ELSE @]
           /\ UNCHANGED <<varsSrc, varsDst, ibtps, receipts>>
  <1>1. PICK payload \in Payloads \union {NoPayload}, new \in Decided :
          /\ <<i, typ, payload>> \in receipts
          /\ <<hub[i], typ, new>> \in {<<Begin, 1, Success>>, <<Begin, 2, Failure>>,
                                       <<BeginFailure, 2, Failure>>,
                                       <<BeginRollback, 3, Rollback>>}
          /\ hub' = [hub EXCEPT ![i] = new]
          /\ answers' = [answers EXCEPT ![i] = IF new = Success THEN payload ELSE @]
          /\ UNCHANGED <<varsSrc, varsDst, ibtps, receipts>>
    BY DEF HubReceipt
  <1>2. \/ hub[i] = Begin /\ typ = 1 /\ new = Success
        \/ hub[i] \in {Begin, BeginFailure} /\ typ = 2 /\ new = Failure
        \/ hub[i] = BeginRollback /\ typ = 3 /\ new = Rollback
    BY <1>1
  <1> QED BY <1>1, <1>2

(* The hub decides on a receipt, perhaps an old one. *)
LEMMA HubReceiptInv ==
  ASSUME RelayInv, NEW i \in Indices, NEW typ \in 1 .. 4, HubReceipt(i, typ) PROVE RelayInv'
  <1> USE DEF None, Begin, BeginFailure, BeginRollback, Success, Failure, Rollback
  <1>1. PICK payload \in Payloads \union {NoPayload}, new \in Decided :
          /\ <<i, typ, payload>> \in receipts
          /\ \/ hub[i] = Begin /\ typ = 1 /\ new = Success
             \/ hub[i] \in {Begin, BeginFailure} /\ typ = 2 /\ new = Failure
             \/ hub[i] = BeginRollback /\ typ = 3 /\ new = Rollback
          /\ hub' = [hub EXCEPT ![i] = new]
          /\ answers' = [answers EXCEPT ![i] = IF new = Success THEN payload ELSE @]
          /\ UNCHANGED <<varsSrc, varsDst, ibtps, receipts>>
    BY HubReceiptEffect
  <1>2. SrcP!IInv' /\ DstP!IInv'
    BY <1>1, SrcFrame, DstFrame DEF RelayInv
  <1>3. /\ hub \in [Indices -> {None} \union Opened \union Decided]
        /\ answers \in [Indices -> Payloads \union {NoPayload}]
    BY DEF RelayInv, RelayTypeOK
  <1>4. HubTypeOK'
    <2>1. hub' \in [Indices -> {None} \union Opened \union Decided]
      BY <1>1, <1>3
    <2>2. answers' \in [Indices -> Payloads \union {NoPayload}]
      BY <1>1, <1>3
    <2> QED BY <1>1, <2>1, <2>2 DEF varsDst, RelayInv, RelayTypeOK, HubTypeOK
  <1>5. HubBehind'
    BY <1>1, <1>3 DEF varsSrc, varsDst, RelayInv, HubBehind
  <1>6. FetchedTrue'
    <2>1. FetchedTrue
      BY DEF RelayInv
    <2>2. ASSUME NEW j \in Indices
          PROVE  /\ <<j, Begin>> \in ibtps => hub'[j] \notin {None, BeginFailure}
                 /\ <<j, BeginFailure>> \in ibtps => hub'[j] \in {BeginFailure, Failure}
                 /\ <<j, BeginRollback>> \in ibtps => hub'[j] \in {BeginRollback, Rollback}
      <3>1. CASE j = i
        <4>1. hub'[j] = new
          BY <1>1, <1>3, <3>1
        <4>2. /\ <<j, Begin>> \in ibtps => hub[j] \notin {None, BeginFailure}
              /\ <<j, BeginFailure>> \in ibtps => hub[j] \in {BeginFailure, Failure}
              /\ <<j, BeginRollback>> \in ibtps => hub[j] \in {BeginRollback, Rollback}
          BY <2>1 DEF FetchedTrue
        <4> QED BY <1>1, <3>1, <4>1, <4>2
      <3>2. CASE j # i
        BY <1>1, <1>3, <2>1, <3>2 DEF FetchedTrue
      <3> QED BY <3>1, <3>2
    <2> QED BY <1>1, <2>2 DEF FetchedTrue
  <1>7. ReceiptsTrue'
    BY <1>1 DEF varsDst, RelayInv, ReceiptsTrue, Withdrawn
  <1>8. SuccessProved'
    <2> SUFFICES ASSUME NEW j \in Indices, hub'[j] = Success
                 PROVE  <<j, 1, answers'[j]>> \in receipts
      BY <1>1 DEF SuccessProved
    <2>1. CASE j = i
      <3>1. new = Success /\ typ = 1 /\ answers'[i] = payload
        BY <1>1, <1>3, <2>1
      <3> QED BY <1>1, <2>1, <3>1
    <2>2. CASE j # i
      BY <1>1, <1>3, <2>2 DEF RelayInv, SuccessProved
    <2> QED BY <2>1, <2>2
  <1>9. VerdictsKept'
    BY <1>1, <1>3 DEF varsSrc, RelayInv, VerdictsKept, Decided
  <1> QED BY <1>2, <1>4, <1>5, <1>6, <1>7, <1>8, <1>9, Parts

(* B executes or reverses a message, and stores its receipt. *)
LEMMA DeliverInv ==
  ASSUME RelayInv, NEW i \in Indices, NEW st \in Opened, NEW ok \in BOOLEAN,
         NEW payload \in Payloads \union {NoPayload}, Deliver(i, st, ok, payload)
  PROVE  RelayInv'
  <1>1. /\ <<i, st>> \in ibtps
        /\ \/ st = Begin /\ Executes(i, ok, payload)
           \/ st # Begin /\ Reverses(i, ok, payload)
           \/ st # Begin /\ Cancels(i)
        /\ UNCHANGED <<varsSrc, varsHub>>
        /\ DstP!IInv'
    BY DeliverEffect
  <1>2. SrcP!IInv'
    BY <1>1, SrcFrame DEF RelayInv
  <1>3. HubTypeOK'
    <2>1. payloads \in [Indices -> Payloads \union {NoPayload}]
      BY DEF RelayInv, RelayTypeOK
    <2>2. payloads' \in [Indices -> Payloads \union {NoPayload}]
      BY <1>1, <2>1 DEF Executes, Reverses, Cancels
    <2> QED BY <1>1, <2>2 DEF varsHub, RelayInv, RelayTypeOK, HubTypeOK
  <1>4. HubBehind'
    <2>1. i <= outterMeta[Pair]
      <3>1. hub[i] # None
        <4>1. None \notin {BeginFailure, BeginRollback, Failure, Rollback}
          BY DEF None, BeginFailure, BeginRollback, Failure, Rollback
        <4> QED BY <1>1, <4>1, FetchedAt DEF Opened
      <3> QED BY <3>1 DEF RelayInv, HubBehind
    <2>2. innerMeta'[Pair] = innerMeta[Pair] \/ innerMeta'[Pair] = i
      BY <1>1, Types DEF Executes, Reverses, Cancels
    <2> QED BY <1>1, <2>1, <2>2 DEF varsSrc, varsHub, RelayInv, HubBehind
  <1>5. FetchedTrue' /\ SuccessProved' /\ VerdictsKept'
    BY <1>1 DEF varsSrc, varsHub, RelayInv, FetchedTrue, SuccessProved, VerdictsKept
  <1>6. ReceiptsTrue'
    <2> SUFFICES ASSUME NEW j \in Indices, NEW v \in Payloads \union {NoPayload},
                        <<j, 1, v>> \in receipts
                 PROVE  applied'[Pair][j] = <<"ok">> \/ Withdrawn(j)
      BY <1>1 DEF varsHub, ReceiptsTrue, Withdrawn
    <2>1. applied[Pair][j] = <<"ok">> \/ Withdrawn(j)
      BY DEF RelayInv, ReceiptsTrue
    <2>2. CASE applied'[Pair][j] = applied[Pair][j]
      BY <2>1, <2>2
    <2>3. CASE st = Begin /\ Executes(i, ok, payload)
      <3>1. applied[Pair][i] # <<"ok">>
        BY <2>3 DEF Executes
      <3>2. j = i \/ applied'[Pair][j] = applied[Pair][j]
        BY <2>3, Types DEF Executes
      <3> QED BY <2>1, <3>1, <3>2
    <2>4. CASE st # Begin /\ j = i
      BY <1>1, <2>4 DEF Opened, Withdrawn
    <2>5. CASE st # Begin /\ j # i
      <3>1. applied'[Pair][j] = applied[Pair][j]
        BY <1>1, <2>5, Types DEF Reverses, Cancels
      <3> QED BY <2>1, <3>1
    <2> QED BY <1>1, <2>3, <2>4, <2>5
  <1> QED BY <1>1, <1>2, <1>3, <1>4, <1>5, <1>6, Parts

(* A hears the verdict and calls the callback or the rollback. *)
LEMMA SettleInv ==
  ASSUME RelayInv, NEW i \in Indices, Settle(i), UNCHANGED <<varsDst, varsHub>>
  PROVE  RelayInv'
  <1>1. /\ hub[i] \in Decided
        /\ called' = [called EXCEPT ![Pair][i] =
                        IF hub[i] = Success THEN <<"callback">> ELSE <<"rollback">>]
        /\ UNCHANGED outterMeta
        /\ SrcP!IInv'
    BY SettleEffect
  <1>2. DstP!IInv'
    BY DstFrame DEF RelayInv
  <1>3. HubTypeOK' /\ HubBehind' /\ FetchedTrue' /\ ReceiptsTrue' /\ SuccessProved'
    BY <1>1 DEF varsDst, varsHub, RelayInv, RelayTypeOK, HubTypeOK, HubBehind, FetchedTrue,
       ReceiptsTrue, Withdrawn, SuccessProved
  <1>4. VerdictsKept'
    <2> SUFFICES ASSUME NEW j \in Indices
                 PROVE  /\ called'[Pair][j] \in {<<>>, <<"callback">>, <<"rollback">>}
                        /\ called'[Pair][j] = <<"callback">> => hub[j] = Success
                        /\ called'[Pair][j] = <<"rollback">> => hub[j] \in Decided \ {Success}
      BY DEF varsHub, VerdictsKept
    <2>1. CASE j = i
      <3>1. called'[Pair][i] = IF hub[i] = Success THEN <<"callback">> ELSE <<"rollback">>
        BY <1>1, Types
      <3>2. <<"callback">> # <<"rollback">>
        <4>1. <<"callback">>[1] # <<"rollback">>[1]
          OBVIOUS
        <4> QED BY <4>1
      <3> QED BY <1>1, <2>1, <3>1, <3>2
    <2>2. CASE j # i
      <3>1. called'[Pair][j] = called[Pair][j]
        BY <1>1, <2>2, Types
      <3> QED BY <3>1 DEF RelayInv, VerdictsKept
    <2> QED BY <2>1, <2>2
  <1> QED BY <1>1, <1>2, <1>3, <1>4, Parts

(* The steps that touch no business chaincode keep the invariant. *)
LEMMA TransportInv ==
  ASSUME RelayInv, Transport PROVE RelayInv'
  <1>1. CASE \E i \in Indices : HubAccept(i) \/ HubTimeout(i) \/ Fetch(i) \/ PollReceipt(i)
    BY <1>1, HubAcceptInv, HubTimeoutInv, FetchInv, PollReceiptInv
  <1>2. CASE \E i \in Indices, typ \in 1 .. 4 : HubReceipt(i, typ)
    BY <1>2, HubReceiptInv
  <1> QED BY <1>1, <1>2 DEF Transport

(* A step of a business chaincode alone. *)
LEMMA RelayFrame ==
  ASSUME RelayInv, UNCHANGED varsRelay PROVE RelayInv'
  <1>1. UNCHANGED varsSrc /\ UNCHANGED varsDst /\ UNCHANGED varsHub
    BY DEF varsRelay
  <1>2. SrcP!IInv' /\ DstP!IInv'
    BY <1>1, SrcFrame, DstFrame DEF RelayInv
  <1>3. /\ HubTypeOK' /\ HubBehind' /\ FetchedTrue' /\ ReceiptsTrue'
        /\ SuccessProved' /\ VerdictsKept'
    BY <1>1 DEF varsSrc, varsDst, varsHub, RelayInv, RelayTypeOK, HubTypeOK, HubBehind,
       FetchedTrue, ReceiptsTrue, Withdrawn, SuccessProved, VerdictsKept
  <1> QED BY <1>2, <1>3, Parts

-----------------------------------------------------------------------------

(* Whatever A was told of success, B keeps: the hub takes one verdict, on  *)
(* a receipt of success, and then nobody fetches a rollback.               *)
LEMMA SuccessApplied == RelayInv => SuccessMeansApplied
  <1> SUFFICES ASSUME RelayInv, NEW i \in Indices, hub[i] = Success
               PROVE  applied[Pair][i] = <<"ok">>
    BY DEF SuccessMeansApplied
  <1>1. <<i, 1, answers[i]>> \in receipts /\ answers[i] \in Payloads \union {NoPayload}
    BY DEF RelayInv, RelayTypeOK, SuccessProved
  <1>2. applied[Pair][i] = <<"ok">> \/ Withdrawn(i)
    BY <1>1 DEF RelayInv, ReceiptsTrue
  <1>3. ~Withdrawn(i)
    <2>1. hub[i] \notin {BeginFailure, BeginRollback, Failure, Rollback}
      BY DEF Success, BeginFailure, BeginRollback, Failure, Rollback
    <2> QED BY <2>1, FetchedAt DEF Withdrawn
  <1> QED BY <1>2, <1>3

-----------------------------------------------------------------------------

(* When the hub gives a pair's messages up in order, B accepts every       *)
(* rollback: this is the invariant for that.                               *)
Asked(i) == hub[i] \in {BeginFailure, BeginRollback} \/ Withdrawn(i)

Heard(i, typ) ==
  \/ receiptMessages[Pair][i] = typ
  \/ \E v \in Payloads \union {NoPayload} : <<i, typ, v>> \in receipts

Failed(i) ==
  /\ i <= innerMeta[Pair]
  /\ applied[Pair][i] = <<>> \/ applied[Pair][i][1] = "fail"

Reversed(i) == i <= dstRollbackMeta[Pair] /\ applied[Pair][i] # <<"ok">>

(* The hub takes the messages in order, and gives none up while it could   *)
(* still give up an earlier one.                                           *)
AcceptedInOrder ==
  \A i, j \in Indices : j < i /\ hub[i] # None => hub[j] # None

GivenUpInOrder ==
  \A i, j \in Indices : j < i /\ Asked(i) => hub[j] \notin {None, Begin}

(* So what B has closed can no longer time out, and a rollback that is     *)
(* asked for of a closed message was made.                                 *)
ClosedDecided ==
  \A i \in Indices : i <= dstRollbackMeta[Pair] =>
    /\ hub[i] \notin {None, Begin}
    /\ hub[i] = BeginRollback => applied[Pair][i] # <<"ok">>

(* A message the hub refused is never executed. *)
RefusedNeverRun ==
  \A i \in Indices :
    /\ <<i, BeginFailure>> \in ibtps => <<i, Begin>> \notin ibtps
    /\ applied[Pair][i] # <<>> => <<i, Begin>> \in ibtps

(* The other receipts are true for ever, and with them the verdicts. *)
FailuresTrue  == \A i \in Indices : Heard(i, 2) \/ hub[i] = Failure => Failed(i)
RollbacksTrue == \A i \in Indices : Heard(i, 3) \/ hub[i] = Rollback => Reversed(i)

OrderInv ==
  /\ AcceptedInOrder /\ GivenUpInOrder /\ ClosedDecided
  /\ RefusedNeverRun /\ FailuresTrue /\ RollbacksTrue

(* A step the brokers and the hub have no part in, or one that settles or  *)
(* emits.                                                                  *)
LEMMA OrderFrame ==
  ASSUME OrderInv,
         UNCHANGED <<innerMeta, dstRollbackMeta, receiptMessages, applied, hub, ibtps, receipts>>
  PROVE  OrderInv'
  BY DEF OrderInv, AcceptedInOrder, GivenUpInOrder, ClosedDecided, RefusedNeverRun,
     FailuresTrue, RollbacksTrue, Asked, Withdrawn, Heard, Failed, Reversed

(* The verdicts stay true while B does nothing and the hub decides nothing. *)
LEMMA VerdictsFrame ==
  ASSUME FailuresTrue, RollbacksTrue,
         UNCHANGED <<innerMeta, dstRollbackMeta, receiptMessages, applied, receipts>>,
         \A j \in Indices : hub'[j] \in {Failure, Rollback} => hub'[j] = hub[j]
  PROVE  FailuresTrue' /\ RollbacksTrue'
  <1>1. \A j \in Indices, typ \in {2, 3} : Heard(j, typ)' => Heard(j, typ)
    BY DEF Heard
  <1>2. \A j \in Indices : (Failed(j) => Failed(j)') /\ (Reversed(j) => Reversed(j)')
    BY DEF Failed, Reversed
  <1>3. \A j \in Indices : /\ hub'[j] = Failure => hub[j] = Failure
                           /\ hub'[j] = Rollback => hub[j] = Rollback
    OBVIOUS
  <1> QED BY <1>1, <1>2, <1>3 DEF FailuresTrue, RollbacksTrue

(* Calls can be told apart. *)
LEMMA Calls ==
  /\ <<"ok">> # <<>> /\ <<"fail">> # <<>> /\ <<"ok">> # <<"fail">>
  /\ <<"fail">>[1] = "fail" /\ <<"ok">>[1] = "ok"
  /\ \A x \in {"ok", "fail"}, y \in {"undone", "undofail"} :
       <<x, y>> # <<>> /\ <<x, y>> # <<"ok">> /\ <<x, y>>[1] = x
  <1>1. <<"ok">>[1] # <<"fail">>[1]
    OBVIOUS
  <1> QED BY <1>1

(* Nothing was accepted or given up yet. *)
LEMMA OrderInitInv == RelayInit => OrderInv
  <1> SUFFICES ASSUME RelayInit PROVE OrderInv
    OBVIOUS
  <1> USE DEF None, Begin, BeginFailure, BeginRollback, Success, Failure, Rollback
  <1>1. /\ hub = [i \in Indices |-> None] /\ ibtps = {} /\ receipts = {}
        /\ dstRollbackMeta[Pair] = 0
        /\ \A i \in Indices : receiptMessages[Pair][i] = 0 /\ applied[Pair][i] = <<>>
    BY DEF RelayInit, Dst!Init, Dst!Zeros, Dst!NoReceipts, Dst!NoHistory, Dst!Indices, Indices
  <1>2. \A i \in Indices : ~Asked(i) /\ ~Heard(i, 2) /\ ~Heard(i, 3)
    BY <1>1 DEF Asked, Withdrawn, Heard
  <1>3. \A i \in Indices : ~(i <= dstRollbackMeta[Pair])
    BY <1>1 DEF Indices
  <1>4. AcceptedInOrder /\ GivenUpInOrder /\ RefusedNeverRun
    BY <1>1, <1>2 DEF AcceptedInOrder, GivenUpInOrder, RefusedNeverRun
  <1>5. ClosedDecided
    BY <1>3 DEF ClosedDecided
  <1>6. FailuresTrue /\ RollbacksTrue
    BY <1>1, <1>2 DEF FailuresTrue, RollbacksTrue
  <1> QED BY <1>4, <1>5, <1>6 DEF OrderInv

(* The hub takes a message after the earlier ones of its pair, and, when    *)
(* failures are in order, refuses it only if none of them is still open.    *)
LEMMA HubAcceptOrder ==
  ASSUME FailuresInOrder, RelayInv, OrderInv, NEW i \in Indices, HubAccept(i)
  PROVE  OrderInv'
  <1> USE DEF None, Begin, BeginFailure, BeginRollback, Success, Failure, Rollback
  <1>1. PICK h \in {Begin, BeginFailure} :
          /\ hub[i] = None /\ hub' = [hub EXCEPT ![i] = h]
          /\ i > 1 => hub[i - 1] # None
          /\ h = BeginFailure => \A j \in 1 .. i - 1 : hub[j] # Begin
          /\ UNCHANGED <<varsDst, ibtps, receipts>>
    BY DEF HubAccept
  <1>2. hub'[i] = h /\ \A j \in Indices : j # i => hub'[j] = hub[j]
    BY <1>1 DEF RelayInv, RelayTypeOK
  <1>3. UNCHANGED <<innerMeta, dstRollbackMeta, receiptMessages, applied>>
    BY <1>1 DEF varsDst
  <1>4. ASSUME NEW j \in Indices, j < i PROVE hub[j] # None
    <2>1. i - 1 \in Indices /\ hub[i - 1] # None
      BY <1>1, <1>4 DEF Indices
    <2>2. j = i - 1 \/ j < i - 1
      BY <1>4 DEF Indices
    <2> QED BY <2>1, <2>2 DEF OrderInv, AcceptedInOrder
  <1>5. ~Withdrawn(i)
    <2>1. hub[i] \notin {BeginFailure, Failure} /\ hub[i] \notin {BeginRollback, Rollback}
      BY <1>1
    <2>2. /\ <<i, BeginFailure>> \in ibtps => hub[i] \in {BeginFailure, Failure}
          /\ <<i, BeginRollback>> \in ibtps => hub[i] \in {BeginRollback, Rollback}
      BY FetchedAt
    <2> QED BY <2>1, <2>2 DEF Withdrawn
  <1>6. AcceptedInOrder'
    <2> SUFFICES ASSUME NEW k \in Indices, NEW j \in Indices, j < k, hub'[k] # None
                 PROVE  hub'[j] # None
      BY DEF AcceptedInOrder
    <2> QED BY <1>2, <1>4 DEF OrderInv, AcceptedInOrder
  <1>7. GivenUpInOrder'
    <2> SUFFICES ASSUME NEW k \in Indices, NEW j \in Indices, j < k, Asked(k)'
                 PROVE  hub'[j] \notin {None, Begin}
      BY DEF GivenUpInOrder
    <2>1. CASE k = i
      <3>1. h = BeginFailure
        BY <1>1, <1>2, <1>5, <2>1 DEF Asked, Withdrawn
      <3>2. j \in 1 .. i - 1
        BY <2>1 DEF Indices
      <3> QED BY <1>1, <1>2, <1>4, <2>1, <3>1, <3>2
    <2>2. CASE k # i
      <3>1. Asked(k)
        BY <1>1, <1>2, <2>2 DEF Asked, Withdrawn
      <3>2. hub[j] \notin {None, Begin}
        BY <3>1 DEF OrderInv, GivenUpInOrder
      <3> QED BY <1>1, <1>2, <3>2
    <2> QED BY <2>1, <2>2
  <1>8. ClosedDecided'
    BY <1>1, <1>2, <1>3 DEF OrderInv, ClosedDecided
  <1>9. RefusedNeverRun'
    BY <1>1, <1>3 DEF OrderInv, RefusedNeverRun
  <1>10. FailuresTrue' /\ RollbacksTrue'
    <2>1. \A j \in Indices : hub'[j] \in {Failure, Rollback} => hub'[j] = hub[j]
      BY <1>2
    <2> QED BY <1>1, <1>3, <2>1, VerdictsFrame DEF OrderInv
  <1> QED BY <1>6, <1>7, <1>8, <1>9, <1>10 DEF OrderInv

(* It gives a message up only if no earlier one is still open. *)
LEMMA HubTimeoutOrder ==
  ASSUME RelayInv, OrderInv, NEW i \in Indices, HubTimeout(i) PROVE OrderInv'
  <1> USE DEF None, Begin, BeginFailure, BeginRollback, Success, Failure, Rollback
  <1>1. /\ hub[i] = Begin /\ hub' = [hub EXCEPT ![i] = BeginRollback]
        /\ \A j \in 1 .. i - 1 : hub[j] # Begin
        /\ UNCHANGED <<varsDst, ibtps, receipts>>
    BY DEF HubTimeout
  <1>2. hub'[i] = BeginRollback /\ \A j \in Indices : j # i => hub'[j] = hub[j]
    BY <1>1 DEF RelayInv, RelayTypeOK
  <1>3. UNCHANGED <<innerMeta, dstRollbackMeta, receiptMessages, applied>>
    BY <1>1 DEF varsDst
  <1>4. AcceptedInOrder'
    BY <1>1, <1>2 DEF OrderInv, AcceptedInOrder
  <1>5. GivenUpInOrder'
    <2> SUFFICES ASSUME NEW k \in Indices, NEW j \in Indices, j < k, Asked(k)'
                 PROVE  hub'[j] \notin {None, Begin}
      BY DEF GivenUpInOrder
    <2>1. CASE k = i
      <3>1. j \in 1 .. i - 1 /\ j # i
        BY <2>1 DEF Indices
      <3>2. hub[j] # None
        BY <1>1, <2>1 DEF OrderInv, AcceptedInOrder
      <3> QED BY <1>1, <1>2, <3>1, <3>2
    <2>2. CASE k # i
      <3>1. Asked(k)
        BY <1>1, <1>2, <2>2 DEF Asked, Withdrawn
      <3>2. hub[j] \notin {None, Begin}
        BY <3>1 DEF OrderInv, GivenUpInOrder
      <3> QED BY <1>1, <1>2, <3>2
    <2> QED BY <2>1, <2>2
  <1>6. ClosedDecided'
    BY <1>1, <1>2, <1>3 DEF OrderInv, ClosedDecided
  <1>7. RefusedNeverRun'
    BY <1>1, <1>3 DEF OrderInv, RefusedNeverRun
  <1>8. FailuresTrue' /\ RollbacksTrue'
    <2>1. \A j \in Indices : hub'[j] \in {Failure, Rollback} => hub'[j] = hub[j]
      BY <1>2
    <2> QED BY <1>1, <1>3, <2>1, VerdictsFrame DEF OrderInv
  <1> QED BY <1>4, <1>5, <1>6, <1>7, <1>8 DEF OrderInv

(* A pier takes what the hub asks for: its verdicts stay as they are. *)
LEMMA FetchOrder ==
  ASSUME RelayInv, OrderInv, NEW i \in Indices, Fetch(i) PROVE OrderInv'
  <1> USE DEF None, Begin, BeginFailure, BeginRollback, Success, Failure, Rollback
  <1>1. /\ hub[i] \in Opened
        /\ ibtps' = ibtps \union {<<i, hub[i]>>}
        /\ UNCHANGED <<varsDst, hub, receipts>>
    BY DEF Fetch
  <1>2. UNCHANGED <<innerMeta, dstRollbackMeta, receiptMessages, applied>>
    BY <1>1 DEF varsDst
  <1>3. \A j \in Indices : Asked(j)' => Asked(j)
    BY <1>1 DEF Asked, Withdrawn
  <1>4. AcceptedInOrder' /\ GivenUpInOrder'
    BY <1>1, <1>3 DEF OrderInv, AcceptedInOrder, GivenUpInOrder
  <1>5. RefusedNeverRun'
    <2> SUFFICES ASSUME NEW j \in Indices
                 PROVE  /\ <<j, BeginFailure>> \in ibtps' => <<j, Begin>> \notin ibtps'
                        /\ applied[Pair][j] # <<>> => <<j, Begin>> \in ibtps'
      BY <1>2 DEF RefusedNeverRun
    <2>1. /\ <<j, BeginFailure>> \in ibtps => <<j, Begin>> \notin ibtps
          /\ applied[Pair][j] # <<>> => <<j, Begin>> \in ibtps
      BY DEF OrderInv, RefusedNeverRun
    <2>2. CASE j # i
      BY <1>1, <2>1, <2>2
    <2>3. CASE j = i
      <3>1. /\ <<i, Begin>> \in ibtps => hub[i] \notin {None, BeginFailure}
            /\ <<i, BeginFailure>> \in ibtps => hub[i] \in {BeginFailure, Failure}
        BY FetchedAt
      <3> QED BY <1>1, <2>1, <2>3, <3>1
    <2> QED BY <2>2, <2>3
  <1>6. ClosedDecided' /\ FailuresTrue' /\ RollbacksTrue'
    BY <1>1, <1>2 DEF OrderInv, ClosedDecided, FailuresTrue, RollbacksTrue, Heard, Failed,
       Reversed
  <1> QED BY <1>4, <1>5, <1>6 DEF OrderInv

(* A pier takes the receipt B has now. *)
LEMMA PollReceiptOrder ==
  ASSUME RelayInv, OrderInv, NEW i \in Indices, PollReceipt(i) PROVE OrderInv'
  <1>1. /\ receipts' = receipts \union {<<i, receiptMessages[Pair][i], payloads[i]>>}
        /\ UNCHANGED <<varsDst, hub, ibtps>>
    BY DEF PollReceipt, generateReceipt
  <1>2. UNCHANGED <<innerMeta, dstRollbackMeta, receiptMessages, applied>>
    BY <1>1 DEF varsDst
  <1>3. \A j \in Indices, typ \in {2, 3} : Heard(j, typ)' => Heard(j, typ)
    BY <1>1, <1>2 DEF Heard
  <1>4. AcceptedInOrder' /\ GivenUpInOrder' /\ ClosedDecided' /\ RefusedNeverRun'
    BY <1>1, <1>2 DEF OrderInv, AcceptedInOrder, GivenUpInOrder, ClosedDecided,
       RefusedNeverRun, Asked, Withdrawn
  <1>5. FailuresTrue' /\ RollbacksTrue'
    BY <1>1, <1>2, <1>3 DEF OrderInv, FailuresTrue, RollbacksTrue, Failed, Reversed
  <1> QED BY <1>4, <1>5 DEF OrderInv

(* The hub decides on a receipt. *)
LEMMA HubReceiptOrder ==
  ASSUME RelayInv, OrderInv, NEW i \in Indices, NEW typ \in 1 .. 4, HubReceipt(i, typ)
  PROVE  OrderInv'
  <1> USE DEF None, Begin, BeginFailure, BeginRollback, Success, Failure, Rollback
  <1>1. PICK payload \in Payloads \union {NoPayload}, new \in Decided :
          /\ <<i, typ, payload>> \in receipts
          /\ \/ hub[i] = Begin /\ typ = 1 /\ new = Success
             \/ hub[i] \in {Begin, BeginFailure} /\ typ = 2 /\ new = Failure
             \/ hub[i] = BeginRollback /\ typ = 3 /\ new = Rollback
          /\ hub' = [hub EXCEPT ![i] = new]
          /\ answers' = [answers EXCEPT ![i] = IF new = Success THEN payload ELSE @]
          /\ UNCHANGED <<varsSrc, varsDst, ibtps, receipts>>
    BY HubReceiptEffect
  <1>2. hub'[i] = new /\ \A j \in Indices : j # i => hub'[j] = hub[j]
    BY <1>1 DEF RelayInv, RelayTypeOK
  <1>3. UNCHANGED <<innerMeta, dstRollbackMeta, receiptMessages, applied>>
    BY <1>1 DEF varsDst
  <1>4. new \in {Success, Failure, Rollback} /\ hub[i] # None
    BY <1>1
  <1>5. AcceptedInOrder'
    BY <1>2, <1>4 DEF OrderInv, AcceptedInOrder
  <1>6. GivenUpInOrder'
    <2>1. \A j \in Indices : Asked(j)' => Asked(j)
      BY <1>1, <1>2, <1>4 DEF Asked, Withdrawn
    <2>2. \A j \in Indices : hub[j] \notin {None, Begin} => hub'[j] \notin {None, Begin}
      BY <1>2, <1>4
    <2> QED BY <2>1, <2>2 DEF OrderInv, GivenUpInOrder
  <1>7. ClosedDecided'
    BY <1>2, <1>3, <1>4 DEF OrderInv, ClosedDecided
  <1>8. RefusedNeverRun'
    BY <1>1, <1>3 DEF OrderInv, RefusedNeverRun
  <1>9. new = Failure => Heard(i, 2)
    BY <1>1 DEF Heard
  <1>10. new = Rollback => Heard(i, 3)
    BY <1>1 DEF Heard
  <1>11. \A j \in Indices, t \in {2, 3} : Heard(j, t)' => Heard(j, t)
    BY <1>1, <1>3 DEF Heard
  <1>12. FailuresTrue' /\ RollbacksTrue'
    BY <1>2, <1>3, <1>9, <1>10, <1>11 DEF OrderInv, FailuresTrue, RollbacksTrue, Failed, Reversed
  <1> QED BY <1>5, <1>6, <1>7, <1>8, <1>12 DEF OrderInv

(* What a rollback does to the counter and the receipt, and when a pier    *)
(* hands it in.                                                            *)
LEMMA RollbackEffect ==
  ASSUME RelayInv, NEW i \in Indices, NEW st \in Opened, NEW ok \in BOOLEAN,
         NEW payload, Deliver(i, st, ok, payload)
  PROVE  /\ st = Begin => dstRollbackMeta' = dstRollbackMeta
         /\ st # Begin =>
              /\ ~(i <= dstRollbackMeta[Pair]) /\ dstRollbackMeta'[Pair] = i
              /\ receiptMessages'[Pair][i] = IF st = BeginFailure THEN 2 ELSE 3
              /\ \A j \in 1 .. i - 1 : hub[j] \in {BeginFailure, BeginRollback} =>
                                         j <= dstRollbackMeta[Pair]
  <1>1. /\ Dst!InvokeInterchain(Pair, i, st, ok)
        /\ st # Begin => \A j \in 1 .. i - 1 :
             hub[j] \in {BeginFailure, BeginRollback} => j <= dstRollbackMeta[Pair]
    BY DEF Deliver
  <1>2. CASE st = Begin
    BY <1>1, <1>2 DEF Begin, Dst!InvokeInterchain, Dst!UpdateIndexRequest
  <1>3. CASE st # Begin
    <2>1. st # 0 /\ (st = 1 <=> st = BeginFailure)
      BY <1>3 DEF Begin, BeginFailure
    <2>2. /\ Dst!UpdateIndexRollback(Pair, i)
          /\ receiptMessages' = [receiptMessages EXCEPT ![Pair][i] = Dst!ReceiptType(st, ok)]
      BY <1>1, <2>1 DEF Dst!InvokeInterchain
    <2>3. Dst!ReceiptType(st, ok) = IF st = BeginFailure THEN 2 ELSE 3
      BY <2>1 DEF Dst!ReceiptType, Dst!Direct
    <2>4. receiptMessages'[Pair][i] = IF st = BeginFailure THEN 2 ELSE 3
      BY <2>2, <2>3, Types
    <2>5. ~(i <= dstRollbackMeta[Pair])
      BY <2>2, Types DEF Dst!UpdateIndexRollback, Dst!IsLaterRollback, Indices
    <2>6. dstRollbackMeta'[Pair] = i
      BY <2>2, Types DEF Dst!UpdateIndexRollback
    <2> QED BY <1>1, <1>3, <2>4, <2>5, <2>6
  <1> QED BY <1>2, <1>3

(* What a submission does to the calls of each message. *)
LEMMA CallsEffect ==
  ASSUME RelayInv, NEW i \in Indices, NEW st \in Opened, NEW ok \in BOOLEAN,
         NEW payload, Deliver(i, st, ok, payload)
  PROVE  /\ \A j \in Indices : j # i =>
              /\ applied'[Pair][j] = applied[Pair][j]
              /\ receiptMessages'[Pair][j] = receiptMessages[Pair][j]
         /\ innerMeta'[Pair] \in {innerMeta[Pair], i}
         /\ innerMeta[Pair] <= innerMeta'[Pair] /\ i <= innerMeta'[Pair]
         /\ st = Begin =>
              /\ ~(i <= innerMeta[Pair]) /\ applied[Pair][i] = <<>>
              /\ applied'[Pair][i] = IF ok THEN <<"ok">> ELSE <<"fail">>
              /\ receiptMessages'[Pair][i] = IF ok THEN 1 ELSE 2
         /\ st # Begin =>
              \/ ~(i <= innerMeta[Pair]) /\ applied[Pair][i] = <<>> /\ applied'[Pair][i] = <<>>
              \/ \E x \in {"ok", "fail"} :
                   /\ applied[Pair][i] = <<x>>
                   /\ applied'[Pair][i] = <<x, IF ok THEN "undone" ELSE "undofail">>
  <1>1. \/ st = Begin /\ Executes(i, ok, payload)
        \/ st # Begin /\ Reverses(i, ok, payload)
        \/ st # Begin /\ Cancels(i)
    BY DeliverEffect
  <1>2. \A j \in Indices : j # i =>
          /\ applied'[Pair][j] = applied[Pair][j]
          /\ receiptMessages'[Pair][j] = receiptMessages[Pair][j]
    BY <1>1, Types DEF Executes, Reverses, Cancels
  <1>3. /\ innerMeta'[Pair] \in {innerMeta[Pair], i}
        /\ innerMeta[Pair] <= innerMeta'[Pair] /\ i <= innerMeta'[Pair]
    BY <1>1, Types DEF Executes, Reverses, Cancels, Indices
  <1>4. CASE st = Begin
    <2>1. Executes(i, ok, payload)
      BY <1>1, <1>4
    <2>2. ~(i <= innerMeta[Pair]) /\ applied[Pair][i] = <<>>
      BY <2>1, Types DEF Executes, Indices
    <2>3. applied'[Pair][i] = IF ok THEN <<"ok">> ELSE <<"fail">>
      BY <2>1, Types DEF Executes
    <2>4. receiptMessages'[Pair][i] = IF ok THEN 1 ELSE 2
      BY <2>1, Types DEF Executes
    <2> QED BY <1>2, <1>3, <1>4, <2>2, <2>3, <2>4
  <1>5. CASE st # Begin /\ Reverses(i, ok, payload)
    <2>1. PICK x \in {"ok", "fail"} : applied[Pair][i] = <<x>>
      BY <1>5 DEF Reverses
    <2>2. applied'[Pair][i] = <<applied[Pair][i][1], IF ok THEN "undone" ELSE "undofail">>
      BY <1>5, Types DEF Reverses
    <2>3. applied[Pair][i][1] = x
      BY <2>1
    <2>4. applied'[Pair][i] = <<x, IF ok THEN "undone" ELSE "undofail">>
      BY <2>2, <2>3
    <2> QED BY <1>2, <1>3, <1>5, <2>1, <2>4
  <1>6. CASE st # Begin /\ Cancels(i)
    <2>1. /\ ~(i <= innerMeta[Pair]) /\ applied[Pair][i] = <<>>
          /\ applied'[Pair][i] = <<>>
      BY <1>6, Types DEF Cancels, Indices
    <2> QED BY <1>2, <1>3, <1>6, <2>1
  <1> QED BY <1>1, <1>4, <1>5, <1>6

(* B executes or reverses a message; the rollbacks that
   a jump passes over are decided. *)
LEMMA DeliverOrder ==
  ASSUME RelayInv, OrderInv, NEW i \in Indices, NEW st \in Opened, NEW ok \in BOOLEAN,
         NEW payload, Deliver(i, st, ok, payload)
  PROVE  OrderInv'
  <1>1. <<i, st>> \in ibtps /\ UNCHANGED <<hub, ibtps, receipts>>
    BY DeliverEffect DEF varsHub
  <1>2. /\ \A j \in Indices : j # i =>
             /\ applied'[Pair][j] = applied[Pair][j]
             /\ receiptMessages'[Pair][j] = receiptMessages[Pair][j]
        /\ innerMeta'[Pair] \in {innerMeta[Pair], i}
        /\ innerMeta[Pair] <= innerMeta'[Pair] /\ i <= innerMeta'[Pair]
    BY CallsEffect
  <1>3. st = Begin =>
          /\ ~(i <= innerMeta[Pair]) /\ applied[Pair][i] = <<>>
          /\ applied'[Pair][i] = IF ok THEN <<"ok">> ELSE <<"fail">>
          /\ receiptMessages'[Pair][i] = IF ok THEN 1 ELSE 2
    BY CallsEffect
  <1>4. st # Begin =>
          \/ ~(i <= innerMeta[Pair]) /\ applied[Pair][i] = <<>> /\ applied'[Pair][i] = <<>>
          \/ \E x \in {"ok", "fail"} :
               /\ applied[Pair][i] = <<x>>
               /\ applied'[Pair][i] = <<x, IF ok THEN "undone" ELSE "undofail">>
    BY CallsEffect
  <1>5. /\ st = Begin => dstRollbackMeta' = dstRollbackMeta
        /\ st # Begin =>
             /\ ~(i <= dstRollbackMeta[Pair]) /\ dstRollbackMeta'[Pair] = i
             /\ receiptMessages'[Pair][i] = IF st = BeginFailure THEN 2 ELSE 3
             /\ \A j \in 1 .. i - 1 : hub[j] \in {BeginFailure, BeginRollback} =>
                                        j <= dstRollbackMeta[Pair]
    BY RollbackEffect
  <1>6. ~(i <= dstRollbackMeta[Pair])
    BY <1>3, <1>5, DstAt
  <1>7. st # Begin => applied'[Pair][i] # <<"ok">>
    BY <1>4, Calls
  <1>8. AcceptedInOrder' /\ GivenUpInOrder'
    BY <1>1 DEF OrderInv, AcceptedInOrder, GivenUpInOrder, Asked, Withdrawn
  <1>9. RefusedNeverRun'
    <2> SUFFICES ASSUME NEW j \in Indices, applied'[Pair][j] # <<>>
                 PROVE  <<j, Begin>> \in ibtps
      BY <1>1 DEF OrderInv, RefusedNeverRun
    <2>1. applied[Pair][j] # <<>> => <<j, Begin>> \in ibtps
      BY DEF OrderInv, RefusedNeverRun
    <2>2. CASE j # i
      BY <1>2, <2>1, <2>2
    <2>3. CASE j = i /\ st = Begin
      BY <1>1, <2>3
    <2>4. CASE j = i /\ st # Begin
      BY <1>4, <2>1, <2>4, Calls
    <2> QED BY <2>2, <2>3, <2>4
  <1>10. ASSUME NEW j \in Indices, Failed(j) PROVE Failed(j)'
    <2>1. j <= innerMeta'[Pair]
      BY <1>2, <1>10, Types DEF Failed, Indices
    <2>2. CASE j # i
      BY <1>2, <1>10, <2>1, <2>2 DEF Failed
    <2>3. CASE j = i
      <3>1. i <= innerMeta[Pair] /\ (applied[Pair][i] = <<>> \/ applied[Pair][i][1] = "fail")
        BY <1>10, <2>3 DEF Failed
      <3>2. st # Begin
        BY <1>3, <3>1
      <3>3. PICK x \in {"ok", "fail"} :
              /\ applied[Pair][i] = <<x>>
              /\ applied'[Pair][i] = <<x, IF ok THEN "undone" ELSE "undofail">>
        BY <1>4, <3>1, <3>2
      <3>4. x = "fail"
        BY <3>1, <3>3, Calls
      <3>5. applied'[Pair][i][1] = "fail"
        BY <3>3, <3>4
      <3> QED BY <2>1, <2>3, <3>5 DEF Failed
    <2> QED BY <2>2, <2>3
  <1>11. \A j \in Indices : j <= dstRollbackMeta[Pair] => j # i /\ j <= dstRollbackMeta'[Pair]
    BY <1>5, <1>6, Types DEF Indices
  <1>12. ASSUME NEW j \in Indices, Reversed(j) PROVE Reversed(j)'
    BY <1>2, <1>11, <1>12 DEF Reversed
  <1>13. \A j \in Indices, typ \in {2, 3} : j # i /\ Heard(j, typ)' => Heard(j, typ)
    BY <1>1, <1>2 DEF Heard
  <1>14. FailuresTrue'
    <2> SUFFICES ASSUME NEW j \in Indices, Heard(j, 2)' \/ hub[j] = Failure PROVE Failed(j)'
      BY <1>1 DEF FailuresTrue
    <2>1. CASE Heard(j, 2) \/ hub[j] = Failure
      BY <1>10, <2>1 DEF OrderInv, FailuresTrue
    <2>2. CASE ~Heard(j, 2) /\ Heard(j, 2)'
      <3>1. j = i
        BY <1>13, <2>2
      <3>2. receiptMessages'[Pair][i] = 2
        BY <1>1, <2>2, <3>1 DEF Heard
      <3>3. CASE st = Begin
        <4>1. applied'[Pair][i] = <<"fail">>
          BY <1>3, <3>2, <3>3
        <4> QED BY <1>2, <3>1, <4>1, Calls DEF Failed
      <3>4. CASE st # Begin
        <4>1. st = BeginFailure
          BY <1>5, <3>2, <3>4
        <4>2. applied[Pair][i] = <<>>
          BY <1>1, <4>1 DEF OrderInv, RefusedNeverRun
        <4>3. applied'[Pair][i] = <<>>
          BY <1>4, <3>4, <4>2, Calls
        <4> QED BY <1>2, <3>1, <4>3 DEF Failed
      <3> QED BY <3>3, <3>4
    <2> QED BY <2>1, <2>2
  <1>15. RollbacksTrue'
    <2> SUFFICES ASSUME NEW j \in Indices, Heard(j, 3)' \/ hub[j] = Rollback PROVE Reversed(j)'
      BY <1>1 DEF RollbacksTrue
    <2>1. CASE Heard(j, 3) \/ hub[j] = Rollback
      BY <1>12, <2>1 DEF OrderInv, RollbacksTrue
    <2>2. CASE ~Heard(j, 3) /\ Heard(j, 3)'
      <3>1. j = i
        BY <1>13, <2>2
      <3>2. receiptMessages'[Pair][i] = 3
        BY <1>1, <2>2, <3>1 DEF Heard
      <3>3. st # Begin
        BY <1>3, <3>2
      <3> QED BY <1>5, <1>7, <3>1, <3>3 DEF Reversed, Indices
    <2> QED BY <2>1, <2>2
  <1>16. ClosedDecided'
    <2> SUFFICES ASSUME NEW j \in Indices, j <= dstRollbackMeta'[Pair]
                 PROVE  /\ hub[j] \notin {None, Begin}
                        /\ hub[j] = BeginRollback => applied'[Pair][j] # <<"ok">>
      BY <1>1 DEF ClosedDecided
    <2>1. CASE j <= dstRollbackMeta[Pair]
      BY <1>2, <1>11, <2>1 DEF OrderInv, ClosedDecided
    <2>2. CASE ~(j <= dstRollbackMeta[Pair])
      <3>1. st # Begin /\ j <= i
        BY <1>5, <2>2
      <3>2. Asked(i) /\ hub[i] \notin {None, Begin}
        <4>1. hub[i] \in {BeginFailure, Failure, BeginRollback, Rollback}
          BY <1>1, <3>1, FetchedAt DEF Opened
        <4>2. Withdrawn(i)
          BY <1>1, <3>1 DEF Withdrawn, Opened
        <4> QED BY <4>1, <4>2 DEF Asked, None, Begin, BeginFailure, Failure, BeginRollback,
                Rollback
      <3>3. CASE j = i
        BY <1>7, <3>1, <3>2, <3>3
      <3>4. CASE j # i
        <4>1. j < i /\ j \in 1 .. i - 1
          BY <3>1, <3>4 DEF Indices
        <4>2. hub[j] \notin {None, Begin}
          BY <3>2, <4>1 DEF OrderInv, GivenUpInOrder
        <4>3. hub[j] # BeginRollback
          BY <1>5, <2>2, <3>1, <4>1
        <4> QED BY <4>2, <4>3
      <3> QED BY <3>3, <3>4
    <2> QED BY <2>1, <2>2
  <1> QED BY <1>8, <1>9, <1>14, <1>15, <1>16 DEF OrderInv

(* The steps that touch no business chaincode keep the order, too. *)
LEMMA TransportOrder ==
  ASSUME FailuresInOrder, RelayInv, OrderInv, Transport PROVE OrderInv'
  <1>1. CASE \E i \in Indices : HubAccept(i) \/ HubTimeout(i) \/ Fetch(i) \/ PollReceipt(i)
    BY <1>1, HubAcceptOrder, HubTimeoutOrder, FetchOrder, PollReceiptOrder
  <1>2. CASE \E i \in Indices, typ \in 1 .. 4 : HubReceipt(i, typ)
    BY <1>2, HubReceiptOrder
  <1> QED BY <1>1, <1>2 DEF Transport

(* What the invariant is for: a message whose rollback A called shows no   *)
(* success on B, or its rollback is still to come and B will take it.      *)
LEMMA RollbackReaches ==
  ASSUME RelayInv, OrderInv, NEW i \in Indices, called[Pair][i] = <<"rollback">>
  PROVE  \/ hub[i] = BeginRollback /\ ~(i <= dstRollbackMeta[Pair])
         \/ applied[Pair][i] # <<"ok">>
  <1>1. hub[i] \in Decided \ {Success}
    BY DEF RelayInv, VerdictsKept
  <1>2. CASE hub[i] = BeginFailure
    <2>1. hub[i] # None
      BY <1>2 DEF BeginFailure, None
    <2>2. <<i, Begin>> \notin ibtps
      BY <1>2, FetchedAt
    <2>3. applied[Pair][i] = <<>>
      BY <2>2 DEF OrderInv, RefusedNeverRun
    <2> QED BY <2>3, Calls
  <1>3. CASE hub[i] = BeginRollback
    BY <1>3 DEF OrderInv, ClosedDecided
  <1>4. CASE hub[i] = Failure
    <2>1. Failed(i)
      BY <1>4 DEF OrderInv, FailuresTrue
    <2>2. "fail" # "ok"
      OBVIOUS
    <2> QED BY <2>1, <2>2, Calls DEF Failed
  <1>5. CASE hub[i] = Rollback
    BY <1>5 DEF OrderInv, RollbacksTrue, Reversed
  <1> QED BY <1>1, <1>2, <1>3, <1>4, <1>5 DEF Decided
=============================================================================
