-------------------------- MODULE BrokerOut_proofs --------------------------
(***************************************************************************)
(* Proofs about the source broker, for any pairs, messages, thresholds and *)
(* message bound.  IInv, the conjunction of the invariants that are model- *)
(* checked, is inductive.                                                  *)
(***************************************************************************)
EXTENDS BrokerOut, TLAPS

IInv ==
  /\ TypeOK
  /\ MessagesDense
  /\ ExactlyOnceInOrder
  /\ StatusAgrees

USE BrokerPairsAssumption, NoEventAssumption, MaxIndexAssumption,
    ThresholdsAssumption

(* The initial state, before any message, satisfies the invariant. *)
LEMMA InitInv == Init => IInv
  <1> SUFFICES ASSUME Init PROVE IInv
    OBVIOUS
  <1>1. TypeOK
    BY DEF Init, TypeOK, Tx!Init, Tx!TypeOK, Tx!Statuses, Tx!Absent, Tx!Rollback,
           NoMessages, NoHistory, Zeros
  <1>2. MessagesDense
    BY DEF Init, MessagesDense, NoMessages, Zeros, Indices
  <1>3. ExactlyOnceInOrder
    BY DEF Init, ExactlyOnceInOrder, NoHistory, Zeros, Indices
  <1>4. StatusAgrees
    BY DEF Init, StatusAgrees, Direct
  <1> QED BY <1>1, <1>2, <1>3, <1>4 DEF IInv

(* An initialize by the admin starts over, whatever the threshold. *)
LEMMA InitializeInv ==
  ASSUME IInv, NEW t \in Thresholds, Initialize(t)
  PROVE  IInv'
  <1> USE DEF Initialize, InitMap
  <1>1. TypeOK'
    <2>1. Tx!TypeOK'
      BY DEF IInv, TypeOK, Tx!TypeOK, Tx!Initialize, Tx!Statuses, Tx!Absent, Tx!Rollback
    <2> QED BY <2>1 DEF TypeOK, NoMessages, NoHistory, Zeros
  <1>2. MessagesDense'
    BY DEF MessagesDense, NoMessages, Zeros, Indices
  <1>3. ExactlyOnceInOrder'
    BY DEF ExactlyOnceInOrder, NoHistory, Zeros, Indices
  <1>4. StatusAgrees'
    BY DEF StatusAgrees, Direct, NoHistory, Zeros, Indices, Tx!Initialize, Tx!Absent,
           Tx!Success, Tx!BeginRollback, Tx!Failure
  <1> QED BY <1>1, <1>2, <1>3, <1>4 DEF IInv

(* An emission stores the next message and opens its transaction. *)
LEMMA EmitInv ==
  ASSUME IInv, NEW p \in Pairs, NEW e \in Events, EmitInterchainEvent(p, e)
  PROVE  IInv'
  <1> DEFINE i == NextIndex(p)
  <1> USE DEF EmitInterchainEvent, NextIndex
  <1>0. i \in Indices /\ i = outterMeta[p] + 1
    BY DEF IInv, TypeOK, Indices
  <1>1. TypeOK'
    <2>1. Tx!TypeOK'
      <3>1. <<p, i>> \in Pairs \X Indices /\ Tx!Begin \in Tx!Statuses
        BY <1>0 DEF Tx!Statuses, Tx!Absent, Tx!Begin, Tx!Rollback
      <3>2. CASE Direct
        BY <3>1, <3>2 DEF IInv, TypeOK, OpenTransaction, Tx!TypeOK,
             Tx!StartTransaction, Tx!Move
      <3>3. CASE ~Direct
        BY <3>3 DEF IInv, TypeOK, OpenTransaction, Tx!TypeOK
      <3> QED BY <3>2, <3>3
    <2> QED BY <1>0, <2>1 DEF IInv, TypeOK, Indices
  <1>2. MessagesDense'
    BY <1>0 DEF IInv, TypeOK, MessagesDense, Indices
  <1>3. ExactlyOnceInOrder'
    <2>1. \A q \in Pairs : outterMeta[q] <= outterMeta'[q]
      BY <1>0 DEF IInv, TypeOK
    <2>2. \A q \in Pairs, j \in Indices : j <= outterMeta[q] => j <= outterMeta'[q]
      BY <1>0, <2>1 DEF IInv, TypeOK, Indices
    <2> QED BY <2>2 DEF IInv, ExactlyOnceInOrder
  <1>4. StatusAgrees'
    <2> SUFFICES ASSUME Direct', NEW q \in Pairs, NEW j \in Indices
                 PROVE  LET st == transactionStatus'[<<q, j>>] IN
                        /\ (st = Tx!Absent) <=> (outterMeta'[q] < j)
                        /\ (st = Tx!Success) <=> (called'[q][j] = <<"callback">>)
                        /\ (st \in {Tx!BeginRollback, Tx!Failure})
                             <=> (called'[q][j] = <<"rollback">>)
      BY DEF StatusAgrees
    <2>1. Direct /\ Tx!StartTransaction(<<p, i>>)
      BY DEF Direct, OpenTransaction, Tx!StartTransaction, Tx!Move
    <2>2. CASE q = p /\ j = i
      <3>1. transactionStatus[<<p, i>>] = Tx!Absent /\ transactionStatus'[<<p, i>>] = Tx!Begin
        BY <1>0, <2>1 DEF Tx!StartTransaction, Tx!Move, IInv, TypeOK, Tx!TypeOK
      <3>2. called[p][i] # <<"callback">> /\ called[p][i] # <<"rollback">>
        BY <1>0, <2>1, <3>1 DEF IInv, StatusAgrees, Tx!Absent, Tx!BeginRollback,
             Tx!Success, Tx!Failure
      <3>3. called' = called /\ ~(outterMeta'[p] < i)
        BY <1>0 DEF IInv, TypeOK
      <3> QED BY <2>2, <3>1, <3>2, <3>3 DEF Tx!Absent, Tx!Begin, Tx!BeginRollback,
              Tx!Success, Tx!Failure
    <2>3. CASE ~(q = p /\ j = i)
      <3>1. transactionStatus'[<<q, j>>] = transactionStatus[<<q, j>>]
        BY <2>1, <2>3 DEF Tx!StartTransaction, Tx!Move, IInv, TypeOK, Tx!TypeOK
      <3>2. (outterMeta'[q] < j) <=> (outterMeta[q] < j)
        BY <1>0, <2>3 DEF IInv, TypeOK, Indices
      <3> QED BY <2>1, <3>1, <3>2 DEF IInv, StatusAgrees
    <2> QED BY <2>2, <2>3
  <1> QED BY <1>1, <1>2, <1>3, <1>4 DEF IInv

(* A direct-mode receipt finds its transaction at a status that is not     *)
(* final and moves it to the one that matches the function it calls.       *)
LEMMA CloseMoves ==
  ASSUME IInv, Direct, NEW p \in Pairs, NEW i \in Indices, NEW typ,
         NEW txStatus, called[p][i] = <<>>, CloseTransaction(p, i, typ)
  PROVE  /\ transactionStatus[<<p, i>>] = Tx!Begin
         /\ transactionStatus' = [transactionStatus EXCEPT ![<<p, i>>] =
                                    transactionStatus'[<<p, i>>]]
         /\ IF IsRollback(typ, txStatus)
            THEN transactionStatus'[<<p, i>>] \in {Tx!BeginRollback, Tx!Failure}
            ELSE transactionStatus'[<<p, i>>] = Tx!Success
  <1> USE DEF Tx!Begin, Tx!BeginRollback, Tx!Success, Tx!Failure
  <1>1. transactionStatus \in [Pairs \X Indices -> Tx!Statuses]
    BY DEF IInv, TypeOK, Tx!TypeOK
  <1>2. transactionStatus[<<p, i>>] \notin {Tx!BeginRollback, Tx!Failure}
    <2>1. called[p][i] # <<"rollback">>
      OBVIOUS
    <2> QED BY <2>1 DEF IInv, StatusAgrees
  <1>3. CASE typ = 1
    BY <1>1, <1>2, <1>3 DEF CloseTransaction, IsRollback, Tx!EndTransactionSuccess, Tx!Move
  <1>4. CASE typ = 2
    BY <1>1, <1>2, <1>4 DEF CloseTransaction, IsRollback, Tx!EndTransactionFail, Tx!Move
  <1>5. CASE typ = 3
    BY <1>1, <1>2, <1>5 DEF CloseTransaction, IsRollback, Tx!RollbackTransaction, Tx!Move
  <1>6. typ \in {1, 2, 3}
    <2>1. typ \in {1, 2, 3} \/ (typ = 4 /\ Tx!EndTransactionRollback(<<p, i>>))
      BY DEF CloseTransaction
    <2> QED BY <2>1, <1>2 DEF Tx!EndTransactionRollback, Tx!Move
  <1> QED BY <1>3, <1>4, <1>5, <1>6

(* A receipt calls exactly one function, for the next index. *)
LEMMA ReceiptInv ==
  ASSUME IInv, NEW p \in Pairs, NEW i \in Indices, NEW typ \in Types,
         NEW txStatus \in TxStatuses, InvokeReceipt(p, i, typ, txStatus)
  PROVE  IInv'
  <1> DEFINE f == IF IsRollback(typ, txStatus) THEN "rollback" ELSE "callback"
  <1>1. /\ i = callbackMeta[p] + 1
        /\ callbackMeta' = [callbackMeta EXCEPT ![p] = i]
        /\ called' = [called EXCEPT ![p][i] = Append(@, f)]
        /\ CloseTransaction(p, i, typ)
        /\ UNCHANGED <<valThreshold, outterMeta, outMessages, skipped>>
    BY DEF InvokeReceipt, IsNextCallback, MarkCallbackCounter
  <1>next. ~(i <= callbackMeta[p])
    BY <1>1 DEF IInv, TypeOK, Indices
  <1>once. ExactlyOnceInOrder
    BY DEF IInv
  <1>2. called[p][i] = <<>>
    <2>1. Len(called[p][i]) = 0
      BY <1>next, <1>once DEF ExactlyOnceInOrder
    <2> QED BY <2>1 DEF IInv, TypeOK
  <1>3. /\ f \in {"callback", "rollback"}
        /\ Append(called[p][i], f) = <<f>>
        /\ called'[p][i] = <<f>>
        /\ \A q \in Pairs, j \in Indices :
             ~(q = p /\ j = i) => called'[q][j] = called[q][j]
    BY <1>1, <1>2 DEF IInv, TypeOK
  <1> HIDE DEF f
  <1>4. i \notin skipped[p]
    BY <1>next, <1>once DEF ExactlyOnceInOrder
  <1>5. TypeOK'
    <2>1. called' \in [Pairs -> [Indices -> Seq({"callback", "rollback"})]]
      BY <1>1, <1>3 DEF IInv, TypeOK
    <2>2. Tx!TypeOK'
      <3>1. <<p, i>> \in Pairs \X Indices
            /\ {Tx!Success, Tx!Failure, Tx!BeginRollback, Tx!Rollback} \subseteq Tx!Statuses
        BY DEF Tx!Statuses, Tx!Absent, Tx!Success, Tx!Failure, Tx!BeginRollback, Tx!Rollback
      <3>2. CASE Direct
        BY <1>1, <3>1, <3>2 DEF IInv, TypeOK, CloseTransaction, Tx!TypeOK, Tx!Move,
           Tx!EndTransactionSuccess, Tx!EndTransactionFail, Tx!RollbackTransaction,
           Tx!EndTransactionRollback
      <3>3. CASE ~Direct
        BY <1>1, <3>3 DEF IInv, TypeOK, CloseTransaction, Tx!TypeOK
      <3> QED BY <3>2, <3>3
    <2> QED BY <1>1, <2>1, <2>2 DEF IInv, TypeOK, Indices
  <1>6. MessagesDense'
    BY <1>1 DEF IInv, MessagesDense
  <1>7. ExactlyOnceInOrder'
    <2> SUFFICES ASSUME NEW q \in Pairs, NEW j \in Indices
                 PROVE  /\ called'[q][j] # <<>> => j <= outterMeta'[q]
                        /\ j \in skipped'[q] => j <= callbackMeta'[q]
                        /\ Len(called'[q][j]) =
                             IF j <= callbackMeta'[q] /\ j \notin skipped'[q] THEN 1 ELSE 0
      BY DEF ExactlyOnceInOrder
    <2>1. CASE q = p /\ j = i
      <3>1. Len(<<f>>) = 1
        OBVIOUS
      <3>2. i <= outterMeta[p]
        BY DEF InvokeReceipt, IInv, MessagesDense
      <3>3. i <= callbackMeta'[p] /\ i \notin skipped'[p] /\ i <= outterMeta'[p]
        BY <1>1, <1>4, <3>2 DEF IInv, TypeOK, Indices
      <3> QED BY <1>3, <2>1, <3>1, <3>3
    <2>2. CASE ~(q = p /\ j = i)
      <3>1. called'[q][j] = called[q][j] /\ skipped'[q] = skipped[q]
        BY <1>1, <1>3, <2>2
      <3>2. outterMeta' = outterMeta
        BY <1>1
      <3>3. (j <= callbackMeta'[q]) <=> (j <= callbackMeta[q])
        BY <1>1, <2>2 DEF IInv, TypeOK, Indices
      <3> QED BY <1>once, <3>1, <3>2, <3>3 DEF ExactlyOnceInOrder
    <2> QED BY <2>1, <2>2
  <1>8. StatusAgrees'
    <2> SUFFICES ASSUME Direct', NEW q \in Pairs, NEW j \in Indices
                 PROVE  LET st == transactionStatus'[<<q, j>>] IN
                        /\ (st = Tx!Absent) <=> (outterMeta'[q] < j)
                        /\ (st = Tx!Success) <=> (called'[q][j] = <<"callback">>)
                        /\ (st \in {Tx!BeginRollback, Tx!Failure})
                             <=> (called'[q][j] = <<"rollback">>)
      BY DEF StatusAgrees
    <2>1. Direct
      BY <1>1 DEF Direct
    <2>2. /\ transactionStatus[<<p, i>>] = Tx!Begin
          /\ transactionStatus' = [transactionStatus EXCEPT ![<<p, i>>] =
                                      transactionStatus'[<<p, i>>]]
          /\ IF IsRollback(typ, txStatus)
             THEN transactionStatus'[<<p, i>>] \in {Tx!BeginRollback, Tx!Failure}
             ELSE transactionStatus'[<<p, i>>] = Tx!Success
      BY <1>1, <1>2, <2>1, CloseMoves
    <2>3. CASE q = p /\ j = i
      <3>1. transactionStatus[<<p, i>>] # Tx!Absent
        BY <2>2 DEF Tx!Begin, Tx!Absent
      <3>2. ~(outterMeta'[p] < i)
        BY <1>1, <2>1, <3>1 DEF IInv, StatusAgrees
      <3>3. CASE IsRollback(typ, txStatus)
        <4>1. called'[p][i] = <<"rollback">> /\ <<"rollback">> # <<"callback">>
          BY <1>3, <3>3 DEF f
        <4> QED BY <2>2, <2>3, <3>2, <3>3, <4>1 DEF Tx!Absent, Tx!BeginRollback,
                Tx!Success, Tx!Failure
      <3>4. CASE ~IsRollback(typ, txStatus)
        <4>1. called'[p][i] = <<"callback">> /\ <<"rollback">> # <<"callback">>
          BY <1>3, <3>4 DEF f
        <4> QED BY <2>2, <2>3, <3>2, <3>4, <4>1 DEF Tx!Absent, Tx!BeginRollback,
                Tx!Success, Tx!Failure
      <3> QED BY <3>3, <3>4
    <2>4. CASE ~(q = p /\ j = i)
      <3>1. <<q, j>> # <<p, i>>
        BY <2>4
      <3>2. transactionStatus'[<<q, j>>] = transactionStatus[<<q, j>>]
        BY <2>2, <3>1 DEF IInv, TypeOK, Tx!TypeOK
      <3> QED BY <1>1, <1>3, <2>1, <2>4, <3>2 DEF IInv, StatusAgrees
    <2> QED BY <2>3, <2>4
  <1> QED BY <1>5, <1>6, <1>7, <1>8 DEF IInv

(* An index update passes the next index and calls nothing. *)
LEMMA IndexUpdateInv ==
  ASSUME IInv, NEW p \in Pairs, NEW i \in Indices, InvokeIndexUpdate(p, i)
  PROVE  IInv'
  <1> USE DEF InvokeIndexUpdate, IsNextCallback, MarkCallbackCounter
  <1>1. TypeOK'
    BY DEF IInv, TypeOK, Indices, Tx!TypeOK
  <1>2. MessagesDense'
    BY DEF IInv, MessagesDense
  <1>3. ExactlyOnceInOrder'
    <2> SUFFICES ASSUME NEW q \in Pairs, NEW j \in Indices
                 PROVE  /\ called'[q][j] # <<>> => j <= outterMeta'[q]
                        /\ j \in skipped'[q] => j <= callbackMeta'[q]
                        /\ Len(called'[q][j]) =
                             IF j <= callbackMeta'[q] /\ j \notin skipped'[q] THEN 1 ELSE 0
      BY DEF ExactlyOnceInOrder
    <2>1. /\ called[q][j] # <<>> => j <= outterMeta[q]
          /\ j \in skipped[q] => j <= callbackMeta[q]
          /\ Len(called[q][j]) =
               IF j <= callbackMeta[q] /\ j \notin skipped[q] THEN 1 ELSE 0
      BY DEF IInv, ExactlyOnceInOrder
    <2>2. CASE q = p /\ j = i
      <3>1. ~(i <= callbackMeta[p])
        BY DEF IInv, TypeOK, Indices
      <3>2. i <= callbackMeta'[p] /\ i \in skipped'[p]
        BY DEF IInv, TypeOK, Indices
      <3> QED BY <2>1, <2>2, <3>1, <3>2
    <2>3. CASE ~(q = p /\ j = i)
      <3>1. (j \in skipped'[q]) <=> (j \in skipped[q])
        BY <2>3 DEF IInv, TypeOK
      <3>2. (j <= callbackMeta'[q]) <=> (j <= callbackMeta[q])
        BY <2>3 DEF IInv, TypeOK, Indices
      <3> QED BY <2>1, <3>1, <3>2
    <2> QED BY <2>2, <2>3
  <1>4. StatusAgrees'
    BY DEF IInv, StatusAgrees, Direct
  <1> QED BY <1>1, <1>2, <1>3, <1>4 DEF IInv

(* Every step keeps the invariant. *)
LEMMA NextInv == IInv /\ [Next]_vars => IInv'
  <1> SUFFICES ASSUME IInv, [Next]_vars PROVE IInv'
    OBVIOUS
  <1>1. CASE \E t \in Thresholds : Initialize(t)
    BY <1>1, InitializeInv
  <1>2. CASE \E p \in Pairs, e \in Events : EmitInterchainEvent(p, e)
    BY <1>2, EmitInv
  <1>3. CASE \E p \in Pairs, i \in Indices, typ \in Types, s \in TxStatuses :
               InvokeReceipt(p, i, typ, s)
    BY <1>3, ReceiptInv
  <1>4. CASE \E p \in Pairs, i \in Indices : InvokeIndexUpdate(p, i)
    BY <1>4, IndexUpdateInv
  <1>5. CASE UNCHANGED vars
    BY <1>5 DEF vars, IInv, TypeOK, Tx!TypeOK, MessagesDense, ExactlyOnceInOrder,
       StatusAgrees, Direct
  <1> QED BY <1>1, <1>2, <1>3, <1>4, <1>5 DEF Next

(* The inductive invariant holds in every reachable state. *)
THEOREM Invariance == Spec => []IInv
  BY InitInv, NextInv, PTL DEF Spec

(* Type correctness: counters stay within the messages, statuses are those *)
(* of the transaction chaincode.                                           *)
THEOREM TypeCorrect == Spec => []TypeOK
  BY Invariance, PTL DEF IInv

(* A pair's stored messages are exactly those it counted. *)
THEOREM Dense == Spec => []MessagesDense
  BY Invariance, PTL DEF IInv

(* No message is settled twice, none is passed over silently. *)
THEOREM SettledOnce == Spec => []ExactlyOnceInOrder
  BY Invariance, PTL DEF IInv

(* In direct mode the two chaincodes agree on every transaction. *)
THEOREM ChaincodesAgree == Spec => []StatusAgrees
  BY Invariance, PTL DEF IInv

-----------------------------------------------------------------------------

(* A step other than an initialize leaves every stored message as it is:   *)
(* an emission writes beyond the counter, where nothing was stored.        *)
THEOREM MessagesNeverChange == Spec => MessageImmutable
  <1> DEFINE A == \/ \E t \in Thresholds : Initialize(t)
                  \/ \A p \in Pairs, i \in Indices :
                       outMessages[p][i] # NoEvent
                         => outMessages'[p][i] = outMessages[p][i]
  <1>1. IInv /\ [Next]_vars => [A]_vars
    <2> SUFFICES ASSUME IInv, Next PROVE A
      OBVIOUS
    <2>1. CASE \E t \in Thresholds : Initialize(t)
      BY <2>1
    <2>2. ASSUME NEW p \in Pairs, NEW e \in Events, EmitInterchainEvent(p, e)
          PROVE  A
      <3>1. ~(outterMeta[p] + 1 <= outterMeta[p])
        BY DEF IInv, TypeOK
      <3>2. outterMeta[p] + 1 \in Indices
        BY <2>2 DEF EmitInterchainEvent, NextIndex, IInv, TypeOK, Indices
      <3>3. outMessages[p][outterMeta[p] + 1] = NoEvent
        BY <3>1, <3>2 DEF IInv, MessagesDense
      <3>4. outMessages' = [outMessages EXCEPT ![p][outterMeta[p] + 1] = e]
        BY <2>2 DEF EmitInterchainEvent, NextIndex
      <3> QED BY <3>2, <3>3, <3>4 DEF IInv, TypeOK
    <2>3. CASE outMessages' = outMessages
      BY <2>3
    <2> QED BY <2>1, <2>2, <2>3 DEF Next, InvokeReceipt, InvokeIndexUpdate
  <1>2. (Spec => []IInv) => (Spec => [][A]_vars)
    BY <1>1, PTL DEF Spec
  <1> QED BY <1>2, Invariance DEF MessageImmutable

(* An initialize is a reset of the settlement. *)
LEMMA InitializeResets ==
  ASSUME NEW t \in Thresholds, Initialize(t) PROVE Settlement!Reset
  BY DEF Initialize, InitMap, Settlement!Reset, Settlement!Messages, Fates, Fate,
     NoMessages, NoHistory, Indices

(* An emission appends the next message of its pair. *)
LEMMA EmitEmits ==
  ASSUME IInv, NEW p \in Pairs, NEW e \in Events, EmitInterchainEvent(p, e),
         NEW i, i = outterMeta[p] + 1
  PROVE  Settlement!Emit(<<p, i>>)
  <1> USE DEF Settlement!Messages
  <1>1. /\ i \in Indices /\ ~(i <= outterMeta[p])
        /\ \A j \in 1 .. i - 1 : j \in Indices /\ j <= outterMeta[p]
    BY DEF EmitInterchainEvent, NextIndex, IInv, TypeOK, Indices
  <1>2. /\ called' = called
        /\ outMessages' = [outMessages EXCEPT ![p][i] = e]
    BY DEF EmitInterchainEvent, NextIndex
  <1>3. called[p][i] = <<>> /\ outMessages[p][i] = NoEvent
    BY <1>1 DEF IInv, ExactlyOnceInOrder, MessagesDense
  <1>4. Fates[<<p, i>>] = "absent"
    BY <1>1, <1>3 DEF Fates, Fate
  <1>5. \A j \in 1 .. i - 1 : Fates[<<p, j>>] # "absent"
    BY <1>1 DEF Fates, Fate, IInv, MessagesDense
  <1>6. Fates' = [Fates EXCEPT ![<<p, i>>] = "pending"]
    <2>1. Fate(<<p, i>>)' = "pending"
      <3>1. outMessages'[p][i] = e /\ called'[p][i] = <<>>
        BY <1>1, <1>2, <1>3 DEF IInv, TypeOK
      <3>2. e # NoEvent
        OBVIOUS
      <3> QED BY <3>1, <3>2 DEF Fate
    <2>2. ASSUME NEW m \in Pairs \X Indices, m # <<p, i>>
          PROVE  Fate(m)' = Fate(m)
      <3>1. m[1] \in Pairs /\ m[2] \in Indices /\ ~(m[1] = p /\ m[2] = i)
        BY <2>2
      <3>2. outMessages'[m[1]][m[2]] = outMessages[m[1]][m[2]]
        BY <1>2, <3>1 DEF IInv, TypeOK
      <3> QED BY <1>2, <3>2 DEF Fate
    <2> QED BY <1>1, <2>1, <2>2 DEF Fates
  <1> QED BY <1>4, <1>5, <1>6 DEF Settlement!Emit

(* A receipt settles its message: pending, and no later one settled. *)
LEMMA ReceiptSettles ==
  ASSUME IInv, NEW p \in Pairs, NEW i \in Indices, NEW typ \in Types,
         NEW txStatus \in TxStatuses, InvokeReceipt(p, i, typ, txStatus)
  PROVE  \E outcome \in Settlement!Settled : Settlement!Settle(<<p, i>>, outcome)
  <1> DEFINE f       == IF IsRollback(typ, txStatus) THEN "rollback" ELSE "callback"
             outcome == IF f = "callback" THEN "committed" ELSE "refunded"
  <1>1. /\ i = callbackMeta[p] + 1
        /\ outMessages[p][i] # NoEvent
        /\ called' = [called EXCEPT ![p][i] = Append(@, f)]
        /\ outMessages' = outMessages
    BY DEF InvokeReceipt, IsNextCallback
  <1>2. \A j \in i .. MaxIndex : j \in Indices /\ ~(j <= callbackMeta[p])
    BY <1>1 DEF IInv, TypeOK, Indices
  <1>3. \A j \in i .. MaxIndex : called[p][j] = <<>>
    <2>1. \A j \in i .. MaxIndex : Len(called[p][j]) = 0
      BY <1>2 DEF IInv, ExactlyOnceInOrder
    <2> QED BY <1>2, <2>1 DEF IInv, TypeOK
  <1>4. called[p][i] = <<>> /\ i \in i .. MaxIndex
    BY <1>3 DEF Indices
  <1>5. Fates[<<p, i>>] = "pending"
    BY <1>1, <1>4 DEF Fates, Fate
  <1>6. \A j \in i .. MaxIndex : Fates[<<p, j>>] \notin Settlement!Settled
    BY <1>2, <1>3 DEF Fates, Fate, Settlement!Settled
  <1>7. Fates' = [Fates EXCEPT ![<<p, i>>] = outcome]
    <2>1. called'[p][i] = <<f>>
      BY <1>1, <1>4 DEF IInv, TypeOK
    <2>2. <<f>> # <<>> /\ Len(<<f>>) = 1 /\ <<f>>[1] = f
      OBVIOUS
    <2>3. Fate(<<p, i>>)' = outcome
      BY <2>1, <2>2 DEF Fate
    <2>4. ASSUME NEW m \in Pairs \X Indices, m # <<p, i>>
          PROVE  Fate(m)' = Fate(m)
      <3>1. m[1] \in Pairs /\ m[2] \in Indices /\ ~(m[1] = p /\ m[2] = i)
        BY <2>4
      <3>2. called'[m[1]][m[2]] = called[m[1]][m[2]]
        BY <1>1, <3>1 DEF IInv, TypeOK
      <3> QED BY <1>1, <3>2 DEF Fate
    <2> QED BY <2>3, <2>4 DEF Fates
  <1>8. outcome \in Settlement!Settled
    BY DEF Settlement!Settled
  <1> QED BY <1>5, <1>6, <1>7, <1>8 DEF Settlement!Settle

(* The broker implements Settlement: nothing it does can settle a message  *)
(* twice, out of order, or change a verdict.                               *)
THEOREM Refinement == Spec => ImplementsSettlement
  <1>1. Init => Settlement!Init
    BY DEF Init, Settlement!Init, Settlement!Messages, Fates, Fate, NoMessages,
       NoHistory, Indices
  <1>2. IInv /\ [Next]_vars => [Settlement!Next]_Fates
    <2> SUFFICES ASSUME IInv, [Next]_vars, ~(UNCHANGED Fates) PROVE Settlement!Next
      OBVIOUS
    <2>1. CASE \E t \in Thresholds : Initialize(t)
      BY <2>1, InitializeResets DEF Settlement!Next
    <2>2. ASSUME NEW p \in Pairs, NEW e \in Events, EmitInterchainEvent(p, e)
          PROVE  Settlement!Next
      <3>1. PICK i : i = outterMeta[p] + 1
        OBVIOUS
      <3>2. <<p, i>> \in Settlement!Messages
        BY <2>2, <3>1 DEF EmitInterchainEvent, NextIndex, IInv, TypeOK, Settlement!Messages
      <3> QED BY <2>2, <3>1, <3>2, EmitEmits DEF Settlement!Next
    <2>3. ASSUME NEW p \in Pairs, NEW i \in Indices, NEW typ \in Types,
                 NEW s \in TxStatuses, InvokeReceipt(p, i, typ, s)
          PROVE  Settlement!Next
      <3>1. <<p, i>> \in Settlement!Messages
        BY DEF Settlement!Messages, Indices
      <3> QED BY <2>3, <3>1, ReceiptSettles DEF Settlement!Next
    <2>4. CASE \E p \in Pairs, i \in Indices : InvokeIndexUpdate(p, i)
      BY <2>4 DEF InvokeIndexUpdate, Fates, Fate
    <2>5. CASE UNCHANGED vars
      BY <2>5 DEF vars, Fates, Fate
    <2> QED BY <2>1, <2>2, <2>3, <2>4, <2>5 DEF Next
  <1> QED BY <1>1, <1>2, Invariance, PTL DEF Spec, ImplementsSettlement, Settlement!Spec
=============================================================================
