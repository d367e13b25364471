----------------------------- MODULE BrokerOut -----------------------------
(***************************************************************************)
(* The broker chaincode as the SOURCE of interchain messages: it numbers   *)
(* and stores the messages local services emit, and on each receipt calls  *)
(* back (or rolls back) the emitting service exactly in index order.       *)
(*                                                                         *)
(* One action is one committed Fabric transaction.  A handler that fails   *)
(* returns shim.Error (or panics): nothing of it is committed, so only     *)
(* accepted calls are actions.  The transaction chaincode is composed in   *)
(* by INSTANCE: its part of a call commits or aborts with the broker's.    *)
(*                                                                         *)
(* Whether a service may emit (the whitelists of register and audit, the   *)
(* remote services of direct mode) is left to the environment: a service   *)
(* registers before it emits, again after each initialize.                 *)
(***************************************************************************)
EXTENDS Integers, Sequences

CONSTANTS
  Pairs,         \* service pairs <<source service, destination service>>
  BrokerPairs,   \* pairs whose source service is the broker chaincode itself
  Events,        \* contents of messages: call, callback and rollback functions
  NoEvent,       \* Go's zero Event, what an absent map entry reads as
  MaxIndex,      \* bound: messages per pair
  Thresholds     \* values of valThreshold an admin may initialize with

ASSUME BrokerPairsAssumption == BrokerPairs \subseteq Pairs
ASSUME NoEventAssumption     == NoEvent \notin Events
ASSUME MaxIndexAssumption    == MaxIndex \in Nat
ASSUME ThresholdsAssumption  == Thresholds \subseteq Int

VARIABLES
  valThreshold,       \* 0: direct mode; > 0: relay mode; < 0: unreadable
  outterMeta,         \* last index emitted, per pair
  callbackMeta,       \* last index whose receipt was processed, per pair
  outMessages,        \* the emitted messages, per pair and index
  transactionStatus,  \* the transaction chaincode's table
  called,             \* history: the functions called for each message
  skipped             \* history: indices passed by invokeIndexUpdate, per pair

vars == <<valThreshold, outterMeta, callbackMeta, outMessages,
          transactionStatus, called, skipped>>

Indices == 1 .. MaxIndex

Tx == INSTANCE Transaction WITH Ibtps <- Pairs \X Indices

(* IBTP types and hub transaction statuses as invokeReceipt reads them:    *)
(* uint64 arguments, of which only these values are told apart.            *)
Types      == 0 .. 5
TxStatuses == 0 .. 5

TypeOK ==
  /\ valThreshold \in Thresholds \union {1}
  /\ outterMeta \in [Pairs -> 0 .. MaxIndex]
  /\ callbackMeta \in [Pairs -> 0 .. MaxIndex]
  /\ outMessages \in [Pairs -> [Indices -> Events \union {NoEvent}]]
  /\ Tx!TypeOK
  /\ called \in [Pairs -> [Indices -> Seq({"callback", "rollback"})]]
  /\ skipped \in [Pairs -> SUBSET Indices]

-----------------------------------------------------------------------------

NoMessages == [p \in Pairs |-> [i \in Indices |-> NoEvent]]
NoHistory  == [p \in Pairs |-> [i \in Indices |-> <<>>]]
Zeros      == [p \in Pairs |-> 0]

Init ==
  /\ valThreshold = 1
  /\ outterMeta = Zeros
  /\ callbackMeta = Zeros
  /\ outMessages = NoMessages
  /\ Tx!Init
  /\ called = NoHistory
  /\ skipped = [p \in Pairs |-> {}]

(* Mutant of InitMap: the message table survives. *)
InitMapKeepsMessages ==
  /\ outterMeta' = Zeros
  /\ callbackMeta' = Zeros
  /\ UNCHANGED outMessages

(* initMap: every counter and every message table back to empty. *)
InitMap ==
  /\ outterMeta' = Zeros
  /\ callbackMeta' = Zeros
  /\ outMessages' = NoMessages

(* initialize, by the admin: any int64 is accepted as threshold.  Direct   *)
(* mode also empties the transaction table; the histories restart.         *)
Initialize(t) ==
  /\ valThreshold' = t
  /\ InitMap
  /\ IF t = 0 THEN Tx!Initialize ELSE UNCHANGED transactionStatus
  /\ called' = NoHistory
  /\ skipped' = [p \in Pairs |-> {}]

(* getValThreshold parses an unsigned number: a negative one is an error,  *)
(* and every handler that reads it refuses.                                *)
Readable == valThreshold >= 0
Direct   == valThreshold = 0

(* startTransaction accepts only a Fabric transaction whose proposal names *)
(* the broker chaincode: an emission on behalf of another contract carries *)
(* that contract's name, the one its source service id is made of.         *)
OpenTransaction(p, i) ==
  IF Direct
  THEN p \in BrokerPairs /\ Tx!StartTransaction(<<p, i>>)
  ELSE UNCHANGED transactionStatus

(* Mutant of NextIndex: the counter is not advanced once it is set. *)
NextIndexStuck(p) == IF outterMeta[p] = 0 THEN 1 ELSE outterMeta[p]

NextIndex(p) == outterMeta[p] + 1

EmitInterchainEvent(p, e) ==
  LET i == NextIndex(p) IN
  /\ Readable
  /\ i <= MaxIndex                                        \* bound
  /\ outterMeta' = [outterMeta EXCEPT ![p] = i]
  /\ outMessages' = [outMessages EXCEPT ![p][i] = e]
  /\ OpenTransaction(p, i)
  /\ UNCHANGED <<valThreshold, callbackMeta, called, skipped>>

(* What a receipt of type typ does to the transaction: direct mode only.   *)
CloseTransaction(p, i, typ) ==
  IF Direct
  THEN \/ typ = 1 /\ Tx!EndTransactionSuccess(<<p, i>>)
       \/ typ = 2 /\ Tx!EndTransactionFail(<<p, i>>)
       \/ typ = 3 /\ Tx!RollbackTransaction(<<p, i>>)
       \/ typ = 4 /\ Tx!EndTransactionRollback(<<p, i>>)
  ELSE UNCHANGED transactionStatus

(* Mutants of IsRollback: a receipt of a rolled back transaction, or a     *)
(* failure in relay mode, calls the callback.                              *)
IsRollbackOfFailureOnly(typ, txStatus) ==
  IF Direct THEN typ = 2 ELSE txStatus \notin {0, 3}
IsRollbackButFailure(typ, txStatus) ==
  IF Direct THEN typ \in {2, 3} ELSE txStatus \notin {0, 3, 4}

(* In relay mode the hub's verdict decides, not the receipt's type. *)
IsRollback(typ, txStatus) ==
  IF Direct THEN typ \in {2, 3} ELSE txStatus \notin {0, 3}

(* Mutants of IsNextCallback: any receipt, any later one, or the last one  *)
(* again.                                                                  *)
IsAnyCallback(p, i) == TRUE
IsLaterCallback(p, i) == i > callbackMeta[p]
IsNextOrLastCallback(p, i) == i >= callbackMeta[p]

(* checkIndex against the callback counter. *)
IsNextCallback(p, i) == i = callbackMeta[p] + 1

(* Mutant of MarkCallbackCounter: the index is added. *)
MarkCallbackCounterAdds(p, i) == callbackMeta' = [callbackMeta EXCEPT ![p] = @ + i]

MarkCallbackCounter(p, i) == callbackMeta' = [callbackMeta EXCEPT ![p] = i]

(* A message that is not stored reads as the zero Event, whose empty       *)
(* source id makes the handler panic.  The answer of the called function   *)
(* is not looked at.                                                       *)
InvokeReceipt(p, i, typ, txStatus) ==
  /\ Readable
  /\ CloseTransaction(p, i, typ)
  /\ IsNextCallback(p, i)
  /\ MarkCallbackCounter(p, i)
  /\ outMessages[p][i] # NoEvent
  /\ called' = [called EXCEPT ![p][i] =
                  Append(@, IF IsRollback(typ, txStatus)
                            THEN "rollback" ELSE "callback")]
  /\ UNCHANGED <<valThreshold, outterMeta, outMessages, skipped>>

(* invokeIndexUpdate with request type 1: the counter moves, no message is *)
(* looked up and nothing is called.                                        *)
InvokeIndexUpdate(p, i) ==
  /\ IsNextCallback(p, i)
  /\ MarkCallbackCounter(p, i)
  /\ skipped' = [skipped EXCEPT ![p] = @ \union {i}]
  /\ UNCHANGED <<valThreshold, outterMeta, outMessages, transactionStatus,
                 called>>

Next ==
  \/ \E t \in Thresholds : Initialize(t)
  \/ \E p \in Pairs, e \in Events : EmitInterchainEvent(p, e)
  \/ \E p \in Pairs, i \in Indices, typ \in Types, s \in TxStatuses :
       InvokeReceipt(p, i, typ, s)
  \/ \E p \in Pairs, i \in Indices : InvokeIndexUpdate(p, i)

Spec == Init /\ [][Next]_vars

-----------------------------------------------------------------------------

(* A pair's stored messages are exactly those numbered 1 .. outterMeta: a  *)
(* pier that polls up to the counter finds every message and no stale one  *)
(* of before an initialize.                                                *)
MessagesDense ==
  \A p \in Pairs, i \in Indices :
    (outMessages[p][i] # NoEvent) <=> (i <= outterMeta[p])

(* Exactly once, in index order: every index up to the callback counter    *)
(* had one function called, or was passed by invokeIndexUpdate and then    *)
(* none ever; beyond the counter nothing happened yet.  Only messages that *)
(* were emitted have a function to call.                                   *)
ExactlyOnceInOrder ==
  \A p \in Pairs, i \in Indices :
    /\ called[p][i] # <<>> => i <= outterMeta[p]
    /\ i \in skipped[p] => i <= callbackMeta[p]
    /\ Len(called[p][i]) =
         IF i <= callbackMeta[p] /\ i \notin skipped[p] THEN 1 ELSE 0

(* In direct mode the transaction table and the broker agree: a message    *)
(* has a transaction iff it was emitted; it succeeded iff the callback was *)
(* called; it failed or is rolling back iff the rollback was called.       *)
StatusAgrees ==
  Direct => \A p \in Pairs, i \in Indices :
    LET st == transactionStatus[<<p, i>>] IN
    /\ (st = Tx!Absent) <=> (outterMeta[p] < i)
    /\ (st = Tx!Success) <=> (called[p][i] = <<"callback">>)
    /\ (st \in {Tx!BeginRollback, Tx!Failure})
         <=> (called[p][i] = <<"rollback">>)

(* A stored message never changes until the admin initializes again: the   *)
(* functions a receipt calls are those its message was emitted with.       *)
MessageImmutable ==
  [][\/ \E t \in Thresholds : Initialize(t)
     \/ \A p \in Pairs, i \in Indices :
          outMessages[p][i] # NoEvent => outMessages'[p][i] = outMessages[p][i]
    ]_vars

-----------------------------------------------------------------------------

(* The settlement this module implements: the fate of each message, read   *)
(* off what was called for it.                                             *)
Fate(m) ==
  LET done == called[m[1]][m[2]] IN
  IF done # <<>>
  THEN IF done[Len(done)] = "callback" THEN "committed" ELSE "refunded"
  ELSE IF outMessages[m[1]][m[2]] = NoEvent THEN "absent" ELSE "pending"

Fates == [m \in Pairs \X Indices |-> Fate(m)]

Settlement == INSTANCE Settlement WITH fate <- Fates

(* Every behaviour of the broker is one of Settlement: messages are        *)
(* emitted without gaps and settled in order, once, for good.              *)
ImplementsSettlement == Settlement!Spec

-----------------------------------------------------------------------------

(* The services keep emitting and the pier keeps delivering receipts of    *)
(* type 4 (rollback finished): each is retried until it is accepted.       *)
EmittingSpec ==
  Spec /\ \A p \in Pairs : WF_vars(\E e \in Events : EmitInterchainEvent(p, e))

RollbackEndSpec ==
  Spec /\ \A p \in Pairs, i \in Indices :
            WF_vars(\E s \in TxStatuses : InvokeReceipt(p, i, 4, s))

(* What EmitInterchainEvent says of direct mode: an emission creates its   *)
(* transaction.  A broker that stays in direct mode and services that keep *)
(* emitting should see the first message of every pair get one.            *)
DirectEmissionRecorded ==
  \A p \in Pairs :
    <>[]Direct => <>(transactionStatus[<<p, 1>>] # Tx!Absent)

(* What invokeReceipt says of direct mode: it decides the transaction's    *)
(* result.  A transaction that began to roll back should reach Rollback,   *)
(* unless the admin initializes again.                                     *)
RollbackDecided ==
  \A p \in Pairs, i \in Indices :
    (Direct /\ transactionStatus[<<p, i>>] = Tx!BeginRollback)
      ~> (transactionStatus[<<p, i>>] # Tx!BeginRollback \/ ~Direct)
=============================================================================
