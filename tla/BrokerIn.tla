------------------------------ MODULE BrokerIn ------------------------------
(***************************************************************************)
(* The broker chaincode as the DESTINATION of interchain messages: it runs *)
(* each message's function in index order, reverses or cancels messages    *)
(* whose cross-chain transaction was given up, and stores a receipt.       *)
(*                                                                         *)
(* One action is one committed Fabric transaction.  A handler that fails   *)
(* returns shim.Error: nothing of it is committed, so only accepted calls  *)
(* are actions.  The called service is outside: ok says whether it         *)
(* answered with success.  A service that fails is taken to write nothing. *)
(* Whether a service may be called (checkService, on the whitelists of     *)
(* register and audit) is left to the environment.                         *)
(***************************************************************************)
EXTENDS Integers, Sequences

CONSTANTS
  Pairs,           \* service pairs <<source service, destination service>>
  MaxIndex,        \* bound: messages per pair
  Thresholds,      \* values of valThreshold an admin may initialize with
  RollbackWindow   \* how far beyond the last message taken a pier hands in a
                   \* rollback: 1 when it keeps a pair's messages in order

ASSUME MaxIndexAssumption       == MaxIndex \in Nat
ASSUME ThresholdsAssumption     == Thresholds \subseteq Int
ASSUME RollbackWindowAssumption == RollbackWindow \in Nat

VARIABLES
  valThreshold,      \* 0: direct mode; > 0: relay mode; < 0: unreadable
  innerMeta,         \* last index taken, per pair
  dstRollbackMeta,   \* last index rolled back, per pair
  receiptMessages,   \* type of the stored receipt, 0 when there is none
  applied,           \* history: the calls made for each message, and their answers
  skipped            \* history: indices taken by invokeIndexUpdate, per pair

vars == <<valThreshold, innerMeta, dstRollbackMeta, receiptMessages, applied,
          skipped>>

Indices    == 1 .. MaxIndex
TxStatuses == 0 .. 2              \* BEGIN, BEGIN_FAILURE, and any later status
Executions == {"ok", "fail"}
Reversals  == {"undone", "undofail"}

TypeOK ==
  /\ valThreshold \in Thresholds \union {1}
  /\ innerMeta \in [Pairs -> 0 .. MaxIndex]
  /\ dstRollbackMeta \in [Pairs -> 0 .. MaxIndex]
  /\ receiptMessages \in [Pairs -> [Indices -> 0 .. 4]]
  /\ applied \in [Pairs -> [Indices -> Seq(Executions \union Reversals)]]
  /\ skipped \in [Pairs -> SUBSET Indices]

-----------------------------------------------------------------------------

Zeros      == [p \in Pairs |-> 0]
NoReceipts == [p \in Pairs |-> [i \in Indices |-> 0]]
NoHistory  == [p \in Pairs |-> [i \in Indices |-> <<>>]]

Init ==
  /\ valThreshold = 1
  /\ innerMeta = Zeros
  /\ dstRollbackMeta = Zeros
  /\ receiptMessages = NoReceipts
  /\ applied = NoHistory
  /\ skipped = [p \in Pairs |-> {}]

(* Mutant of InitMap: the receipts survive. *)
InitMapKeepsReceipts ==
  /\ innerMeta' = Zeros
  /\ dstRollbackMeta' = Zeros
  /\ UNCHANGED receiptMessages

(* initMap: every counter and the receipts back to empty. *)
InitMap ==
  /\ innerMeta' = Zeros
  /\ dstRollbackMeta' = Zeros
  /\ receiptMessages' = NoReceipts

(* initialize, by the admin; the histories restart with the maps. *)
Initialize(t) ==
  /\ valThreshold' = t
  /\ InitMap
  /\ applied' = NoHistory
  /\ skipped' = [p \in Pairs |-> {}]

Readable == valThreshold >= 0
Direct   == valThreshold = 0

(* Mutant of IsNextIn: the last message again. *)
IsLastOrNextIn(p, i) == i \in {innerMeta[p], innerMeta[p] + 1}

(* checkIndex against the inner counter. *)
IsNextIn(p, i) == i = innerMeta[p] + 1

MarkInCounter(p) == innerMeta' = [innerMeta EXCEPT ![p] = @ + 1]

(* updateIndex with request type 0: the next message of the pair. *)
UpdateIndexRequest(p, i) ==
  /\ IsNextIn(p, i)
  /\ MarkInCounter(p)
  /\ UNCHANGED dstRollbackMeta

(* Mutants of IsLaterRollback: the last rollback, or any one, again. *)
IsLastOrLaterRollback(p, i) == i >= dstRollbackMeta[p]
IsAnyRollback(p, i) == TRUE

(* A rollback may jump over indices that were never rolled back. *)
IsLaterRollback(p, i) == i >= dstRollbackMeta[p] + 1

(* Mutants of UpdateIndexRollback: the index is added to the counter, or   *)
(* an early rollback does not take the message's place.                    *)
UpdateIndexRollbackAdds(p, i) ==
  /\ IsLaterRollback(p, i)
  /\ dstRollbackMeta' = [dstRollbackMeta EXCEPT ![p] = @ + i]
  /\ IF IsNextIn(p, i) THEN MarkInCounter(p) ELSE UNCHANGED innerMeta

UpdateIndexRollbackOnly(p, i) ==
  /\ IsLaterRollback(p, i)
  /\ dstRollbackMeta' = [dstRollbackMeta EXCEPT ![p] = i]
  /\ UNCHANGED innerMeta

(* updateIndex with request type 2: a rollback.  One that arrives before   *)
(* its message takes the message's place.                                  *)
UpdateIndexRollback(p, i) ==
  /\ IsLaterRollback(p, i)
  /\ dstRollbackMeta' = [dstRollbackMeta EXCEPT ![p] = i]
  /\ IF IsNextIn(p, i) THEN MarkInCounter(p) ELSE UNCHANGED innerMeta

(* Mutants of CallMade: the message about to be taken is reversed too, or  *)
(* the last one taken is not.                                              *)
CallMadeTooEarly(p, i, txStatus) == txStatus = 0 \/ innerMeta[p] + 1 >= i
CallMadeTooLate(p, i, txStatus) == txStatus = 0 \/ innerMeta[p] > i

(* A rollback calls the service only for a message already taken. *)
CallMade(p, i, txStatus) == txStatus = 0 \/ innerMeta[p] >= i

(* Mutant of Answer: a reversal that fails passes for one that was done. *)
AnswerBlind(txStatus, ok) ==
  IF txStatus # 0 THEN "undone" ELSE IF ok THEN "ok" ELSE "fail"

Answer(txStatus, ok) ==
  IF txStatus = 0 THEN IF ok THEN "ok" ELSE "fail"
                  ELSE IF ok THEN "undone" ELSE "undofail"

(* Mutant of ReceiptType: the answer of the service is not looked at. *)
ReceiptTypeBlind(txStatus, ok) ==
  IF txStatus = 0 THEN 1
  ELSE IF Direct THEN 4
  ELSE IF txStatus = 1 THEN 2 ELSE 3

ReceiptType(txStatus, ok) ==
  IF txStatus = 0 THEN IF ok THEN 1 ELSE 2
  ELSE IF Direct THEN 4
  ELSE IF txStatus = 1 THEN 2 ELSE 3

(* The environment: how far ahead a pier hands in a rollback. *)
InWindow(p, i) == i <= innerMeta[p] + RollbackWindow

InvokeInterchain(p, i, txStatus, ok) ==
  /\ Readable
  /\ applied' = IF CallMade(p, i, txStatus)
                THEN [applied EXCEPT ![p][i] = Append(@, Answer(txStatus, ok))]
                ELSE applied
  /\ IF txStatus = 0 THEN UpdateIndexRequest(p, i)
                     ELSE InWindow(p, i) /\ UpdateIndexRollback(p, i)
  /\ receiptMessages' = [receiptMessages EXCEPT ![p][i] = ReceiptType(txStatus, ok)]
  /\ UNCHANGED <<valThreshold, skipped>>

(* invokeIndexUpdate: the counters move, nothing is called, no receipt. *)
InvokeIndexUpdate(p, i, reqType) ==
  /\ \/ reqType = 0 /\ UpdateIndexRequest(p, i)
     \/ reqType = 2 /\ InWindow(p, i) /\ UpdateIndexRollback(p, i)
  /\ skipped' = [skipped EXCEPT ![p] = IF IsNextIn(p, i) THEN @ \union {i} ELSE @]
  /\ UNCHANGED <<valThreshold, receiptMessages, applied>>

Next ==
  \/ \E t \in Thresholds : Initialize(t)
  \/ \E p \in Pairs, i \in Indices, s \in TxStatuses, ok \in BOOLEAN :
       InvokeInterchain(p, i, s, ok)
  \/ \E p \in Pairs, i \in Indices, r \in {0, 2} : InvokeIndexUpdate(p, i, r)

Spec == Init /\ [][Next]_vars

-----------------------------------------------------------------------------

(* The rollback counter never overtakes the messages taken, so a message   *)
(* below it can never be run for the first time.  This is what needs       *)
(* RollbackWindow <= 1.                                                    *)
RollbackBehind == \A p \in Pairs : dstRollbackMeta[p] <= innerMeta[p]

(* The calls made for a message: its function at most once, its reversal   *)
(* at most once and only after it (or after the admin skipped it), nothing *)
(* for a message not taken yet; one taken without a call was skipped or    *)
(* cancelled.                                                              *)
PairedAt(p, i) ==
  LET a == applied[p][i] IN
  /\ i \in skipped[p] => i <= innerMeta[p]
  /\ a # <<>> => i <= innerMeta[p]
  /\ i <= innerMeta[p] /\ a = <<>> /\ i \notin skipped[p] => i <= dstRollbackMeta[p]
  /\ \A k \in 1 .. Len(a) :
       \/ a[k] \in Executions /\ k = 1 /\ i \notin skipped[p]
       \/ /\ a[k] \in Reversals
          /\ k = (IF i \in skipped[p] THEN 1 ELSE 2)
          /\ i <= dstRollbackMeta[p]

CallsPaired == \A p \in Pairs, i \in Indices : PairedAt(p, i)

(* Every message taken has a receipt to poll, unless the admin skipped it; *)
(* a message not taken and not rolled back has none.                       *)
ReceiptForEach ==
  \A p \in Pairs, i \in Indices :
    i \notin skipped[p] => (receiptMessages[p][i] # 0 <=> i <= innerMeta[p])

(* A receipt says success exactly when the service's function succeeded    *)
(* and was not reversed: the source chain commits on nothing else.         *)
ReceiptTruth ==
  \A p \in Pairs, i \in Indices :
    receiptMessages[p][i] = 1 <=> applied[p][i] = <<"ok">>

(* A message at or below the rollback counter is closed: no late request,  *)
(* retry or second rollback runs its functions or changes its receipt.     *)
RollbackFinal ==
  [][\/ \E t \in Thresholds : Initialize(t)
     \/ \A p \in Pairs, i \in Indices : i <= dstRollbackMeta[p] =>
          /\ applied'[p][i] = applied[p][i]
          /\ receiptMessages'[p][i] = receiptMessages[p][i]
    ]_vars

-----------------------------------------------------------------------------

(* The delivery this module implements, read off the calls made. *)
StateOf(m) ==
  LET p == m[1]  i == m[2]  a == applied[p][i] IN
  IF innerMeta[p] < i THEN "unseen"
  ELSE IF a = <<"ok">> THEN "succeeded"
  ELSE IF a = <<"fail">> THEN "failed"
  ELSE IF a # <<>> THEN "reversed"
  ELSE IF i \in skipped[p] THEN "skipped" ELSE "cancelled"

States == [m \in Pairs \X Indices |-> StateOf(m)]

Delivery == INSTANCE Delivery WITH state <- States

(* Every behaviour of the broker is one of Delivery: messages are taken in *)
(* order, once, and what was cancelled or reversed stays so.               *)
ImplementsDelivery == Delivery!Spec
=============================================================================
