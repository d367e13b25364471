------------------------------- MODULE Relay -------------------------------
(***************************************************************************)
(* Relay mode between two chains: the broker of a source chain A and of a  *)
(* destination chain B, one service pair, and between them what the plugin *)
(* serves: piers that poll messages and receipts, submit them with retries *)
(* and duplicates, and a hub that keeps one status per cross-chain         *)
(* transaction.  A business chaincode on each chain is composed with it by *)
(* the modules that extend this one.                                       *)
(*                                                                         *)
(* Piers and hub are not in this repository: the plugin's interface        *)
(* (txStatus, IBTP types) is how the code uses them.  Their actions are    *)
(* marked external.                                                        *)
(***************************************************************************)
EXTENDS Integers, Sequences

CONSTANTS
  Events,           \* contents of messages
  NoEvent,          \* see BrokerOut
  Payloads,         \* what a called service may return
  NoPayload,        \* the payload of a response nobody filled in
  MaxIndex,         \* bound: messages
  FailuresInOrder   \* whether the hub gives up a pair's messages in order

ASSUME MaxIndexAssumption == MaxIndex \in Nat
ASSUME NoEventAssumption  == NoEvent \notin Events

VARIABLES
  outterMeta, callbackMeta, outMessages,      \* A's broker, as a source
  called,
  innerMeta, dstRollbackMeta,                 \* B's broker, as a destination
  receiptMessages, applied,
  payloads,     \* the payload in each of B's stored receipts
  hub,          \* the hub's status of each transaction
  answers,      \* the payload of the receipt a transaction succeeded with
  ibtps,        \* IBTPs fetched for B, with the status they were fetched at
  receipts      \* receipts polled from B: <<index, type, payload>>

varsSrc   == <<outterMeta, callbackMeta, outMessages, called>>
varsDst   == <<innerMeta, dstRollbackMeta, receiptMessages, applied, payloads>>
varsHub   == <<hub, answers, ibtps, receipts>>
varsRelay == <<varsSrc, varsDst, varsHub>>

Pair    == "A-B"
Indices == 1 .. MaxIndex

(* Relay mode throughout: the threshold is 1 and the transaction chaincode *)
(* is not used; no index is skipped by hand.                               *)
Src == INSTANCE BrokerOut WITH
         Pairs <- {Pair}, BrokerPairs <- {}, Thresholds <- {1},
         valThreshold <- 1, skipped <- [p \in {Pair} |-> {}],
         transactionStatus <- [t \in {Pair} \X Indices |-> 0]
Dst == INSTANCE BrokerIn WITH
         Pairs <- {Pair}, Thresholds <- {1}, RollbackWindow <- 1,
         valThreshold <- 1, skipped <- [p \in {Pair} |-> {}]

(* The statuses of a cross-chain transaction, as the code numbers them. *)
None          == -1
Begin         == 0
BeginFailure  == 1
BeginRollback == 2
Success       == 3
Failure       == 4
Rollback      == 5

Opened  == {Begin, BeginFailure, BeginRollback}
Decided == {BeginFailure, BeginRollback, Success, Failure, Rollback}

RelayTypeOK ==
  /\ Src!TypeOK /\ Dst!TypeOK
  /\ payloads \in [Indices -> Payloads \union {NoPayload}]
  /\ hub \in [Indices -> {None} \union Opened \union Decided]
  /\ answers \in [Indices -> Payloads \union {NoPayload}]
  /\ ibtps \subseteq Indices \X Opened
  /\ receipts \subseteq Indices \X (1 .. 4) \X (Payloads \union {NoPayload})

RelayInit ==
  /\ Src!Init /\ Dst!Init
  /\ payloads = [i \in Indices |-> NoPayload]
  /\ hub = [i \in Indices |-> None]
  /\ answers = [i \in Indices |-> NoPayload]
  /\ ibtps = {} /\ receipts = {}

-----------------------------------------------------------------------------

(* A business chaincode on A emits, in the Fabric transaction of its own   *)
(* step.                                                                   *)
Emit(e) ==
  /\ Src!EmitInterchainEvent(Pair, e)
  /\ UNCHANGED <<varsDst, varsHub>>

(* External: the hub takes a pair's messages in order; it may decide at    *)
(* once that one cannot be delivered, when FailuresInOrder only if no      *)
(* earlier one can still time out.                                         *)
HubAccept(i) ==
  /\ hub[i] = None /\ i <= outterMeta[Pair]
  /\ i > 1 => hub[i - 1] # None
  /\ \/ hub' = [hub EXCEPT ![i] = Begin]
     \/ /\ FailuresInOrder => \A j \in 1 .. i - 1 : hub[j] # Begin
        /\ hub' = [hub EXCEPT ![i] = BeginFailure]
  /\ UNCHANGED <<varsSrc, varsDst, answers, ibtps, receipts>>

(* External: a time-out.  All messages of a pair have the same time-out    *)
(* height, so they expire in order.                                        *)
HubTimeout(i) ==
  /\ hub[i] = Begin
  /\ \A j \in 1 .. i - 1 : hub[j] # Begin
  /\ hub' = [hub EXCEPT ![i] = BeginRollback]
  /\ UNCHANGED <<varsSrc, varsDst, answers, ibtps, receipts>>

(* External: B's pier fetches a message with its status of the moment.     *)
(* What is fetched is handed in later, perhaps repeatedly.                 *)
Fetch(i) ==
  /\ hub[i] \in Opened
  /\ ibtps' = ibtps \union {<<i, hub[i]>>}
  /\ UNCHANGED <<varsSrc, varsDst, hub, answers, receipts>>

(* The plugin submits a fetched message to B's broker, which calls the     *)
(* business chaincode on B in the same Fabric transaction: ok and payload  *)
(* are its answer, if it is called.  A pair's rollbacks are handed in in   *)
(* order.                                                                  *)
Deliver(i, st, ok, payload) ==
  /\ <<i, st>> \in ibtps
  /\ st # Begin => \A j \in 1 .. i - 1 :
                     hub[j] \in {BeginFailure, BeginRollback} => j <= dstRollbackMeta[Pair]
  /\ Dst!InvokeInterchain(Pair, i, st, ok)
  /\ payloads' = [payloads EXCEPT ![i] =
                    IF Dst!CallMade(Pair, i, st) THEN payload ELSE NoPayload]
  /\ UNCHANGED <<varsSrc, varsHub>>

(* The IBTP made of the receipt B stores now: its type and its payload. *)
generateReceipt(i) == <<i, receiptMessages[Pair][i], payloads[i]>>

(* The plugin reads a receipt from B: its polling does, SubmitIBTP returns *)
(* the one it finds, and a pier may ask again.                             *)
PollReceipt(i) ==
  /\ i <= innerMeta[Pair]
  /\ receipts' = receipts \union {generateReceipt(i)}
  /\ UNCHANGED <<varsSrc, varsDst, hub, answers, ibtps>>

(* External: a receipt decides an open transaction if it fits its status;  *)
(* a receipt that comes too late, or again, is refused.                    *)
HubReceipt(i, typ) ==
  \E payload \in Payloads \union {NoPayload}, new \in Decided :
    /\ <<i, typ, payload>> \in receipts
    /\ <<hub[i], typ, new>> \in {<<Begin, 1, Success>>, <<Begin, 2, Failure>>,
                                 <<BeginFailure, 2, Failure>>,
                                 <<BeginRollback, 3, Rollback>>}
    /\ hub' = [hub EXCEPT ![i] = new]
    /\ answers' = [answers EXCEPT ![i] = IF new = Success THEN payload ELSE @]
    /\ UNCHANGED <<varsSrc, varsDst, ibtps, receipts>>

(* Verdicts that rest on a receipt of B, and those the hub gives alone.    *)
Receipted == {Success, Failure, Rollback}

(* External: how many statuses the result of a verdict carries.  A receipt *)
(* of B carries one; a pier may hand in the others with none.              *)
Statuses(verdict) == IF verdict \in Receipted THEN {1} ELSE {0, 1}

(* SubmitReceipt refuses several statuses, and none but for an open        *)
(* transaction.                                                            *)
Submittable(verdict, n) == n = 1 \/ (n = 0 /\ verdict = Begin)

(* The plugin submits the hub's verdict to A's broker, which calls the     *)
(* callback with the answer, or the rollback function.                     *)
Settle(i) ==
  /\ hub[i] \in Decided
  /\ \E n \in Statuses(hub[i]) : Submittable(hub[i], n)
  /\ \E typ \in Src!Types : Src!InvokeReceipt(Pair, i, typ, hub[i])
  /\ UNCHANGED <<varsDst, varsHub>>

CallsRollback(i) == Src!IsRollback(0, hub[i])

(* The steps that touch no business chaincode. *)
Transport ==
  \/ \E i \in Indices : HubAccept(i) \/ HubTimeout(i) \/ Fetch(i) \/ PollReceipt(i)
  \/ \E i \in Indices, typ \in 1 .. 4 : HubReceipt(i, typ)

(* The hub keeps working and the piers keep asking; nothing has to time    *)
(* out.                                                                    *)
TransportFairness ==
  \A i \in Indices :
    /\ WF_varsRelay(HubAccept(i))
    /\ WF_varsRelay(Fetch(i))
    /\ WF_varsRelay(PollReceipt(i))
    /\ \A typ \in 1 .. 4 : WF_varsRelay(HubReceipt(i, typ))
=============================================================================
