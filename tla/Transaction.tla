---------------------------- MODULE Transaction ----------------------------
(***************************************************************************)
(* The transaction chaincode's status table: one status per IBTP id, moved *)
(* only by the broker, in direct (hub-less) mode.                          *)
(*                                                                         *)
(* transactionStatus is a Go map persisted as JSON: an id that was never   *)
(* written reads as 0.  The start timestamp stored next to a status is     *)
(* read only by the pier that decides time-outs and guards nothing here,   *)
(* so it is left out.  A handler that refuses returns shim.Error and its   *)
(* Fabric transaction commits nothing: only accepted calls are actions.    *)
(***************************************************************************)
EXTENDS Naturals

CONSTANT Ibtps                \* IBTP ids: <<service pair, index>>

VARIABLE transactionStatus    \* Ibtps -> 0..5, the status of each id

Absent        == 0
Begin         == 1
BeginRollback == 2
Success       == 3
Failure       == 4
Rollback      == 5

Statuses == Absent .. Rollback

TypeOK == transactionStatus \in [Ibtps -> Statuses]

Init == transactionStatus = [t \in Ibtps |-> Absent]

Move(t, from, to) ==
  /\ transactionStatus[t] = from
  /\ transactionStatus' = [transactionStatus EXCEPT ![t] = to]

StartTransaction(t)       == Move(t, Absent, Begin)
RollbackTransaction(t)    == Move(t, Begin, BeginRollback)
EndTransactionSuccess(t)  == Move(t, Begin, Success)
EndTransactionFail(t)     == Move(t, Begin, Failure)
EndTransactionRollback(t) == Move(t, BeginRollback, Rollback)

(* initialize: a fresh, empty table. *)
Initialize == transactionStatus' = [t \in Ibtps |-> Absent]
=============================================================================
