------------------------------ MODULE Transfer ------------------------------
(***************************************************************************)
(* The transfer chaincode: a ledger of uint64 balances.  An account that   *)
(* was never set reads as an empty string, which does not parse: a call    *)
(* that needs it fails and writes nothing.  Reads see the committed state, *)
(* never the writes of the same Fabric transaction.                        *)
(***************************************************************************)
EXTENDS Integers

CONSTANTS
  Accounts,    \* account names
  Missing,     \* what an account that was never set reads as
  Word         \* balances are numbers modulo Word (2^64 in the code)

VARIABLE balance    \* the ledger

Values == 0 .. Word - 1
TypeOK == balance \in [Accounts -> Values \union {Missing}]

Exists(a) == balance[a] # Missing

(* setBalance: whoever calls, whatever the text; one that is no number is  *)
(* an account that cannot be read again.                                   *)
SetBalance(a, v) == balance' = [balance EXCEPT ![a] = v]

(* transfer with 3 arguments.  Both balances are read before either write  *)
(* takes effect, and the receiver's is written last.                       *)
LocalTransfer(s, r, x) ==
  /\ Exists(s) /\ Exists(r)
  /\ balance[s] >= x
  /\ balance' = [balance EXCEPT ![s] = balance[s] - x,
                                ![r] = (balance[r] + x) % Word]

(* transfer with 4 arguments: the debit, before the broker is asked to     *)
(* emit; the two commit or abort together.                                 *)
TransferOut(s, x) ==
  /\ Exists(s)
  /\ balance[s] >= x
  /\ balance' = [balance EXCEPT ![s] = @ - x]

(* Mutant of InterchainCharge: a rollback credits again. *)
InterchainChargeTwice(r, x, isRollback) ==
  /\ Exists(r)
  /\ balance' = [balance EXCEPT ![r] = (@ + x) % Word]

(* interchainCharge: credits, or on a rollback takes the credit back       *)
(* without looking whether it is still there.                              *)
InterchainCharge(r, x, isRollback) ==
  /\ Exists(r)
  /\ balance' = [balance EXCEPT ![r] = (IF isRollback THEN @ - x ELSE @ + x) % Word]

(* interchainRollback: the refund on the source chain. *)
InterchainRollback(a, x) ==
  /\ Exists(a)
  /\ balance' = [balance EXCEPT ![a] = (@ + x) % Word]
=============================================================================
