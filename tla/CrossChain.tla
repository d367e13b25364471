----------------------------- MODULE CrossChain -----------------------------
(***************************************************************************)
(* Interchain transfers end to end, in relay mode: the transfer chaincode  *)
(* on a source chain A and on a destination chain B, on the brokers, the   *)
(* plugin's submissions and the hub of Relay.  Meanwhile accounts are used *)
(* on B, and balances are set: setBalance has no guard.                    *)
(***************************************************************************)
EXTENDS Relay, FiniteSets, FiniteSetsExt

CONSTANTS
  Sender,       \* the account on A transfers are paid from
  Receivers,    \* accounts on B that exist at the start
  Absentees,    \* accounts on B that do not exist
  Shop,         \* the account on B receivers spend at
  Amounts,      \* amounts of transfers
  Funds,        \* what Sender owns at the start
  Settings,     \* what setBalance is called with: balances, or Missing for a
                \* text that is no number
  MaxIssues,    \* bound: steps that make or destroy money
  Missing,      \* see Transfer
  Word          \* see Transfer

ASSUME WordAssumption     == Word \in Nat \ {0}
ASSUME MissingAssumption  == Missing \notin 0 .. Word - 1
ASSUME SettingsAssumption == Settings \subseteq (0 .. Word - 1) \union {Missing}
ASSUME EventsAssumption   ==
  Events = [amount : Amounts, receiver : Receivers \union Absentees]
ASSUME PayloadsAssumption == Payloads = {}
ASSUME AmountsAssumption  == Amounts \subseteq 0 .. Word - 1
ASSUME FundsAssumption    == Funds \in 0 .. Word - 1
ASSUME IssuesAssumption   == MaxIssues \in Nat
ASSUME AccountsAssumption ==
  IsFiniteSet(Receivers \union Absentees) /\ Shop \notin Receivers

VARIABLES
  balanceA, balanceB,   \* the ledgers of the two chains
  issues,       \* history: steps that made or destroyed money
  issued,       \* history: what they made, modulo Word
  touched,      \* history: accounts setBalance was called for
  refunded      \* history: transfers whose refund was paid

ledgers == <<balanceA, balanceB>>
history == <<issues, issued, touched, refunded>>
vars    == <<varsRelay, ledgers, history>>

AccountsB == Receivers \union Absentees \union {Shop}

LedgerA == INSTANCE Transfer WITH Accounts <- {Sender}, balance <- balanceA
LedgerB == INSTANCE Transfer WITH
             Accounts <- Receivers \union Absentees \union {Shop},
             balance <- balanceB

TypeOK ==
  /\ RelayTypeOK
  /\ LedgerA!TypeOK /\ LedgerB!TypeOK
  /\ issues \in 0 .. MaxIssues /\ issued \in 0 .. Word - 1
  /\ touched \subseteq {Sender} \union AccountsB /\ refunded \subseteq Indices

Init ==
  /\ RelayInit
  /\ balanceA = [a \in {Sender} |-> Funds]
  /\ balanceB = [a \in AccountsB |-> IF a \in Absentees THEN Missing ELSE 0]
  /\ issues = 0 /\ issued = 0 /\ touched = {} /\ refunded = {}

-----------------------------------------------------------------------------

(* A user calls transfer on A: the debit and the emission are one Fabric   *)
(* transaction.                                                            *)
TransferAtoB(e) ==
  /\ LedgerA!TransferOut(Sender, e.amount)
  /\ Emit(e)
  /\ UNCHANGED <<balanceB, history>>

(* B's broker calls interchainCharge: it succeeds if the account exists.   *)
SubmitIBTP(i, st) ==
  LET e == outMessages[Pair][i]
      ok == LedgerB!Exists(e.receiver)
  IN
  /\ Deliver(i, st, ok, NoPayload)
  /\ IF Dst!CallMade(Pair, i, st) /\ ok
     THEN LedgerB!InterchainCharge(e.receiver, e.amount, st # Begin)
     ELSE UNCHANGED balanceB
  /\ UNCHANGED <<balanceA, history>>

(* A's broker calls interchainRollback on a rollback; there is no callback *)
(* function.  A refund that fails is not told from one that was paid.      *)
SubmitReceipt(i) ==
  /\ Settle(i)
  /\ IF CallsRollback(i) /\ LedgerA!Exists(Sender)
     THEN /\ LedgerA!InterchainRollback(Sender, outMessages[Pair][i].amount)
          /\ refunded' = refunded \union {i}
     ELSE UNCHANGED <<balanceA, refunded>>
  /\ UNCHANGED <<balanceB, issues, issued, touched>>

Amount(v) == IF v = Missing THEN 0 ELSE v

Issue(x) ==
  /\ issues < MaxIssues                                     \* bound
  /\ issues' = issues + 1
  /\ issued' = (issued + x) % Word

(* A receiver spends on B what it was credited. *)
Spend(r, x) ==
  /\ LedgerB!LocalTransfer(r, Shop, x)
  /\ UNCHANGED <<varsRelay, balanceA, history>>

(* A receiver transfers to itself. *)
TransferToSelf(r, x) ==
  /\ LedgerB!LocalTransfer(r, r, x)
  /\ Issue(x)
  /\ UNCHANGED <<varsRelay, balanceA, touched, refunded>>

(* Anybody sets a balance on either chain. *)
SetBalance(a, v) ==
  /\ touched' = touched \union {a}
  /\ \/ /\ a = Sender
        /\ LedgerA!SetBalance(a, v)
        /\ Issue(Amount(v) - Amount(balanceA[a]))
        /\ UNCHANGED balanceB
     \/ /\ a \in AccountsB
        /\ LedgerB!SetBalance(a, v)
        /\ Issue(Amount(v) - Amount(balanceB[a]))
        /\ UNCHANGED balanceA
  /\ UNCHANGED <<varsRelay, refunded>>

Next ==
  \/ \E e \in Events : TransferAtoB(e)
  \/ \E i \in Indices, st \in Opened : SubmitIBTP(i, st)
  \/ \E i \in Indices : SubmitReceipt(i)
  \/ \E r \in Receivers, x \in Amounts : Spend(r, x) \/ TransferToSelf(r, x)
  \/ \E a \in {Sender} \union AccountsB, v \in Settings : SetBalance(a, v)
  \/ Transport /\ UNCHANGED <<ledgers, history>>

(* Piers keep retrying what they have, but a verdict without a receipt of  *)
(* B may never get past SubmitReceipt; nobody has to transfer, to spend or *)
(* to set a balance.                                                       *)
Fairness ==
  /\ TransportFairness
  /\ \A i \in Indices :
       /\ \A st \in Opened : WF_vars(SubmitIBTP(i, st))
       /\ WF_vars(hub[i] \in Receipted /\ SubmitReceipt(i))

Spec == Init /\ [][Next]_vars /\ Fairness

-----------------------------------------------------------------------------

Credits(i) ==
  LET a == applied[Pair][i] IN
  Cardinality({k \in DOMAIN a : a[k] = "ok"}) -
    Cardinality({k \in DOMAIN a : a[k] = "undone"})

Refunds(i) == IF i \in refunded THEN 1 ELSE 0

Total(bal) == SumFunction([a \in DOMAIN bal |-> Amount(bal[a])])

Way(i) == outMessages[Pair][i].amount * (1 - Credits(i) - Refunds(i))

OnTheWay == SumFunction([i \in 1 .. outterMeta[Pair] |-> Way(i)])

(* If A told the sender that its transfer went through, B credited the     *)
(* receiver, and will not take it back.                                    *)
CommitMeansCredited ==
  \A i \in Indices :
    called[Pair][i] = <<"callback">> => applied[Pair][i] = <<"ok">>

(* The money on both chains and on its way between them is what there was  *)
(* at the start and what was issued since (balances that were set, and the *)
(* amounts of transfers to oneself), modulo the word size.  A transfer is  *)
(* on its way until it is credited or refunded, counts twice while it is   *)
(* both, and stays on its way for ever when a refund fails.                *)
Conservation ==
  (Total(balanceA) + Total(balanceB) + OnTheWay) % Word = (Funds + issued) % Word

(* A transfer that A rolled back was refunded, and B does not keep its      *)
(* credit: it has none, or the hub asks for a rollback that B has yet to    *)
(* take and will.  Only a setBalance on the sender's or on the receiver's   *)
(* account can spoil it: the refund, or the reversal, finds no balance.     *)
RefundReversible ==
  \A i \in Indices : called[Pair][i] = <<"rollback">> =>
    /\ i \in refunded \/ Sender \in touched
    /\ Credits(i) = 1 =>
         \/ hub[i] = BeginRollback /\ i > dstRollbackMeta[Pair]
         \/ /\ applied[Pair][i] = <<"ok", "undofail">>
            /\ outMessages[Pair][i].receiver \in touched

(* B takes from a receiver what it never credited (the charge found no      *)
(* account, its reversal found one) only if somebody set the balance of    *)
(* that account: no transfer, spending or reversal brings an account into  *)
(* being between the two.                                                  *)
DebitExcused ==
  \A i \in Indices : Credits(i) = -1 => outMessages[Pair][i].receiver \in touched

(* The outcome both chains agree on: credited, or refunded and not         *)
(* credited.                                                               *)
Atomic(i) ==
  \/ called[Pair][i] = <<"callback">> /\ Credits(i) = 1
  \/ called[Pair][i] = <<"rollback">> /\ Credits(i) = 0 /\ i \in refunded

(* What a setBalance in the middle of a transfer can do to it: the         *)
(* receiver's account appears after the charge failed and pays the         *)
(* reversal, or becomes unreadable and keeps the credit; or the sender's   *)
(* becomes unreadable and its refund is lost.                              *)
Disturbed(i) ==
  /\ called[Pair][i] = <<"rollback">>
  /\ \/ /\ applied[Pair][i] \in {<<"fail", "undone">>, <<"ok", "undofail">>}
        /\ outMessages[Pair][i].receiver \in touched
     \/ i \notin refunded /\ Sender \in touched

(* Every transfer that was emitted reaches, for good, an outcome both      *)
(* chains agree on, whatever the order of time-outs, retries and late      *)
(* answers; only a setBalance on one of its own two accounts can spoil it. *)
EventuallyAtomic ==
  \A i \in Indices :
    <>[](i <= outterMeta[Pair] => Atomic(i) \/ Disturbed(i))

(* No account ever shows more money than there is.  interchainCharge says  *)
(* in a TODO that a rollback may find too little balance and must be dealt *)
(* with; a ledger that dealt with it would never show such a balance.      *)
NoMoneyFromNothing ==
  \A a \in DOMAIN balanceB : Missing # balanceB[a] => balanceB[a] <= Funds
=============================================================================
