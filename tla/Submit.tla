------------------------------- MODULE Submit -------------------------------
(***************************************************************************)
(* How the plugin submits a pair's messages to the destination broker:     *)
(* SubmitIBTP executes a Fabric transaction, again and again until it is   *)
(* acknowledged or refused by the chaincode, and then reads the receipt.   *)
(*                                                                         *)
(* Fabric is external: a transaction is endorsed against the committed     *)
(* state, ordered, and commits only if what it read is still current; the  *)
(* client may give up waiting at any time, and a transaction it gave up    *)
(* may still commit.  All of a pair's state is read by every call, and     *)
(* every call that commits moves a counter, so that the two counters stand *)
(* for the version of the read set.  The retry loop of SubmitReceipt is    *)
(* the same code over the callback counter.                                *)
(*                                                                         *)
(* The goroutines share the chain's two ids, which name the pair whose     *)
(* receipt is read, without a lock.  Ids that are half set, or torn, name  *)
(* no pair of the broker either, or crash the plugin: Restart.             *)
(***************************************************************************)
EXTENDS BrokerIn, FiniteSets

CONSTANTS
  Callers,     \* pier goroutines that call SubmitIBTP
  Pair,        \* the service pair they submit for
  MaxOrphans   \* bound: ordered transactions nobody waits for, at one time

ASSUME PairAssumption       == Pairs = {Pair}
ASSUME MaxOrphansAssumption == MaxOrphans \in Nat

VARIABLES
  phase,       \* where each call is
  arg,         \* its request: <<index, transaction status>>
  pending,     \* the ordered transaction it waits for, if any
  outcome,     \* what became of that transaction
  orphans,     \* ordered transactions nobody waits for
  idKnown,     \* bitxhubID and appchainID are both set
  blanked,     \* history: a query for them left them empty, since the plugin
               \* came up
  reply        \* what the last call returned, if it succeeded: its status and
               \* the receipt's type, Nil for no receipt

idVars   == <<idKnown, blanked>>
callVars == <<phase, arg, pending, outcome, orphans, idVars, reply>>
allVars  == <<vars, callVars>>

Requests     == Indices \X {0, 2}
Version      == <<innerMeta[Pair], dstRollbackMeta[Pair]>>
Transactions == [arg : Requests,
                 read : (0 .. MaxIndex) \X (0 .. MaxIndex)]

Nil     == -1
Replies == [status : BOOLEAN, receipt : Nil .. 3]
NoReply == [status |-> FALSE, receipt |-> Nil]
NoCall  == <<1, 0>>    \* the locals of a call that failed, or was none

SubmitTypeOK ==
  /\ TypeOK
  /\ phase \in [Callers -> {"idle", "execute", "wait", "id", "receipt"}]
  /\ arg \in [Callers -> Requests]
  /\ pending \in [Callers -> SUBSET Transactions]
  /\ outcome \in [Callers -> {"open", "valid", "invalid"}]
  /\ \A c \in Callers : pending[c] # {} => phase[c] = "wait" /\ outcome[c] = "open"
  /\ orphans \subseteq Transactions
  /\ idKnown \in BOOLEAN /\ blanked \in BOOLEAN
  /\ reply \in [Callers -> Replies]

SubmitInit ==
  /\ Init
  /\ phase = [c \in Callers |-> "idle"]
  /\ arg = [c \in Callers |-> NoCall]
  /\ pending = [c \in Callers |-> {}]
  /\ outcome = [c \in Callers |-> "open"]
  /\ orphans = {}
  /\ idKnown = FALSE /\ blanked = FALSE
  /\ reply = [c \in Callers |-> NoReply]

-----------------------------------------------------------------------------

Goto(c, ph) == phase' = [phase EXCEPT ![c] = ph]

Fail(c) == arg' = [arg EXCEPT ![c] = NoCall] /\ Goto(c, "idle")

Succeed(c, typ) ==
  /\ reply' = [reply EXCEPT ![c] = [status |-> TRUE, receipt |-> typ]]
  /\ Goto(c, "idle")

(* The pier: it may call for any message at any time, but hands in a       *)
(* rollback no further ahead than RollbackWindow.                          *)
SubmitIBTP(c, r) ==
  /\ phase[c] = "idle"
  /\ r[2] # 0 => InWindow(Pair, r[1])
  /\ arg' = [arg EXCEPT ![c] = r]
  /\ reply' = [reply EXCEPT ![c] = NoReply]
  /\ Goto(c, "execute")
  /\ UNCHANGED <<vars, pending, outcome, orphans, idVars>>

(* What the broker answers on the committed state. *)
Accepted(r) == IF r[2] = 0 THEN IsNextIn(Pair, r[1]) ELSE IsLaterRollback(Pair, r[1])

(* Endorsed on the committed state and handed to the orderer. *)
Endorse(c) ==
  /\ phase[c] = "execute" /\ Accepted(arg[c])
  /\ pending' = [pending EXCEPT ![c] = {[arg |-> arg[c], read |-> Version]}]
  /\ Goto(c, "wait")
  /\ UNCHANGED <<vars, arg, outcome, orphans, idVars, reply>>

(* Mutant of Refuse: a refusal is retried like any other error. *)
RefuseRetries(c) ==
  /\ phase[c] = "execute" /\ ~Accepted(arg[c])
  /\ UNCHANGED allVars

(* A chaincode status of 500 ends the retries, and the call. *)
Refuse(c) ==
  /\ phase[c] = "execute" /\ ~Accepted(arg[c])
  /\ Fail(c)
  /\ UNCHANGED <<vars, pending, outcome, orphans, idVars, reply>>

Valid(t) == t.read = Version

(* A peer commits or invalidates an ordered transaction.  The service's    *)
(* answer is chosen here: whoever endorsed a valid one saw the same state. *)
Commit(t) ==
  \/ Valid(t) /\ \E ok \in BOOLEAN : InvokeInterchain(Pair, t.arg[1], t.arg[2], ok)
  \/ ~Valid(t) /\ UNCHANGED vars

CommitPending(c) ==
  /\ \E t \in pending[c] :
       /\ Commit(t)
       /\ outcome' = [outcome EXCEPT ![c] = IF Valid(t) THEN "valid" ELSE "invalid"]
  /\ pending' = [pending EXCEPT ![c] = {}]
  /\ UNCHANGED <<phase, arg, orphans, idVars, reply>>

CommitOrphan(t) ==
  /\ Commit(t)
  /\ orphans' = orphans \ {t}
  /\ UNCHANGED <<phase, arg, pending, outcome, idVars, reply>>

(* The client gives up waiting and executes again: the transaction it gave *)
(* up may have committed or not, or may still be on its way.               *)
GiveUp(c) ==
  /\ phase[c] = "wait"
  /\ orphans' = orphans \union pending[c]
  /\ Cardinality(orphans') <= MaxOrphans
  /\ pending' = [pending EXCEPT ![c] = {}]
  /\ outcome' = [outcome EXCEPT ![c] = "open"]
  /\ Goto(c, "execute")
  /\ UNCHANGED <<vars, arg, idVars, reply>>

(* Mutant of AfterAck: an invalid transaction passes for a committed one. *)
AfterAckBlind(c) == IF idKnown THEN "receipt" ELSE "id"

AfterAck(c) ==
  IF outcome[c] = "invalid" THEN "execute" ELSE IF idKnown THEN "receipt" ELSE "id"

(* The client learns what became of its transaction: an invalid one is     *)
(* executed again.                                                         *)
Acknowledge(c) ==
  /\ phase[c] = "wait" /\ pending[c] = {}
  /\ Goto(c, AfterAck(c))
  /\ outcome' = [outcome EXCEPT ![c] = "open"]
  /\ UNCHANGED <<vars, arg, pending, orphans, idVars, reply>>

(* A call that finds the ids empty asks the broker for them.  Whatever     *)
(* comes back is written over what another goroutine has set meanwhile:    *)
(* the ids; or nothing, with an error, and the call reports a failure for  *)
(* what it just committed; or nothing without one, and the call goes on.   *)
GetChainID(c) ==
  /\ phase[c] = "id"
  /\ \/ idKnown' = TRUE /\ Goto(c, "receipt") /\ UNCHANGED <<blanked, arg>>
     \/ /\ idKnown' = FALSE /\ blanked' = TRUE
        /\ Fail(c) \/ (Goto(c, "receipt") /\ UNCHANGED arg)
  /\ UNCHANGED <<vars, pending, outcome, orphans, reply>>

(* What the broker answers for the pair the ids name now: for one it does  *)
(* not know, the empty receipt, of type 0.                                 *)
ReceiptRead(r) == IF idKnown THEN receiptMessages[Pair][r[1]] ELSE 0

(* The receipt is read by a second call; its error is not looked at, and   *)
(* leaves a nil result.                                                    *)
GetReceiptMessage(c) ==
  /\ phase[c] = "receipt"
  /\ \E typ \in {Nil, ReceiptRead(arg[c])} : Succeed(c, typ)
  /\ UNCHANGED <<vars, arg, pending, outcome, orphans, idVars>>

(* The plugin crashes and comes up again: every call is gone, the ids are  *)
(* empty, and what was ordered is still on its way.                        *)
Restart ==
  /\ orphans' = orphans \union UNION {pending[c] : c \in Callers}
  /\ Cardinality(orphans') <= MaxOrphans                     \* bound
  /\ phase' = [c \in Callers |-> "idle"]
  /\ pending' = [c \in Callers |-> {}]
  /\ outcome' = [c \in Callers |-> "open"]
  /\ arg' = [c \in Callers |-> NoCall]
  /\ reply' = [c \in Callers |-> NoReply]
  /\ idKnown' = FALSE /\ blanked' = FALSE
  /\ UNCHANGED vars

SubmitNext ==
  \/ \E c \in Callers, r \in Requests : SubmitIBTP(c, r)
  \/ \E c \in Callers : Endorse(c) \/ Refuse(c) \/ GiveUp(c)
  \/ \E c \in Callers : CommitPending(c) \/ Acknowledge(c)
  \/ \E c \in Callers : GetChainID(c) \/ GetReceiptMessage(c)
  \/ \E t \in orphans : CommitOrphan(t)
  \/ Restart

(* The client goes on executing, and what was ordered is committed or      *)
(* invalidated in the end.  The client may give up every single wait;      *)
(* nobody has to submit.  The proof of a receipt comes in the end (what    *)
(* happens when it does not is in Polling, over the same getProof).        *)
SubmitFairness ==
  /\ \A c \in Callers :
       /\ WF_allVars(\/ Endorse(c) \/ Refuse(c) \/ Acknowledge(c)
                     \/ GetChainID(c) \/ GetReceiptMessage(c))
       /\ WF_allVars(CommitPending(c))
  /\ WF_allVars(\E t \in orphans : CommitOrphan(t))

SubmitSpec == SubmitInit /\ [][SubmitNext]_allVars /\ SubmitFairness

-----------------------------------------------------------------------------

(* A call that reports success took effect, and what it says of the        *)
(* receipt stays true of the message: it was executed and answered so, or  *)
(* it was rolled back.  Only when a query for the chain's ids came back    *)
(* without them may the receipt be one of another pair, and then it is the *)
(* empty one.  A failure says nothing: the call may have taken effect (a   *)
(* lost acknowledgement, or chain ids that could not be read).             *)
ReplyTrue ==
  \A c \in Callers :
    LET i == arg[c][1]  st == arg[c][2]  a == applied[Pair][i] IN
    (phase[c] = "idle" /\ reply[c].status) =>
      /\ st = 0 => a # <<>> /\ a[1] \in Executions
      /\ st # 0 => i <= dstRollbackMeta[Pair] /\ reply[c].receipt \in {Nil, 0, 3}
      /\ reply[c].receipt = 0 => blanked
      /\ reply[c].receipt = 1 => a[1] = "ok"
      /\ reply[c].receipt = 2 => a[1] = "fail"
      /\ reply[c].receipt = 3 => i <= dstRollbackMeta[Pair]

(* However often it is executed, given up and executed again, and whatever *)
(* goes on at the same time, a message is run once and reversed once: the  *)
(* retries are harmless because the broker checks the index.               *)
RunOnce == \A i \in Indices : PairedAt(Pair, i)

(* Every call returns: even when every acknowledgement is lost, the        *)
(* chaincode refuses what already took effect, which ends the retries.     *)
(* (The traffic of the other goroutines is finite here: an endless one     *)
(* could invalidate a call's transactions for ever.)                       *)
CallReturns == \A c \in Callers : phase[c] # "idle" ~> phase[c] = "idle"
=============================================================================
