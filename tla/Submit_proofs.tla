--------------------------- MODULE Submit_proofs ---------------------------
(***************************************************************************)
(* Proofs about submission, for any number of goroutines, messages and     *)
(* transactions given up, when a pier keeps the pair's messages in order   *)
(* (RollbackWindow <= 1).  A committed transaction is a step of the        *)
(* destination broker, so that its invariants hold here; what is added     *)
(* says what the pier may conclude from an acknowledgement.                *)
(***************************************************************************)
EXTENDS Submit, BrokerIn_proofs

USE MaxIndexAssumption, ThresholdsAssumption, RollbackWindowAssumption, PairAssumption

Ran(i)    == applied[Pair][i] # <<>> /\ applied[Pair][i][1] \in Executions
Closed(i) == i <= dstRollbackMeta[Pair]

(* What a committed request has done, for good: a message ran, or its      *)
(* rollback took the place of its receipt.                                 *)
Effect(r) ==
  /\ r[2] = 0 => Ran(r[1])
  /\ r[2] # 0 => Closed(r[1]) /\ receiptMessages[Pair][r[1]] = 3

(* In relay mode a receipt says how the message ran, or that it is closed. *)
ReceiptSays(i) ==
  LET typ == receiptMessages[Pair][i] IN
  /\ typ \in 0 .. 3
  /\ typ = 2 => Ran(i) /\ applied[Pair][i][1] = "fail"
  /\ typ = 3 => Closed(i)

BInv ==
  /\ IInv
  /\ valThreshold = 1
  /\ skipped[Pair] = {}
  /\ \A i \in Indices : ReceiptSays(i)

(* Who waits, waits for its own request; who learned that it is committed  *)
(* may rely on it.                                                         *)
CallAt(c) ==
  /\ \A t \in pending[c] : t.arg = arg[c]
  /\ phase[c] # "wait" => outcome[c] = "open"
  /\ phase[c] = "wait" /\ outcome[c] = "open" => pending[c] # {}
  /\ outcome[c] = "valid" \/ phase[c] \in {"id", "receipt"} => Effect(arg[c])
  /\ phase[c] = "receipt" => idKnown \/ blanked
  /\ phase[c] # "idle" => ~reply[c].status

ReplyAt(c) ==
  LET i == arg[c][1]  st == arg[c][2]  a == applied[Pair][i] IN
  (phase[c] = "idle" /\ reply[c].status) =>
    /\ st = 0 => a # <<>> /\ a[1] \in Executions
    /\ st # 0 => i <= dstRollbackMeta[Pair] /\ reply[c].receipt \in {Nil, 0, 3}
    /\ reply[c].receipt = 0 => blanked
    /\ reply[c].receipt = 1 => a[1] = "ok"
    /\ reply[c].receipt = 2 => a[1] = "fail"
    /\ reply[c].receipt = 3 => i <= dstRollbackMeta[Pair]

SInv ==
  /\ BInv
  /\ SubmitTypeOK
  /\ \A c \in Callers : CallAt(c) /\ ReplyAt(c)

-----------------------------------------------------------------------------

(* Append leaves the first element of a sequence alone. *)
LEMMA FirstKept ==
  ASSUME NEW S, NEW a \in Seq(S), NEW x \in S
  PROVE  /\ Append(a, x) # <<>>
         /\ a # <<>> => Append(a, x)[1] = a[1]
         /\ a = <<>> => Append(a, x)[1] = x
  <1>1. Len(a) \in Nat /\ Len(Append(a, x)) = Len(a) + 1
    OBVIOUS
  <1>2. Append(a, x) # <<>>
    BY <1>1
  <1>3. CASE a = <<>>
    BY <1>2, <1>3
  <1>4. CASE a # <<>>
    <2>1. Len(a) >= 1
      BY <1>1, <1>4
    <2>2. Append(a, x)[1] = a[1]
      BY <1>1, <2>1
    <2> QED BY <1>2, <1>4, <2>2
  <1> QED BY <1>3, <1>4

(* A request that commits runs its message, which was not taken before. *)
LEMMA RequestFacts ==
  ASSUME RollbackWindow <= 1, BInv, NEW i \in Indices, NEW ok \in BOOLEAN,
         InvokeInterchain(Pair, i, 0, ok)
  PROVE  /\ applied[Pair][i] = <<>> /\ ~Closed(i)
         /\ dstRollbackMeta' = dstRollbackMeta
         /\ \E e \in Executions :
              /\ applied' = [applied EXCEPT ![Pair][i] = <<e>>]
              /\ receiptMessages' =
                   [receiptMessages EXCEPT ![Pair][i] = IF e = "ok" THEN 1 ELSE 2]
  <1>1. IInv /\ Pair \in Pairs /\ 0 \in TxStatuses
    BY DEF BInv, TxStatuses
  <1>2. IsNextIn(Pair, i)
    BY DEF InvokeInterchain, UpdateIndexRequest
  <1>3. ~(i <= innerMeta[Pair])
    BY <1>1, <1>2 DEF IInv, TypeOK, IsNextIn
  <1>4. applied[Pair][i] = <<>> /\ ~Closed(i)
    BY <1>1, <1>3, Untaken DEF Closed
  <1>5. dstRollbackMeta' = dstRollbackMeta
    BY DEF InvokeInterchain, UpdateIndexRequest
  <1> DEFINE e == Answer(0, ok)
  <1>6. e \in Executions /\ ReceiptType(0, ok) = (IF e = "ok" THEN 1 ELSE 2)
    BY DEF Answer, ReceiptType, Executions
  <1>7. applied' = [applied EXCEPT ![Pair][i] = Append(@, e)]
    BY DEF InvokeInterchain, CallMade
  <1>8. Append(<<>>, e) = <<e>>
    OBVIOUS
  <1> HIDE DEF e
  <1>9. applied' = [applied EXCEPT ![Pair][i] = <<e>>]
    BY <1>1, <1>4, <1>7, <1>8 DEF IInv, TypeOK
  <1>10. receiptMessages' =
           [receiptMessages EXCEPT ![Pair][i] = IF e = "ok" THEN 1 ELSE 2]
    BY <1>6 DEF InvokeInterchain
  <1> QED BY <1>4, <1>5, <1>6, <1>9, <1>10

(* A rollback that commits closes its message, and its receipt says so. *)
LEMMA RollbackFacts ==
  ASSUME BInv, NEW i \in Indices, NEW ok \in BOOLEAN,
         InvokeInterchain(Pair, i, 2, ok)
  PROVE  /\ ~Closed(i)
         /\ dstRollbackMeta' = [dstRollbackMeta EXCEPT ![Pair] = i]
         /\ receiptMessages' = [receiptMessages EXCEPT ![Pair][i] = 3]
         /\ \/ applied' = applied
            \/ \E r \in Reversals : applied' = [applied EXCEPT ![Pair][i] = Append(@, r)]
  <1>1. IInv /\ Pair \in Pairs /\ valThreshold = 1 /\ i \in Nat
    BY DEF BInv, Indices
  <1>2. dstRollbackMeta[Pair] \in Nat
    BY <1>1 DEF IInv, TypeOK
  <1>3. ~Closed(i) /\ dstRollbackMeta' = [dstRollbackMeta EXCEPT ![Pair] = i]
    BY <1>1, <1>2 DEF InvokeInterchain, UpdateIndexRollback, IsLaterRollback, Closed
  <1>4. ReceiptType(2, ok) = 3
    BY <1>1 DEF ReceiptType, Direct
  <1>5. receiptMessages' = [receiptMessages EXCEPT ![Pair][i] = 3]
    BY <1>4 DEF InvokeInterchain
  <1>6. Answer(2, ok) \in Reversals
    BY DEF Answer, Reversals
  <1>7. \/ applied' = applied
        \/ applied' = [applied EXCEPT ![Pair][i] = Append(@, Answer(2, ok))]
    BY DEF InvokeInterchain
  <1> QED BY <1>3, <1>5, <1>6, <1>7

(* What a commit leaves to a message: its first call, and everything once  *)
(* it is closed.                                                           *)
Kept(i) ==
  /\ applied[Pair][i] # <<>> => /\ applied'[Pair][i] # <<>>
                                /\ applied'[Pair][i][1] = applied[Pair][i][1]
  /\ Closed(i) => Closed(i)' /\ receiptMessages'[Pair][i] = receiptMessages[Pair][i]

LEMMA CommitRequest ==
  ASSUME RollbackWindow <= 1, BInv, NEW i \in Indices, NEW ok \in BOOLEAN,
         InvokeInterchain(Pair, i, 0, ok)
  PROVE  /\ \A j \in Indices : ReceiptSays(j)' /\ Kept(j)
         /\ Ran(i)'
  <1>0. /\ Pair \in Pairs
        /\ receiptMessages \in [Pairs -> [Indices -> 0 .. 4]]
        /\ applied \in [Pairs -> [Indices -> Seq(Executions \union Reversals)]]
        /\ \A j \in Indices : ReceiptSays(j)
    BY DEF BInv, IInv, TypeOK
  <1>1. PICK e \in Executions :
          /\ applied[Pair][i] = <<>> /\ ~Closed(i)
          /\ dstRollbackMeta' = dstRollbackMeta
          /\ applied' = [applied EXCEPT ![Pair][i] = <<e>>]
          /\ receiptMessages' =
               [receiptMessages EXCEPT ![Pair][i] = IF e = "ok" THEN 1 ELSE 2]
    BY RequestFacts
  <1>2. <<e>> # <<>> /\ <<e>>[1] = e
    OBVIOUS
  <1>3. applied'[Pair][i] = <<e>> /\ Ran(i)'
    BY <1>0, <1>1, <1>2 DEF Ran
  <1>4. receiptMessages'[Pair][i] = IF e = "ok" THEN 1 ELSE 2
    BY <1>0, <1>1
  <1>5. ReceiptSays(i)' /\ Kept(i)
    BY <1>1, <1>2, <1>3, <1>4 DEF ReceiptSays, Kept, Executions, Ran
  <1>6. ASSUME NEW j \in Indices, j # i
        PROVE  ReceiptSays(j)' /\ Kept(j)
    <2>1. /\ applied'[Pair][j] = applied[Pair][j]
          /\ receiptMessages'[Pair][j] = receiptMessages[Pair][j]
      BY <1>0, <1>1, <1>6
    <2> QED BY <1>0, <1>1, <2>1 DEF ReceiptSays, Kept, Ran, Closed
  <1> QED BY <1>3, <1>5, <1>6

LEMMA CommitRollback ==
  ASSUME BInv, NEW i \in Indices, NEW ok \in BOOLEAN,
         InvokeInterchain(Pair, i, 2, ok)
  PROVE  /\ \A j \in Indices : ReceiptSays(j)' /\ Kept(j)
         /\ Closed(i)' /\ receiptMessages'[Pair][i] = 3
  <1>0. /\ Pair \in Pairs
        /\ dstRollbackMeta \in [Pairs -> 0 .. MaxIndex]
        /\ receiptMessages \in [Pairs -> [Indices -> 0 .. 4]]
        /\ applied \in [Pairs -> [Indices -> Seq(Executions \union Reversals)]]
        /\ \A j \in Indices : j \in Nat /\ ReceiptSays(j)
    BY DEF BInv, IInv, TypeOK, Indices
  <1>1. /\ ~Closed(i)
        /\ dstRollbackMeta' = [dstRollbackMeta EXCEPT ![Pair] = i]
        /\ receiptMessages' = [receiptMessages EXCEPT ![Pair][i] = 3]
    BY RollbackFacts
  <1>2. receiptMessages'[Pair][i] = 3 /\ dstRollbackMeta'[Pair] = i /\ Closed(i)'
    BY <1>0, <1>1 DEF Closed
  <1>3. \A j \in Indices : Closed(j) => Closed(j)'
    BY <1>0, <1>1, <1>2 DEF Closed
  <1>4. ASSUME NEW j \in Indices, applied[Pair][j] # <<>>
        PROVE  applied'[Pair][j] # <<>> /\ applied'[Pair][j][1] = applied[Pair][j][1]
    <2>1. CASE applied' = applied
      BY <1>4, <2>1
    <2>2. ASSUME NEW r \in Reversals, applied' = [applied EXCEPT ![Pair][i] = Append(@, r)]
          PROVE  applied'[Pair][j] # <<>> /\ applied'[Pair][j][1] = applied[Pair][j][1]
      <3>1. CASE j = i
        <4>1. applied'[Pair][j] = Append(applied[Pair][j], r)
          BY <1>0, <2>2, <3>1
        <4>2. applied[Pair][j] \in Seq(Executions \union Reversals)
          BY <1>0
        <4> QED BY <1>4, <4>1, <4>2, FirstKept
      <3>2. CASE j # i
        BY <1>0, <1>4, <2>2, <3>2
      <3> QED BY <3>1, <3>2
    <2> QED BY <2>1, <2>2, RollbackFacts
  <1>5. ASSUME NEW j \in Indices
        PROVE  ReceiptSays(j)' /\ Kept(j)
    <2>1. CASE j = i
      BY <1>1, <1>2, <1>4, <2>1 DEF ReceiptSays, Kept
    <2>2. CASE j # i
      <3>1. receiptMessages'[Pair][j] = receiptMessages[Pair][j]
        BY <1>0, <1>1, <2>2
      <3> QED BY <1>0, <1>3, <1>4, <3>1 DEF ReceiptSays, Kept, Ran
    <2> QED BY <2>1, <2>2
  <1> QED BY <1>2, <1>5

(* An ordered transaction that is committed or invalidated. *)
LEMMA CommitInv ==
  ASSUME RollbackWindow <= 1, BInv, NEW t \in Transactions, Commit(t)
  PROVE  /\ BInv'
         /\ \A i \in Indices : Kept(i)
         /\ Valid(t) => Effect(t.arg)'
  <1> DEFINE i == t.arg[1]
             s == t.arg[2]
  <1>0. i \in Indices /\ s \in {0, 2} /\ Pair \in Pairs
    BY DEF Transactions, Requests
  <1>1. CASE ~Valid(t)
    <2>1. UNCHANGED vars
      BY <1>1 DEF Commit
    <2>2. IInv'
      BY <2>1, NextInv DEF BInv
    <2> QED BY <1>1, <2>1, <2>2 DEF vars, BInv, ReceiptSays, Ran, Closed, Kept
  <1>2. CASE Valid(t)
    <2>1. PICK ok \in BOOLEAN : InvokeInterchain(Pair, i, s, ok)
      BY <1>2 DEF Commit
    <2> HIDE DEF i, s
    <2>2. s \in TxStatuses
      BY <1>0 DEF TxStatuses
    <2>3. IInv'
      BY <1>0, <2>1, <2>2, NextInv DEF BInv, Next
    <2>4. valThreshold' = 1 /\ skipped'[Pair] = {}
      BY <2>1 DEF InvokeInterchain, BInv
    <2>5. /\ \A j \in Indices : ReceiptSays(j)' /\ Kept(j)
          /\ s = 0 => Ran(i)'
          /\ s # 0 => Closed(i)' /\ receiptMessages'[Pair][i] = 3
      <3>1. CASE s = 0
        BY <1>0, <2>1, <3>1, CommitRequest
      <3>2. CASE s = 2
        BY <1>0, <2>1, <3>2, CommitRollback
      <3> QED BY <1>0, <3>1, <3>2
    <2>6. Effect(t.arg)'
      BY <2>5 DEF Effect, i, s
    <2> QED BY <2>3, <2>4, <2>5, <2>6 DEF BInv
  <1> QED BY <1>1, <1>2

-----------------------------------------------------------------------------

(* What a step leaves to the goroutines that read the chain's ids. *)
IdsKept ==
  /\ blanked => blanked'
  /\ idKnown \/ blanked => idKnown' \/ blanked'

(* What a call relies on stays true while messages keep what they have,    *)
(* whoever commits; so a step of one goroutine leaves the others alone.    *)
LEMMA EffectKept ==
  ASSUME NEW r \in Requests, Effect(r), \A i \in Indices : Kept(i)
  PROVE  Effect(r)'
  <1>1. r[1] \in Indices
    BY DEF Requests
  <1>2. Kept(r[1])
    BY <1>1
  <1> QED BY <1>2 DEF Effect, Kept, Ran

LEMMA ReplyKept ==
  ASSUME NEW c \in Callers, arg[c] \in Requests, ReplyAt(c),
         \A i \in Indices : Kept(i), IdsKept,
         phase'[c] = phase[c], arg'[c] = arg[c], reply'[c] = reply[c]
  PROVE  ReplyAt(c)'
  <1>1. arg[c][1] \in Indices
    BY DEF Requests
  <1>2. Kept(arg[c][1])
    BY <1>1
  <1> QED BY <1>2 DEF ReplyAt, Kept, Closed, IdsKept, Nil

LEMMA CallKept ==
  ASSUME NEW c \in Callers, arg[c] \in Requests, CallAt(c),
         \A i \in Indices : Kept(i), IdsKept,
         phase'[c] = phase[c], arg'[c] = arg[c], pending'[c] = pending[c],
         outcome'[c] = outcome[c], reply'[c] = reply[c]
  PROVE  CallAt(c)'
  <1>1. PICK r \in Requests : r = arg[c]
    OBVIOUS
  <1>2. Effect(r) => Effect(r)'
    BY EffectKept
  <1>3. Effect(arg[c]) => Effect(arg[c])'
    BY <1>1, <1>2 DEF Effect, Ran, Closed
  <1> QED BY <1>3 DEF CallAt, IdsKept

(* A step of one goroutine, once its own part is known. *)
LEMMA OneCaller ==
  ASSUME SInv, NEW c \in Callers, BInv', SubmitTypeOK',
         \A i \in Indices : Kept(i), IdsKept,
         \A d \in Callers \ {c} :
           /\ phase'[d] = phase[d] /\ arg'[d] = arg[d] /\ pending'[d] = pending[d]
           /\ outcome'[d] = outcome[d] /\ reply'[d] = reply[d],
         CallAt(c)', ReplyAt(c)'
  PROVE  SInv'
  <1>1. ASSUME NEW d \in Callers \ {c}
        PROVE  CallAt(d)' /\ ReplyAt(d)'
    <2>1. arg[d] \in Requests /\ CallAt(d) /\ ReplyAt(d)
      BY DEF SInv, SubmitTypeOK
    <2> QED BY <2>1, CallKept, ReplyKept
  <1> QED BY <1>1 DEF SInv

(* The broker is left alone by what a client does on its own. *)
LEMMA BrokerIdle ==
  ASSUME SInv, UNCHANGED vars
  PROVE  BInv' /\ TypeOK' /\ \A i \in Indices : Kept(i)
  BY DEF SInv, BInv, IInv, TypeOK, RollbackBehind, CallsPaired, PairedAt, ReceiptForEach,
     ReceiptTruth, ReceiptSays, Ran, Closed, Kept, vars

-----------------------------------------------------------------------------

(* A call begins without a transaction and without a reply. *)
LEMMA SubmitIBTPInv ==
  ASSUME SInv, NEW c \in Callers, NEW r \in Requests, SubmitIBTP(c, r)
  PROVE  SInv'
  <1> USE DEF SubmitIBTP, Goto, NoReply, Replies, Nil, idVars
  <1>1. BInv' /\ TypeOK' /\ \A i \in Indices : Kept(i)
    BY BrokerIdle
  <1>2. SubmitTypeOK'
    BY <1>1 DEF SInv, SubmitTypeOK, idVars
  <1>3. CallAt(c)' /\ ReplyAt(c)'
    BY DEF SInv, SubmitTypeOK, CallAt, ReplyAt, idVars
  <1>4. \A d \in Callers \ {c} :
          /\ phase'[d] = phase[d] /\ arg'[d] = arg[d] /\ pending'[d] = pending[d]
          /\ outcome'[d] = outcome[d] /\ reply'[d] = reply[d]
    BY DEF SInv, SubmitTypeOK
  <1> QED BY <1>1, <1>2, <1>3, <1>4, OneCaller DEF IdsKept, idVars

(* What is ordered is the call's own request. *)
LEMMA EndorseInv ==
  ASSUME SInv, NEW c \in Callers, Endorse(c)
  PROVE  SInv'
  <1> USE DEF Endorse, Goto
  <1>1. BInv' /\ TypeOK' /\ \A i \in Indices : Kept(i)
    BY BrokerIdle
  <1>2. [arg |-> arg[c], read |-> Version] \in Transactions
    BY DEF SInv, SubmitTypeOK, TypeOK, Transactions, Version
  <1>3. SubmitTypeOK'
    BY <1>1, <1>2 DEF SInv, SubmitTypeOK, CallAt, idVars
  <1>4. CallAt(c)' /\ ReplyAt(c)'
    <2>1. /\ phase'[c] = "wait" /\ arg'[c] = arg[c] /\ outcome'[c] = outcome[c]
          /\ pending'[c] = {[arg |-> arg[c], read |-> Version]}
      BY DEF SInv, SubmitTypeOK
    <2>2. outcome[c] = "open" /\ ~reply'[c].status
      BY DEF SInv, CallAt
    <2> HIDE DEF Endorse
    <2> QED BY <2>1, <2>2 DEF CallAt, ReplyAt
  <1>5. \A d \in Callers \ {c} :
          /\ phase'[d] = phase[d] /\ arg'[d] = arg[d] /\ pending'[d] = pending[d]
          /\ outcome'[d] = outcome[d] /\ reply'[d] = reply[d]
    BY DEF SInv, SubmitTypeOK
  <1> QED BY <1>1, <1>3, <1>4, <1>5, OneCaller DEF IdsKept, idVars

(* A refused call reports a failure. *)
LEMMA RefuseInv ==
  ASSUME SInv, NEW c \in Callers, Refuse(c)
  PROVE  SInv'
  <1> USE DEF Refuse, Fail, NoCall, Goto
  <1>1. BInv' /\ TypeOK' /\ \A i \in Indices : Kept(i)
    BY BrokerIdle
  <1>a. NoCall \in Requests
    <2>1. MaxIndex >= 1
      BY DEF SInv, SubmitTypeOK, Requests, Indices
    <2> QED BY <2>1 DEF NoCall, Requests, Indices
  <1>2. SubmitTypeOK'
    BY <1>1, <1>a DEF SInv, SubmitTypeOK, idVars
  <1>3. CallAt(c)' /\ ReplyAt(c)'
    BY DEF SInv, SubmitTypeOK, CallAt, ReplyAt, idVars
  <1>4. \A d \in Callers \ {c} :
          /\ phase'[d] = phase[d] /\ arg'[d] = arg[d] /\ pending'[d] = pending[d]
          /\ outcome'[d] = outcome[d] /\ reply'[d] = reply[d]
    BY DEF SInv, SubmitTypeOK
  <1> QED BY <1>1, <1>2, <1>3, <1>4, OneCaller DEF IdsKept, idVars

(* What the client gives up is an orphan, and nothing is concluded. *)
LEMMA GiveUpInv ==
  ASSUME SInv, NEW c \in Callers, GiveUp(c)
  PROVE  SInv'
  <1> USE DEF GiveUp, Goto
  <1>1. BInv' /\ TypeOK' /\ \A i \in Indices : Kept(i)
    BY BrokerIdle
  <1>2. SubmitTypeOK'
    BY <1>1 DEF SInv, SubmitTypeOK, idVars
  <1>3. CallAt(c)' /\ ReplyAt(c)'
    BY DEF SInv, SubmitTypeOK, CallAt, ReplyAt, idVars
  <1>4. \A d \in Callers \ {c} :
          /\ phase'[d] = phase[d] /\ arg'[d] = arg[d] /\ pending'[d] = pending[d]
          /\ outcome'[d] = outcome[d] /\ reply'[d] = reply[d]
    BY DEF SInv, SubmitTypeOK
  <1> QED BY <1>1, <1>2, <1>3, <1>4, OneCaller DEF IdsKept, idVars

(* An acknowledged call goes on only when its request took effect. *)
LEMMA AcknowledgeInv ==
  ASSUME SInv, NEW c \in Callers, Acknowledge(c)
  PROVE  SInv'
  <1> USE DEF Acknowledge, Goto
  <1>1. BInv' /\ TypeOK' /\ \A i \in Indices : Kept(i)
    BY BrokerIdle
  <1>2. SubmitTypeOK'
    BY <1>1 DEF SInv, SubmitTypeOK, AfterAck, idVars
  <1>3. CallAt(c) /\ phase[c] = "wait" /\ pending[c] = {}
        /\ outcome[c] \in {"open", "valid", "invalid"}
    BY DEF SInv, SubmitTypeOK
  <1>4. outcome[c] = "invalid" \/ Effect(arg[c])
    BY <1>3 DEF CallAt
  <1>5. Effect(arg[c]) => Effect(arg[c])'
    BY DEF Effect, Ran, Closed, vars
  <1>6. /\ phase'[c] = AfterAck(c) /\ outcome'[c] = "open" /\ pending'[c] = {}
        /\ AfterAck(c) \in {"execute", "id", "receipt"}
        /\ AfterAck(c) \in {"id", "receipt"} => outcome[c] # "invalid"
    BY <1>3 DEF SInv, SubmitTypeOK, AfterAck
  <1>7. CallAt(c)' /\ ReplyAt(c)'
    <2>1. /\ ~reply'[c].status /\ arg'[c] = arg[c]
          /\ phase'[c] = "receipt" => idKnown'
      BY <1>3, <1>6 DEF CallAt, AfterAck, idVars
    <2> QED BY <1>4, <1>5, <1>6, <2>1 DEF CallAt, ReplyAt
  <1>8. \A d \in Callers \ {c} :
          /\ phase'[d] = phase[d] /\ arg'[d] = arg[d] /\ pending'[d] = pending[d]
          /\ outcome'[d] = outcome[d] /\ reply'[d] = reply[d]
    BY DEF SInv, SubmitTypeOK
  <1> QED BY <1>1, <1>2, <1>7, <1>8, OneCaller DEF IdsKept, idVars

(* The chain ids are read or cleared, or the call reports a failure. *)
LEMMA GetChainIDInv ==
  ASSUME SInv, NEW c \in Callers, GetChainID(c)
  PROVE  SInv'
  <1>0. /\ phase[c] = "id" /\ UNCHANGED <<vars, pending, outcome, orphans, reply>>
        /\ idKnown' \in BOOLEAN /\ blanked' \in {blanked, TRUE}
        /\ (idKnown' = TRUE /\ blanked' = blanked) \/ blanked' = TRUE
        /\ \/ phase' = [phase EXCEPT ![c] = "receipt"] /\ arg' = arg
           \/ /\ phase' = [phase EXCEPT ![c] = "idle"]
              /\ arg' = [arg EXCEPT ![c] = NoCall]
    BY DEF GetChainID, Fail, Goto
  <1>1. BInv' /\ TypeOK' /\ \A i \in Indices : Kept(i)
    BY <1>0, BrokerIdle
  <1>2. NoCall \in Requests
    <2>1. MaxIndex >= 1
      BY DEF SInv, SubmitTypeOK, Requests, Indices
    <2> QED BY <2>1 DEF NoCall, Requests, Indices
  <1>3. SubmitTypeOK'
    <2>1. phase' \in [Callers -> {"idle", "execute", "wait", "id", "receipt"}]
      BY <1>0 DEF SInv, SubmitTypeOK
    <2>2. arg' \in [Callers -> Requests]
      BY <1>0, <1>2 DEF SInv, SubmitTypeOK
    <2>3. idKnown' \in BOOLEAN /\ blanked' \in BOOLEAN
      BY <1>0 DEF SInv, SubmitTypeOK
    <2>4. \A d \in Callers : phase'[d] = phase[d] \/ phase[d] # "wait"
      BY <1>0 DEF SInv, SubmitTypeOK
    <2> QED BY <1>0, <1>1, <2>1, <2>2, <2>3, <2>4 DEF SInv, SubmitTypeOK
  <1>4. CallAt(c) /\ pending[c] = {} /\ outcome[c] = "open" /\ reply[c] = reply'[c]
    BY <1>0 DEF SInv, SubmitTypeOK, CallAt
  <1>5. Effect(arg[c])
    BY <1>0, <1>4 DEF CallAt
  <1>6. Effect(arg[c]) => Effect(arg[c])' \/ arg'[c] # arg[c]
    BY <1>0 DEF Effect, Ran, Closed, vars
  <1>7. CallAt(c)' /\ ReplyAt(c)'
    <2>1. CASE phase' = [phase EXCEPT ![c] = "receipt"] /\ arg' = arg
      <3>1. phase'[c] = "receipt" /\ arg'[c] = arg[c]
        BY <2>1 DEF SInv, SubmitTypeOK
      <3> QED BY <1>0, <1>4, <1>5, <1>6, <3>1 DEF CallAt, ReplyAt
    <2>2. CASE /\ phase' = [phase EXCEPT ![c] = "idle"]
               /\ arg' = [arg EXCEPT ![c] = NoCall]
      <3>1. phase'[c] = "idle" /\ arg'[c] = NoCall
        BY <2>2 DEF SInv, SubmitTypeOK
      <3>2. ~reply'[c].status
        BY <1>0, <1>4 DEF SInv, CallAt
      <3> QED BY <1>0, <1>4, <3>1, <3>2 DEF CallAt, ReplyAt
    <2> QED BY <1>0, <2>1, <2>2
  <1>8. \A d \in Callers \ {c} :
          /\ phase'[d] = phase[d] /\ arg'[d] = arg[d] /\ pending'[d] = pending[d]
          /\ outcome'[d] = outcome[d] /\ reply'[d] = reply[d]
    BY <1>0 DEF SInv, SubmitTypeOK
  <1>9. IdsKept
    BY <1>0 DEF IdsKept, SInv, SubmitTypeOK
  <1> QED BY <1>1, <1>3, <1>7, <1>8, <1>9, OneCaller

(* The receipt that is read says what the call may rely on. *)
LEMMA GetReceiptMessageInv ==
  ASSUME SInv, NEW c \in Callers, GetReceiptMessage(c)
  PROVE  SInv'
  <1> DEFINE i == arg[c][1]
             st == arg[c][2]
  <1>0. /\ i \in Indices /\ st \in {0, 2} /\ Pair \in Pairs /\ arg[c] \in Requests
        /\ phase[c] = "receipt" /\ pending[c] = {} /\ outcome[c] = "open"
        /\ ReceiptSays(i) /\ Effect(arg[c])
    BY DEF GetReceiptMessage, SInv, SubmitTypeOK, CallAt, BInv, Requests
  <1>1. BInv' /\ TypeOK' /\ \A j \in Indices : Kept(j)
    BY BrokerIdle DEF GetReceiptMessage
  <1>2. PICK typ \in {Nil, ReceiptRead(arg[c])} : Succeed(c, typ)
    BY DEF GetReceiptMessage
  <1> DEFINE stored == receiptMessages[Pair][i]
  <1>3. stored \in 1 .. 3
    <2>1. CASE st = 0
      <3>1. applied[Pair][i] # <<>> /\ skipped[Pair] = {}
        BY <1>0, <2>1 DEF Effect, Ran, SInv, BInv
      <3>2. i <= innerMeta[Pair]
        BY <1>0, <3>1 DEF SInv, BInv, IInv, CallsPaired, PairedAt
      <3>3. stored # 0
        BY <1>0, <3>1, <3>2 DEF SInv, BInv, IInv, ReceiptForEach
      <3> QED BY <1>0, <3>3 DEF ReceiptSays
    <2>2. CASE st # 0
      BY <1>0, <2>2 DEF Effect
    <2> QED BY <2>1, <2>2
  <1>4. idKnown \/ blanked
    BY <1>0 DEF SInv, CallAt
  <1>5. typ = Nil \/ (typ = 0 /\ blanked) \/ typ = stored
    BY <1>2, <1>4 DEF ReceiptRead
  <1>6. typ \in Nil .. 3
    BY <1>3, <1>5 DEF Nil
  <1> HIDE DEF stored
  <1>7. UNCHANGED <<vars, arg, pending, outcome, orphans, idVars>>
    BY DEF GetReceiptMessage
  <1>8. /\ phase' = [phase EXCEPT ![c] = "idle"]
        /\ reply' = [reply EXCEPT ![c] = [status |-> TRUE, receipt |-> typ]]
    BY <1>2 DEF Succeed, Goto
  <1>9. SubmitTypeOK'
    <2>1. [status |-> TRUE, receipt |-> typ] \in Replies
      BY <1>6 DEF Replies
    <2>2. reply' \in [Callers -> Replies]
      BY <1>8, <2>1 DEF SInv, SubmitTypeOK
    <2>3. phase' \in [Callers -> {"idle", "execute", "wait", "id", "receipt"}]
      BY <1>8 DEF SInv, SubmitTypeOK
    <2>4. \A d \in Callers : phase'[d] = phase[d] \/ phase[d] # "wait"
      BY <1>0, <1>8 DEF SInv, SubmitTypeOK
    <2> QED BY <1>1, <1>7, <2>2, <2>3, <2>4 DEF idVars, SInv, SubmitTypeOK
  <1>10. /\ phase'[c] = "idle" /\ reply'[c] = [status |-> TRUE, receipt |-> typ]
         /\ pending'[c] = {} /\ outcome'[c] = "open" /\ arg'[c] = arg[c]
         /\ applied' = applied /\ dstRollbackMeta' = dstRollbackMeta
         /\ blanked' = blanked /\ idKnown' = idKnown
    BY <1>0, <1>7, <1>8 DEF SInv, SubmitTypeOK, vars, idVars
  <1>11. CallAt(c)'
    BY <1>10 DEF CallAt
  <1>12. /\ st = 0 => Ran(i)
         /\ st # 0 => Closed(i) /\ stored = 3
         /\ stored = 2 => applied[Pair][i][1] = "fail"
         /\ stored = 3 => Closed(i)
    BY <1>0 DEF Effect, ReceiptSays, stored
  <1>13. stored = 1 => applied[Pair][i][1] = "ok"
    <2>1. stored = 1 => applied[Pair][i] = <<"ok">>
      BY <1>0, At DEF SInv, BInv, stored
    <2>2. <<"ok">>[1] = "ok"
      OBVIOUS
    <2> QED BY <2>1, <2>2
  <1>14. ReplyAt(c)'
    <2>1. /\ st # 0 => typ \in {Nil, 0, 3}
          /\ typ = 0 => blanked
          /\ typ \in {1, 2, 3} => typ = stored
      BY <1>3, <1>5, <1>12 DEF Nil
    <2> HIDE DEF stored
    <2> QED BY <1>10, <1>12, <1>13, <2>1 DEF ReplyAt, Ran, Closed
  <1>15. \A d \in Callers \ {c} :
           /\ phase'[d] = phase[d] /\ arg'[d] = arg[d] /\ pending'[d] = pending[d]
           /\ outcome'[d] = outcome[d] /\ reply'[d] = reply[d]
    BY <1>7, <1>8 DEF SInv, SubmitTypeOK
  <1> QED BY <1>1, <1>9, <1>10, <1>11, <1>14, <1>15, OneCaller DEF IdsKept

(* A transaction somebody waits for is committed or invalidated. *)
LEMMA CommitPendingInv ==
  ASSUME RollbackWindow <= 1, SInv, NEW c \in Callers, CommitPending(c)
  PROVE  SInv'
  <1>1. PICK t \in pending[c] :
          /\ Commit(t)
          /\ outcome' = [outcome EXCEPT ![c] = IF Valid(t) THEN "valid" ELSE "invalid"]
    BY DEF CommitPending
  <1>2. /\ t \in Transactions /\ t.arg = arg[c] /\ phase[c] = "wait"
        /\ outcome[c] = "open" /\ arg[c] \in Requests
    BY <1>1 DEF SInv, SubmitTypeOK, CallAt
  <1>3. /\ BInv' /\ \A i \in Indices : Kept(i)
        /\ Valid(t) => Effect(t.arg)'
    BY <1>1, <1>2, CommitInv DEF SInv
  <1>4. TypeOK'
    BY <1>3 DEF BInv, IInv
  <1>5. SubmitTypeOK'
    BY <1>1, <1>4 DEF CommitPending, idVars, SInv, SubmitTypeOK
  <1>6. /\ phase'[c] = "wait" /\ pending'[c] = {} /\ arg'[c] = arg[c]
        /\ outcome'[c] = IF Valid(t) THEN "valid" ELSE "invalid"
    BY <1>1, <1>2 DEF CommitPending, SInv, SubmitTypeOK
  <1>7. Effect(t.arg)' => Effect(arg[c])'
    BY <1>2, <1>6 DEF Effect, Ran, Closed
  <1>8. CallAt(c)' /\ ReplyAt(c)'
    <2>1. ~reply'[c].status
      BY <1>2 DEF CommitPending, SInv, CallAt
    <2> QED BY <1>3, <1>6, <1>7, <2>1 DEF CallAt, ReplyAt
  <1>9. \A d \in Callers \ {c} :
          /\ phase'[d] = phase[d] /\ arg'[d] = arg[d] /\ pending'[d] = pending[d]
          /\ outcome'[d] = outcome[d] /\ reply'[d] = reply[d]
    BY <1>1 DEF CommitPending, SInv, SubmitTypeOK
  <1>10. IdsKept
    BY DEF CommitPending, IdsKept, idVars
  <1> QED BY <1>3, <1>5, <1>8, <1>9, <1>10, OneCaller

(* A transaction nobody waits for any more is. *)
LEMMA CommitOrphanInv ==
  ASSUME RollbackWindow <= 1, SInv, NEW t \in orphans, CommitOrphan(t)
  PROVE  SInv'
  <1>1. t \in Transactions /\ Commit(t)
    BY DEF CommitOrphan, SInv, SubmitTypeOK
  <1>2. BInv' /\ \A i \in Indices : Kept(i)
    BY <1>1, CommitInv DEF SInv
  <1>3. SubmitTypeOK'
    BY <1>2 DEF CommitOrphan, idVars, SInv, SubmitTypeOK, BInv, IInv
  <1>4. ASSUME NEW d \in Callers
        PROVE  CallAt(d)' /\ ReplyAt(d)'
    <2>1. arg[d] \in Requests /\ CallAt(d) /\ ReplyAt(d)
      BY DEF SInv, SubmitTypeOK
    <2>2. IdsKept
      BY DEF CommitOrphan, IdsKept, idVars
    <2> QED BY <1>2, <2>1, <2>2, CallKept, ReplyKept DEF CommitOrphan
  <1> QED BY <1>2, <1>3, <1>4 DEF SInv

(* The plugin comes up again: no call is left to rely on anything. *)
LEMMA RestartInv ==
  ASSUME SInv, Restart
  PROVE  SInv'
  <1> USE DEF Restart
  <1>1. BInv' /\ TypeOK'
    BY BrokerIdle
  <1>2. orphans' \subseteq Transactions
    BY DEF SInv, SubmitTypeOK
  <1>3. NoReply \in Replies
    BY DEF NoReply, Replies, Nil
  <1>4. SubmitTypeOK'
    <2>1. ASSUME NEW c \in Callers PROVE NoCall \in Requests
      <3>1. MaxIndex >= 1
        BY DEF SInv, SubmitTypeOK, Requests, Indices
      <3> QED BY <3>1 DEF NoCall, Requests, Indices
    <2>2. arg' \in [Callers -> Requests] /\ reply' \in [Callers -> Replies]
      BY <1>3, <2>1
    <2> QED BY <1>1, <1>2, <2>2 DEF SubmitTypeOK
  <1>5. \A c \in Callers : CallAt(c)' /\ ReplyAt(c)'
    BY DEF CallAt, ReplyAt, NoReply
  <1> QED BY <1>1, <1>4, <1>5 DEF SInv

-----------------------------------------------------------------------------

(* Nothing is called, ordered or replied at first. *)
LEMMA SubmitInitInv ==
  ASSUME SubmitInit, MaxIndex >= 1 PROVE SInv
  <1> USE DEF SubmitInit, NoReply, NoCall
  <1>1. BInv
    <2>1. IInv
      BY InitInv
    <2>2. Pair \in Pairs /\ 0 \in 0 .. 3
      OBVIOUS
    <2> QED BY <2>1, <2>2 DEF Init, NoReceipts, BInv, ReceiptSays
  <1>2. SubmitTypeOK
    <2>1. 1 \in Indices /\ <<1, 0>> \in Requests
      BY DEF Indices, Requests
    <2>2. NoReply \in Replies
      BY DEF Replies, Nil
    <2>3. TypeOK
      BY <1>1 DEF BInv, IInv
    <2> QED BY <2>1, <2>2, <2>3 DEF SubmitTypeOK
  <1>3. \A c \in Callers : CallAt(c) /\ ReplyAt(c)
    BY DEF CallAt, ReplyAt
  <1> QED BY <1>1, <1>2, <1>3 DEF SInv

(* Every step keeps the invariant. *)
LEMMA SubmitNextInv ==
  RollbackWindow <= 1 /\ SInv /\ [SubmitNext]_allVars => SInv'
  <1> SUFFICES ASSUME RollbackWindow <= 1, SInv, [SubmitNext]_allVars PROVE SInv'
    OBVIOUS
  <1>1. CASE \E c \in Callers, r \in Requests : SubmitIBTP(c, r)
    BY <1>1, SubmitIBTPInv
  <1>2. CASE \E c \in Callers : Endorse(c) \/ Refuse(c) \/ GiveUp(c)
    BY <1>2, EndorseInv, RefuseInv, GiveUpInv
  <1>3. CASE \E c \in Callers : CommitPending(c) \/ Acknowledge(c)
    BY <1>3, CommitPendingInv, AcknowledgeInv
  <1>4. CASE \E c \in Callers : GetChainID(c) \/ GetReceiptMessage(c)
    BY <1>4, GetChainIDInv, GetReceiptMessageInv
  <1>5. CASE \E t \in orphans : CommitOrphan(t)
    BY <1>5, CommitOrphanInv
  <1>6. CASE UNCHANGED allVars
    <2>1. UNCHANGED vars /\ UNCHANGED callVars
      BY <1>6 DEF allVars
    <2>2. BInv' /\ TypeOK' /\ \A i \in Indices : Kept(i)
      BY <2>1, BrokerIdle
    <2>3. SubmitTypeOK'
      BY <2>1, <2>2 DEF callVars, idVars, SInv, SubmitTypeOK
    <2>4. ASSUME NEW d \in Callers
          PROVE  CallAt(d)' /\ ReplyAt(d)'
      <3>1. arg[d] \in Requests /\ CallAt(d) /\ ReplyAt(d)
        BY DEF SInv, SubmitTypeOK
      <3>2. IdsKept
        BY <2>1 DEF callVars, idVars, IdsKept
      <3> QED BY <2>1, <2>2, <3>1, <3>2, CallKept, ReplyKept DEF callVars
    <2> QED BY <2>2, <2>3, <2>4 DEF SInv
  <1>7. CASE Restart
    BY <1>7, RestartInv
  <1> QED BY <1>1, <1>2, <1>3, <1>4, <1>5, <1>6, <1>7 DEF SubmitNext

(* The invariant of submission holds in every reachable state. *)
THEOREM SubmitInvariance ==
  ASSUME RollbackWindow <= 1, MaxIndex >= 1 PROVE SubmitSpec => []SInv
  <1>1. SubmitInit => SInv
    BY SubmitInitInv
  <1>2. SInv /\ [SubmitNext]_allVars => SInv'
    BY SubmitNextInv
  <1> QED BY <1>1, <1>2, PTL DEF SubmitSpec

(* Type correctness of submission. *)
THEOREM SubmitTypeCorrect ==
  ASSUME RollbackWindow <= 1, MaxIndex >= 1 PROVE SubmitSpec => []SubmitTypeOK
  BY SubmitInvariance, PTL DEF SInv

(* However often a message is submitted, given up and submitted again, by  *)
(* however many goroutines, the broker runs it once.                       *)
THEOREM RunsOnce ==
  ASSUME RollbackWindow <= 1, MaxIndex >= 1 PROVE SubmitSpec => []RunOnce
  <1>1. SInv => RunOnce
    BY DEF SInv, BInv, IInv, CallsPaired, RunOnce
  <1> QED BY <1>1, SubmitInvariance, PTL

(* A submission that reports success took effect, and the receipt it       *)
(* returns stays true of the message; it is an empty one only when a query *)
(* for the chain's ids had left them empty.                                *)
THEOREM RepliesTrue ==
  ASSUME RollbackWindow <= 1, MaxIndex >= 1 PROVE SubmitSpec => []ReplyTrue
  <1>1. SInv => ReplyTrue
    BY DEF SInv, ReplyAt, ReplyTrue
  <1> QED BY <1>1, SubmitInvariance, PTL
=============================================================================
