------------------------------ MODULE Polling ------------------------------
(***************************************************************************)
(* The plugin's polling goroutine: on every tick it reads the counters of  *)
(* the broker's outgoing messages (outterMeta) and incoming ones           *)
(* (innerMeta), and throws the messages, respectively the receipts, it has *)
(* not thrown yet, one by one on an unbuffered channel to the pier.  The   *)
(* two loops are the same code over two maps.                              *)
(*                                                                         *)
(* A step is what happens between two points where the goroutine can wait  *)
(* or a query can fail.  The chain goes on all the time: it emits and      *)
(* answers, its admin may move a counter by hand and leave an index        *)
(* without a receipt, and may initialize it again; the plugin is told      *)
(* nothing of this.  Stop is called from another goroutine.                *)
(***************************************************************************)
EXTENDS Naturals, Sequences

CONSTANTS
  Pairs,        \* service pairs in outterMeta or innerMeta
  OutPairs,     \* those in outterMeta: its loop comes first
  SrcOf,        \* the source service of each pair
  Flaky,        \* bound: pairs for which a query in the loops may fail
  Irregular,    \* bound: indices an index update may count, or a rollback
                \* that counts nothing may store a receipt for
  MaxIndex,     \* bound: messages per pair
  MaxResets     \* bound: times the chain is initialized

ASSUME OutPairsAssumption == OutPairs \subseteq Pairs
ASSUME FlakyAssumption    == Flaky \subseteq Pairs
ASSUME IrregularAssumption == Irregular \subseteq Nat
ASSUME MaxIndexAssumption == MaxIndex \in Nat
ASSUME MaxResetsAssumption == MaxResets \in Nat

Sources == {SrcOf[p] : p \in Pairs}

VARIABLES
  chain,      \* the chain's counter of each pair
  stored,     \* indices for which the chain has a message, or a receipt
  skipped,    \* history: indices counted by an index update without a receipt
  ticking,    \* the ticker runs
  tick,       \* the ticker's channel holds a tick
  stopping,   \* Stop waits for the goroutine to take its signal
  pc,         \* where the goroutine is
  seen,       \* the counters read on this tick
  todo,       \* pairs the two loops have not reached on this tick
  cur,        \* the pair of the current iteration
  next,       \* the index of the current iteration
  fetched,    \* what was fetched is the chain's, and not empty
  known,      \* source services in serviceMeta
  counter,    \* InterchainCounter / ReceiptCounter of each pair
  base,       \* history: a pair's counter when it started, or at the last reset
  failed,     \* history: pairs for which a query in the loops failed
  thrown,     \* history: what the pier received since then, per pair: an index,
              \* or Ghost
  resets,     \* history: times the chain was initialized
  raced       \* history: the last one hit the goroutine in the middle of a tick

chainVars == <<chain, stored, skipped>>
loopVars == <<seen, todo, cur, next, fetched>>
resetVars == <<resets, raced>>
vars == <<chainVars, ticking, tick, stopping, pc, loopVars, known, counter, base,
          failed, thrown, resetVars>>

Indices == 1 .. MaxIndex
Ghost   == 0    \* an empty message or receipt, or one the chain has no longer

TypeOK ==
  /\ chain \in [Pairs -> 0 .. MaxIndex]
  /\ stored \in [Pairs -> SUBSET Indices] /\ skipped \in [Pairs -> SUBSET Indices]
  /\ ticking \in BOOLEAN /\ tick \in BOOLEAN /\ stopping \in BOOLEAN
  /\ pc \in {"select", "inMeta", "pair", "first", "proofFirst", "throwFirst",
             "message", "proof", "throw", "hung", "stopped"}
  /\ seen \in [Pairs -> 0 .. MaxIndex]
  /\ todo \subseteq Pairs /\ cur \in Pairs
  /\ next \in 1 .. MaxIndex + 1 /\ fetched \in BOOLEAN
  /\ known \subseteq Sources
  /\ counter \in [Pairs -> 0 .. MaxIndex] /\ base \in [Pairs -> 0 .. MaxIndex]
  /\ failed \subseteq Pairs /\ thrown \in [Pairs -> Seq(Indices \union {Ghost})]
  /\ resets \in 0 .. MaxResets /\ raced \in BOOLEAN

Zeros  == [p \in Pairs |-> 0]
Nones  == [p \in Pairs |-> {}]
NoPair == CHOOSE p \in Pairs : TRUE     \* a local out of scope

(* Start: the plugin comes up, for the first time or after a crash, on a   *)
(* chain that may already have messages; it remembers nothing.             *)
Init ==
  /\ chain \in [Pairs -> 0 .. MaxIndex]
  /\ stored = [p \in Pairs |-> 1 .. chain[p]] /\ skipped = Nones
  /\ ticking = TRUE /\ tick = FALSE /\ stopping = FALSE
  /\ pc = "select"
  /\ seen = Zeros /\ todo = {} /\ cur = NoPair /\ next = 1
  /\ fetched = FALSE
  /\ known = {} /\ counter = Zeros /\ base = Zeros
  /\ failed = {} /\ thrown = [p \in Pairs |-> <<>>]
  /\ resets = 0 /\ raced = FALSE

-----------------------------------------------------------------------------

pluginVars == <<ticking, tick, stopping, pc, loopVars, known, counter, base,
                failed, thrown, resetVars>>

Count(p) ==
  /\ chain[p] < MaxIndex                                  \* bound
  /\ chain' = [chain EXCEPT ![p] = @ + 1]

Store(p, i) == stored' = [stored EXCEPT ![p] = @ \union {i}]

(* The chain counts and stores one more message, or one more receipt: of a *)
(* request it executed, or of a rollback that came before its message.     *)
Emit(p) ==
  /\ Count(p)
  /\ Store(p, chain[p] + 1)
  /\ UNCHANGED <<skipped, pluginVars>>

(* The admin moves the counter of incoming messages by hand: no receipt.   *)
InvokeIndexUpdate(p) ==
  /\ p \notin OutPairs /\ chain[p] + 1 \in Irregular        \* bound
  /\ Count(p)
  /\ skipped' = [skipped EXCEPT ![p] = @ \union ({chain[p] + 1} \ stored[p])]
  /\ UNCHANGED <<stored, pluginVars>>

(* A rollback stores a receipt and counts nothing, because its message was *)
(* counted already or is not the next one.  (The rollback counter, which   *)
(* keeps rollbacks in order, is in BrokerIn; here they come in any.)       *)
StoreReceipt(p, i) ==
  /\ p \notin OutPairs /\ i # chain[p] + 1
  /\ i \in Irregular                                       \* bound
  /\ Store(p, i)
  /\ UNCHANGED <<chain, skipped, pluginVars>>

(* The admin initializes the chain: its counters and messages start over,  *)
(* the plugin's memory does not.                                           *)
Reset ==
  /\ resets < MaxResets                                    \* bound
  /\ chain' = Zeros /\ stored' = Nones /\ skipped' = Nones
  /\ fetched' = FALSE
  /\ base' = counter /\ thrown' = [p \in Pairs |-> <<>>]
  /\ resets' = resets + 1 /\ raced' = (pc \notin {"select", "stopped"})
  /\ UNCHANGED <<ticking, tick, stopping, pc, seen, todo, cur, next, known,
                 counter, failed>>

(* The runtime drops a tick when the last one was not taken yet. *)
Tick ==
  /\ ticking /\ ~tick
  /\ tick' = TRUE
  /\ UNCHANGED <<chainVars, ticking, stopping, pc, loopVars, known, counter, base,
                 failed, thrown, resetVars>>

(* A tick is taken and the two maps are read, one after the other.  A pair *)
(* is in its map once it has a message.                                    *)
ReadMeta(pairs) ==
  /\ seen' = [p \in Pairs |-> IF p \in pairs THEN chain[p] ELSE seen[p]]
  /\ todo' = todo \union {p \in pairs : chain[p] > 0}

TakeTick ==
  /\ pc = "select" /\ tick
  /\ tick' = FALSE
  /\ ReadMeta(OutPairs)
  /\ pc' = "inMeta"
  /\ UNCHANGED <<chainVars, ticking, stopping, cur, next, fetched, known, counter,
                 base, failed, thrown, resetVars>>

ReadInMeta ==
  /\ pc = "inMeta"
  /\ ReadMeta(Pairs \ OutPairs)
  /\ pc' = "pair"
  /\ UNCHANGED <<chainVars, ticking, tick, stopping, cur, next, fetched, known,
                 counter, base, failed, thrown, resetVars>>

(* The tick is given up: one of the maps could not be read. *)
GiveUpTick ==
  /\ \/ pc = "select" /\ tick /\ tick' = FALSE
     \/ pc = "inMeta" /\ UNCHANGED tick
  /\ pc' = "select"
  /\ seen' = Zeros /\ todo' = {}
  /\ UNCHANGED <<chainVars, ticking, stopping, cur, next, fetched, known, counter,
                 base, failed, thrown, resetVars>>

(* Go iterates over a map in any order. *)
Reachable(p) == p \in todo /\ (p \in OutPairs \/ todo \intersect OutPairs = {})

(* The first pair of a source service not seen before: index 1 is thrown,  *)
(* anything above is taken for done.                                       *)
MeetSource(p) ==
  /\ pc = "pair" /\ Reachable(p) /\ SrcOf[p] \notin known
  /\ todo' = todo \ {p} /\ cur' = p
  /\ known' = known \union {SrcOf[p]}
  /\ IF seen[p] = 1
     THEN pc' = "first" /\ UNCHANGED <<counter, base>>
     ELSE /\ counter' = [counter EXCEPT ![p] = seen[p]]
          /\ base' = [base EXCEPT ![p] = seen[p]]
          /\ UNCHANGED pc
  /\ UNCHANGED <<chainVars, ticking, tick, stopping, seen, next, fetched, failed,
                 thrown, resetVars>>

(* Any other pair: on from its counter, zero for a new destination. *)
VisitPair(p) ==
  /\ pc = "pair" /\ Reachable(p) /\ SrcOf[p] \in known
  /\ todo' = todo \ {p} /\ cur' = p
  /\ next' = counter[p] + 1
  /\ pc' = "message"
  /\ UNCHANGED <<chainVars, ticking, tick, stopping, seen, fetched, known, counter,
                 base, failed, thrown, resetVars>>

EndOfLoop ==
  /\ pc = "pair" /\ todo = {}
  /\ pc' = "select"
  /\ seen' = Zeros /\ cur' = NoPair
  /\ UNCHANGED <<chainVars, ticking, tick, stopping, todo, next, fetched, known,
                 counter, base, failed, thrown, resetVars>>

(* getOutMessage and getInMessage answer for an index they have nothing    *)
(* for, too: with an empty message or receipt.                             *)
Fetch(i) == fetched' = (i \in stored[cur])

(* The query for message 1 of a new source: when it fails, the pair's      *)
(* counter stays unset and the next tick tries again.                      *)
QueryFirst ==
  /\ pc = "first"
  /\ \/ Fetch(1) /\ pc' = "proofFirst"
     \/ pc' = "pair" /\ UNCHANGED fetched
  /\ UNCHANGED <<chainVars, ticking, tick, stopping, seen, todo, cur, next, known,
                 counter, base, failed, thrown, resetVars>>

(* getProof asks the ledger for the query's transaction until it answers.  *)
GetProof ==
  \/ pc = "proofFirst" /\ pc' = "throwFirst"
  \/ pc = "proof" /\ pc' = "throw"

ProofArrives ==
  /\ GetProof
  /\ UNCHANGED <<chainVars, ticking, tick, stopping, loopVars, known, counter,
                 base, failed, thrown, resetVars>>

(* The ledger never answers for this transaction: getProof retries for     *)
(* ever.                                                                   *)
ProofNever ==
  /\ pc \in {"proofFirst", "proof"}
  /\ pc' = "hung"
  /\ UNCHANGED <<chainVars, ticking, tick, stopping, loopVars, known, counter,
                 base, failed, thrown, resetVars>>

Throw(i) ==
  thrown' = [thrown EXCEPT ![cur] = Append(@, IF fetched THEN i ELSE Ghost)]

(* The pier receives. *)
ThrowFirst ==
  /\ pc = "throwFirst"
  /\ Throw(1)
  /\ counter' = [counter EXCEPT ![cur] = seen[cur]]
  /\ pc' = "pair" /\ fetched' = FALSE
  /\ UNCHANGED <<chainVars, ticking, tick, stopping, seen, todo, cur, next, known,
                 base, failed, resetVars>>

(* Mutant of MoreMessages: the last message is left for later. *)
MoreMessagesButLast == next < seen[cur]

MoreMessages == next <= seen[cur]

(* The query for the message at next. *)
QueryMessage ==
  /\ pc = "message" /\ MoreMessages
  /\ Fetch(next) /\ pc' = "proof"
  /\ UNCHANGED <<chainVars, ticking, tick, stopping, seen, todo, cur, next, known,
                 counter, base, failed, thrown, resetVars>>

(* It fails: the loop goes on to the next index, the counter does not.     *)
QueryFails ==
  /\ pc = "message" /\ MoreMessages
  /\ cur \in Flaky                                        \* bound
  /\ next' = next + 1
  /\ failed' = failed \union {cur}
  /\ UNCHANGED <<chainVars, ticking, tick, stopping, pc, seen, todo, cur, fetched,
                 known, counter, base, thrown, resetVars>>

(* Mutants of CountMessage: twice, never, or as if all were thrown. *)
CountMessageTwice == counter' = [counter EXCEPT ![cur] = @ + 2]
CountMessageNever == UNCHANGED counter
CountMessageAll   == counter' = [counter EXCEPT ![cur] = seen[cur]]

CountMessage == counter' = [counter EXCEPT ![cur] = @ + 1]

(* The pier receives. *)
ThrowMessage ==
  /\ pc = "throw"
  /\ Throw(next)
  /\ CountMessage
  /\ next' = next + 1
  /\ pc' = "message" /\ fetched' = FALSE
  /\ UNCHANGED <<chainVars, ticking, tick, stopping, seen, todo, cur, known, base,
                 failed, resetVars>>

EndOfMessages ==
  /\ pc = "message" /\ ~MoreMessages
  /\ pc' = "pair"
  /\ next' = 1
  /\ UNCHANGED <<chainVars, ticking, tick, stopping, seen, todo, cur, fetched,
                 known, counter, base, failed, thrown, resetVars>>

(* Stop stops the ticker, then waits to hand over its signal. *)
Stop ==
  /\ ticking
  /\ ticking' = FALSE /\ stopping' = TRUE
  /\ UNCHANGED <<chainVars, tick, pc, loopVars, known, counter, base, failed,
                 thrown, resetVars>>

(* Mutant of TakeDone: the signal is taken only while the ticker runs. *)
TakeDoneTicking ==
  /\ pc = "select" /\ stopping /\ ticking
  /\ stopping' = FALSE /\ pc' = "stopped"
  /\ UNCHANGED <<chainVars, ticking, tick, loopVars, known, counter, base, failed,
                 thrown, resetVars>>

TakeDone ==
  /\ pc = "select" /\ stopping
  /\ stopping' = FALSE /\ pc' = "stopped"
  /\ UNCHANGED <<chainVars, ticking, tick, loopVars, known, counter, base, failed,
                 thrown, resetVars>>

Next ==
  \/ \E p \in Pairs : Emit(p) \/ InvokeIndexUpdate(p)
  \/ \E p \in Pairs, i \in Indices : StoreReceipt(p, i)
  \/ \E p \in Pairs : MeetSource(p) \/ VisitPair(p)
  \/ Reset \/ Tick \/ TakeTick \/ ReadInMeta \/ GiveUpTick \/ EndOfLoop
  \/ QueryFirst \/ ThrowFirst \/ ProofArrives \/ ProofNever
  \/ QueryMessage \/ QueryFails \/ ThrowMessage \/ EndOfMessages
  \/ Stop \/ TakeDone

(* The goroutine does not stand still where it need not wait, the ticker   *)
(* ticks, and the maps can be read again and again.  Nobody has to emit or *)
(* to stop, and the pier need not receive.                                 *)
Fairness ==
  /\ WF_vars(Tick)
  /\ SF_vars(TakeTick) /\ SF_vars(ReadInMeta)
  /\ WF_vars(ReadInMeta \/ GiveUpTick)
  /\ WF_vars(\E p \in Pairs : MeetSource(p) \/ VisitPair(p))
  /\ WF_vars(EndOfLoop) /\ WF_vars(QueryFirst)
  /\ WF_vars(QueryMessage \/ QueryFails) /\ WF_vars(EndOfMessages)
  /\ WF_vars(ProofArrives \/ ProofNever)
  /\ WF_vars(TakeDone)

Spec == Init /\ [][Next]_vars /\ Fairness

-----------------------------------------------------------------------------

(* A pair for which no query in the loops failed is thrown without a gap   *)
(* and without a repetition, from where its counter started, or stood when *)
(* the chain was initialized: whatever happens to the other pairs, to      *)
(* their first queries, and however the chain moves between two ticks.     *)
(* The pier is handed an empty message in an index's place only after an   *)
(* initialize that came between reading the counters and reading the       *)
(* messages, or for an incoming index that was counted by an index update  *)
(* while it had no receipt.                                                *)
InOrder ==
  \A p \in Pairs \ failed :
    \A k \in DOMAIN thrown[p] :
      \/ thrown[p][k] = base[p] + k
      \/ thrown[p][k] = Ghost /\ (raced \/ base[p] + k \in skipped[p])

(* The counter is the number of messages thrown since it started, even of  *)
(* a pair whose queries fail: a failure makes the pier see a gap and, on   *)
(* the next tick, a repetition, but nothing with an index that the chain   *)
(* has no message or receipt for.  The counter runs ahead of the chain     *)
(* only after an initialize, and then nothing of the chain is thrown until *)
(* it has caught up.                                                       *)
CounterHonest ==
  \A p \in Pairs :
    /\ counter[p] = base[p] + Len(thrown[p])
    /\ (counter[p] > chain[p] /\ ~raced) => (resets > 0 /\ thrown[p] = <<>>)
    /\ \A k \in DOMAIN thrown[p] : thrown[p][k] \in stored[p] \union {Ghost}

Running == ticking /\ pc # "hung"

(* The pier does not receive what the goroutine holds out to it.           *)
Blocked == pc \in {"throwFirst", "throw"}

(* Every message of a pair whose source is known, above the index its      *)
(* counter started from, or stood at when the chain was initialized, is    *)
(* thrown (or its place was taken by an empty one), as long as the plugin  *)
(* runs, every proof comes in the end, no query of the pair failed, and    *)
(* the pier does not leave the goroutine waiting for ever.                 *)
NothingLost ==
  \A p \in Pairs, i \in Indices :
    \/ (SrcOf[p] \in known /\ base[p] < i /\ i <= chain[p])
         ~> (\/ Len(thrown[p]) >= i - base[p]
             \/ chain[p] < i \/ p \in failed \/ ~Running)
    \/ <>[]Blocked

(* Stop returns: the goroutine comes back to the select and takes the      *)
(* signal, however much it still has to throw.  Only two things can keep   *)
(* it away for ever: a proof that never comes, and a pier that stops       *)
(* receiving before it calls Stop.                                         *)
StopReturns == (stopping ~> ~stopping) \/ <>[](Blocked \/ pc = "hung")
=============================================================================
