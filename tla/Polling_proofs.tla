--------------------------- MODULE Polling_proofs ---------------------------
(***************************************************************************)
(* Proofs about the polling goroutine, for any pairs, sources, message     *)
(* bound, failing queries and number of initializations of the chain.      *)
(* PInv adds to the invariants that are model-checked what the goroutine's *)
(* locals say of the chain and of its memory at each program point.        *)
(***************************************************************************)
EXTENDS Polling, TLAPS

USE OutPairsAssumption, FlakyAssumption, IrregularAssumption, MaxIndexAssumption,
    MaxResetsAssumption

(* An index the chain counted has a message or a receipt, unless an index  *)
(* update counted it.                                                      *)
Covered ==
  \A p \in Pairs, i \in Indices :
    i <= chain[p] => i \in stored[p] \union skipped[p]

(* The counters read on this tick are the chain's, or older, unless an     *)
(* initialize came in between; outside a tick none are remembered.         *)
SeenBacked ==
  /\ pc \in {"select", "stopped"} => \A p \in Pairs : seen[p] = 0
  /\ ~raced => \A p \in Pairs : seen[p] <= chain[p]

(* Nothing was counted for a source that was not met. *)
Unmet == \A p \in Pairs : SrcOf[p] \notin known => counter[p] = 0

(* In the branch for message 1 of a new source. *)
AtFirst ==
  pc \in {"first", "proofFirst", "throwFirst"} =>
    seen[cur] = 1 /\ counter[cur] = 0 /\ SrcOf[cur] \in known

(* In the loop over the indices: it runs ahead of the counter exactly when *)
(* a query failed.                                                         *)
AtMessage ==
  pc \in {"message", "proof", "throw"} =>
    /\ SrcOf[cur] \in known
    /\ counter[cur] < next
    /\ cur \notin failed => next = counter[cur] + 1

(* With a message in hand: it is the chain's when it says so, and it does  *)
(* unless an initialize came in between or an index update skipped it.     *)
InHand ==
  /\ pc \in {"proof", "throw"} =>
       /\ next <= seen[cur]
       /\ fetched => next \in stored[cur]
       /\ ~raced => fetched \/ next \in skipped[cur]
  /\ pc \in {"proofFirst", "throwFirst"} =>
       /\ fetched => 1 \in stored[cur]
       /\ ~raced => fetched \/ 1 \in skipped[cur]

PInv ==
  /\ TypeOK
  /\ Covered
  /\ SeenBacked
  /\ Unmet
  /\ AtFirst
  /\ AtMessage
  /\ InHand
  /\ InOrder
  /\ CounterHonest

-----------------------------------------------------------------------------

(* A pair whose counter is zero has thrown nothing. *)
LEMMA NothingThrown ==
  ASSUME PInv, NEW p \in Pairs, counter[p] = 0
  PROVE  base[p] = 0 /\ thrown[p] = <<>>
  <1>1. /\ thrown[p] \in Seq(Indices \union {Ghost})
        /\ base[p] \in Nat
        /\ counter[p] = base[p] + Len(thrown[p])
    BY DEF PInv, TypeOK, CounterHonest
  <1>2. Len(thrown[p]) \in Nat
    BY <1>1
  <1>3. base[p] = 0 /\ Len(thrown[p]) = 0
    BY <1>1, <1>2
  <1> QED BY <1>1, <1>3

(* What the pier received stays in order while nothing is thrown, whatever *)
(* the chain emits and whichever queries fail.                             *)
LEMMA ThrownKept ==
  ASSUME PInv, TypeOK', UNCHANGED <<counter, base, thrown, resets, raced>>,
         failed \subseteq failed',
         \A p \in Pairs : /\ chain[p] <= chain'[p]
                          /\ stored[p] \subseteq stored'[p]
                          /\ skipped[p] \subseteq skipped'[p]
  PROVE  InOrder' /\ CounterHonest'
  <1>1. InOrder'
    BY DEF PInv, InOrder
  <1>2. CounterHonest'
    <2> SUFFICES ASSUME NEW p \in Pairs
                 PROVE  /\ counter[p] = base[p] + Len(thrown[p])
                        /\ (counter[p] > chain'[p] /\ ~raced) =>
                              resets > 0 /\ thrown[p] = <<>>
                        /\ \A k \in DOMAIN thrown[p] :
                             thrown[p][k] \in stored'[p] \union {Ghost}
      BY DEF CounterHonest
    <2>1. /\ counter[p] \in Nat /\ chain[p] \in Nat /\ chain'[p] \in Nat
          /\ chain[p] <= chain'[p] /\ stored[p] \subseteq stored'[p]
      BY DEF PInv, TypeOK
    <2> QED BY <2>1 DEF PInv, CounterHonest
  <1> QED BY <1>1, <1>2

(* Throwing one more message of the current pair. *)
LEMMA ThrownOne ==
  ASSUME PInv, NEW i \in Indices, Throw(i),
         counter' = [counter EXCEPT ![cur] = @ + 1],
         UNCHANGED <<chainVars, base, failed, resets, raced>>,
         counter[cur] < i, cur \notin failed => i = counter[cur] + 1,
         raced \/ counter[cur] < chain[cur],
         fetched => i \in stored[cur], ~raced => fetched \/ i \in skipped[cur]
  PROVE  InOrder' /\ CounterHonest'
  <1> DEFINE v == IF fetched THEN i ELSE Ghost
             old == thrown[cur]
             new == thrown'[cur]
  <1>0. /\ cur \in Pairs /\ i \in Nat /\ i >= 1
        /\ thrown \in [Pairs -> Seq(Indices \union {Ghost})]
        /\ counter \in [Pairs -> 0 .. MaxIndex]
        /\ counter[cur] \in Nat /\ base[cur] \in Nat /\ chain[cur] \in Nat
        /\ counter[cur] = base[cur] + Len(old)
    BY DEF PInv, TypeOK, CounterHonest, Indices
  <1>1. /\ new = Append(old, v)
        /\ counter'[cur] = counter[cur] + 1
        /\ old \in Seq(Indices \union {Ghost})
        /\ v \in Indices \union {Ghost}
    BY <1>0 DEF Throw
  <1>2. \A q \in Pairs \ {cur} : thrown'[q] = thrown[q] /\ counter'[q] = counter[q]
    BY <1>0 DEF Throw
  <1>3. /\ Len(old) \in Nat /\ Len(new) = Len(old) + 1
        /\ DOMAIN new = 1 .. Len(old) + 1 /\ DOMAIN old = 1 .. Len(old)
        /\ new[Len(old) + 1] = v
        /\ \A k \in 1 .. Len(old) : new[k] = old[k]
    BY <1>1
  <1>4. /\ v \in stored[cur] \union {Ghost}
        /\ v = i \/ (v = Ghost /\ (raced \/ i \in skipped[cur]))
    OBVIOUS
  <1>5. cur \notin failed => i = base[cur] + (Len(old) + 1)
    <2>1. cur \notin failed => i = counter[cur] + 1
      OBVIOUS
    <2>2. counter[cur] = base[cur] + Len(old) /\ Len(old) \in Nat /\ base[cur] \in Nat
      BY <1>0, <1>3
    <2> HIDE DEF old
    <2> QED BY <2>1, <2>2
  <1> HIDE DEF v, old, new
  <1>6. cur \notin failed =>
          \A k \in DOMAIN new :
            \/ new[k] = base[cur] + k
            \/ new[k] = Ghost /\ (raced \/ base[cur] + k \in skipped[cur])
    <2> SUFFICES ASSUME cur \notin failed, NEW k \in 1 .. Len(old) + 1
                 PROVE  \/ new[k] = base[cur] + k
                        \/ new[k] = Ghost /\ (raced \/ base[cur] + k \in skipped[cur])
      BY <1>3
    <2>1. CASE k = Len(old) + 1
      BY <1>3, <1>4, <1>5, <2>1
    <2>2. CASE k \in 1 .. Len(old)
      BY <1>0, <1>3, <2>2 DEF PInv, InOrder, old
    <2> QED BY <1>3, <2>1, <2>2
  <1>7. InOrder'
    BY <1>2, <1>6 DEF PInv, InOrder, new, chainVars
  <1>8. \A k \in DOMAIN new : new[k] \in stored[cur] \union {Ghost}
    <2> SUFFICES ASSUME NEW k \in 1 .. Len(old) + 1
                 PROVE  new[k] \in stored[cur] \union {Ghost}
      BY <1>3
    <2>1. CASE k = Len(old) + 1
      BY <1>3, <1>4, <2>1
    <2>2. CASE k \in 1 .. Len(old)
      BY <1>0, <1>3, <2>2 DEF PInv, CounterHonest, old
    <2> QED BY <1>3, <2>1, <2>2
  <1>9. counter'[cur] = base[cur] + Len(new)
    BY <1>0, <1>1, <1>3
  <1>10. ~(counter'[cur] > chain[cur] /\ ~raced)
    BY <1>0, <1>1
  <1>11. CounterHonest'
    BY <1>2, <1>8, <1>9, <1>10 DEF PInv, CounterHonest, new, chainVars
  <1> QED BY <1>7, <1>11

-----------------------------------------------------------------------------

(* The plugin comes up. *)
LEMMA InitInv == Pairs # {} /\ Init => PInv
  <1> SUFFICES ASSUME Pairs # {}, Init PROVE PInv
    OBVIOUS
  <1> USE DEF Init, Zeros, Nones
  <1>0. NoPair \in Pairs
    BY DEF NoPair
  <1>1. TypeOK
    <2>1. <<>> \in Seq(Indices \union {Ghost})
      OBVIOUS
    <2>2. counter \in [Pairs -> 0 .. MaxIndex] /\ thrown \in [Pairs -> Seq(Indices \union {Ghost})]
      BY <2>1
    <2>3. known \subseteq Sources /\ failed \subseteq Pairs /\ resets \in 0 .. MaxResets
      OBVIOUS
    <2>4. pc = "select" /\ next \in 1 .. MaxIndex + 1 /\ cur \in Pairs /\ todo \subseteq Pairs
      BY <1>0
    <2>5. /\ ticking \in BOOLEAN /\ tick \in BOOLEAN /\ stopping \in BOOLEAN
          /\ fetched \in BOOLEAN /\ raced \in BOOLEAN
      OBVIOUS
    <2>7. /\ stored \in [Pairs -> SUBSET Indices]
          /\ skipped \in [Pairs -> SUBSET Indices]
      BY DEF Indices
    <2>6. /\ chain \in [Pairs -> 0 .. MaxIndex] /\ seen \in [Pairs -> 0 .. MaxIndex]
          /\ base \in [Pairs -> 0 .. MaxIndex]
      OBVIOUS
    <2> HIDE DEF Init
    <2> QED BY <2>2, <2>3, <2>4, <2>5, <2>6, <2>7 DEF TypeOK
  <1>2. SeenBacked /\ Unmet /\ Covered
    BY DEF SeenBacked, Unmet, Covered, Indices
  <1>3. AtFirst /\ AtMessage /\ InHand
    BY DEF AtFirst, AtMessage, InHand
  <1>4. Len(<<>>) = 0 /\ DOMAIN <<>> = {}
    OBVIOUS
  <1>5. InOrder
    BY <1>4 DEF InOrder
  <1>6. CounterHonest
    <2> SUFFICES ASSUME NEW p \in Pairs
                 PROVE  /\ counter[p] = base[p] + Len(thrown[p])
                        /\ ~(counter[p] > chain[p])
                        /\ DOMAIN thrown[p] = {}
      BY DEF CounterHonest
    <2>1. counter[p] = 0 /\ base[p] = 0 /\ thrown[p] = <<>> /\ chain[p] \in Nat
      OBVIOUS
    <2> QED BY <1>4, <2>1
  <1> QED BY <1>1, <1>2, <1>3, <1>5, <1>6 DEF PInv

(* The chain goes on: it counts, stores, or both. *)
LEMMA ChainInv ==
  ASSUME PInv, UNCHANGED pluginVars,
         chain' \in [Pairs -> 0 .. MaxIndex],
         stored' \in [Pairs -> SUBSET Indices], skipped' \in [Pairs -> SUBSET Indices],
         \A q \in Pairs :
           /\ chain[q] <= chain'[q]
           /\ stored[q] \subseteq stored'[q] /\ skipped[q] \subseteq skipped'[q]
           /\ \A i \in Indices :
                (chain[q] < i /\ i <= chain'[q]) => i \in stored'[q] \union skipped'[q]
  PROVE  PInv'
  <1> USE DEF pluginVars, loopVars, resetVars
  <1>1. TypeOK'
    BY DEF PInv, TypeOK
  <1>2. InOrder' /\ CounterHonest'
    BY <1>1, ThrownKept
  <1>3. SeenBacked'
    BY <1>1 DEF PInv, TypeOK, SeenBacked
  <1>4. Unmet' /\ AtFirst' /\ AtMessage'
    BY DEF PInv, Unmet, AtFirst, AtMessage
  <1>5. InHand'
    <2>1. cur \in Pairs /\ UNCHANGED <<pc, next, seen, cur, fetched, raced>>
      BY DEF PInv, TypeOK
    <2>2. stored[cur] \subseteq stored'[cur] /\ skipped[cur] \subseteq skipped'[cur]
      BY <2>1
    <2> QED BY <2>1, <2>2 DEF PInv, InHand
  <1>6. Covered'
    <2> SUFFICES ASSUME NEW q \in Pairs, NEW i \in Indices, i <= chain'[q]
                 PROVE  i \in stored'[q] \union skipped'[q]
      BY DEF Covered
    <2>1. i \in Nat /\ chain[q] \in Nat
      BY DEF PInv, TypeOK, Indices
    <2>2. CASE i <= chain[q]
      BY <2>2 DEF PInv, Covered
    <2>3. CASE chain[q] < i
      BY <2>3
    <2> QED BY <2>1, <2>2, <2>3
  <1> QED BY <1>1, <1>2, <1>3, <1>4, <1>5, <1>6 DEF PInv

LEMMA ChainMovesInv ==
  ASSUME PInv, NEW p \in Pairs,
         \/ Emit(p) \/ InvokeIndexUpdate(p)
         \/ \E i \in Indices : StoreReceipt(p, i)
  PROVE  PInv'
  <1>0. /\ chain \in [Pairs -> 0 .. MaxIndex]
        /\ stored \in [Pairs -> SUBSET Indices] /\ skipped \in [Pairs -> SUBSET Indices]
    BY DEF PInv, TypeOK
  <1>1. CASE Emit(p)
    <2>1. /\ chain[p] < MaxIndex /\ chain' = [chain EXCEPT ![p] = @ + 1]
          /\ stored' = [stored EXCEPT ![p] = @ \union {chain[p] + 1}]
          /\ UNCHANGED <<skipped, pluginVars>>
      BY <1>1 DEF Emit, Count, Store
    <2>2. chain[p] + 1 \in Indices /\ chain' \in [Pairs -> 0 .. MaxIndex]
      BY <1>0, <2>1 DEF Indices
    <2>3. stored' \in [Pairs -> SUBSET Indices]
      BY <1>0, <2>1, <2>2
    <2>4. ASSUME NEW q \in Pairs
          PROVE  /\ chain[q] <= chain'[q]
                 /\ stored[q] \subseteq stored'[q] /\ skipped[q] \subseteq skipped'[q]
                 /\ \A i \in Indices :
                      (chain[q] < i /\ i <= chain'[q]) => i \in stored'[q] \union skipped'[q]
      BY <1>0, <2>1 DEF Indices
    <2> QED BY <1>0, <2>1, <2>2, <2>3, <2>4, ChainInv
  <1>2. CASE InvokeIndexUpdate(p)
    <2>1. /\ chain[p] < MaxIndex /\ chain' = [chain EXCEPT ![p] = @ + 1]
          /\ skipped' = [skipped EXCEPT ![p] = @ \union ({chain[p] + 1} \ stored[p])]
          /\ UNCHANGED <<stored, pluginVars>>
      BY <1>2 DEF InvokeIndexUpdate, Count
    <2>2. chain[p] + 1 \in Indices /\ chain' \in [Pairs -> 0 .. MaxIndex]
      BY <1>0, <2>1 DEF Indices
    <2>3. skipped' \in [Pairs -> SUBSET Indices]
      BY <1>0, <2>1, <2>2
    <2>4. ASSUME NEW q \in Pairs
          PROVE  /\ chain[q] <= chain'[q]
                 /\ stored[q] \subseteq stored'[q] /\ skipped[q] \subseteq skipped'[q]
                 /\ \A i \in Indices :
                      (chain[q] < i /\ i <= chain'[q]) => i \in stored'[q] \union skipped'[q]
      BY <1>0, <2>1 DEF Indices
    <2> QED BY <1>0, <2>1, <2>2, <2>3, <2>4, ChainInv
  <1>3. ASSUME NEW i \in Indices, StoreReceipt(p, i) PROVE PInv'
    <2>1. /\ stored' = [stored EXCEPT ![p] = @ \union {i}]
          /\ UNCHANGED <<chain, skipped, pluginVars>>
      BY <1>3 DEF StoreReceipt, Store
    <2>2. stored' \in [Pairs -> SUBSET Indices]
      BY <1>0, <2>1
    <2>3. ASSUME NEW q \in Pairs
          PROVE  /\ chain[q] <= chain'[q]
                 /\ stored[q] \subseteq stored'[q] /\ skipped[q] \subseteq skipped'[q]
                 /\ \A j \in Indices :
                      (chain[q] < j /\ j <= chain'[q]) => j \in stored'[q] \union skipped'[q]
      BY <1>0, <2>1 DEF Indices
    <2> QED BY <1>0, <2>1, <2>2, <2>3, ChainInv
  <1> QED BY <1>1, <1>2, <1>3

(* An initialize empties the chain; whatever the goroutine has in hand in  *)
(* the middle of a tick is not the chain's any more.                       *)
LEMMA ResetInv ==
  ASSUME PInv, Reset
  PROVE  PInv'
  <1> USE DEF Reset, Zeros, Nones
  <1>0. <<>> \in Seq(Indices \union {Ghost}) /\ Len(<<>>) = 0 /\ DOMAIN <<>> = {}
    OBVIOUS
  <1>a. /\ raced' \in BOOLEAN
        /\ pc \in {"select", "stopped"} \/ raced'
    OBVIOUS
  <1>1. TypeOK'
    <2>1. resets' \in 0 .. MaxResets
      BY DEF PInv, TypeOK
    <2>2. /\ chain' \in [Pairs -> 0 .. MaxIndex] /\ base' \in [Pairs -> 0 .. MaxIndex]
          /\ stored' \in [Pairs -> SUBSET Indices] /\ skipped' \in [Pairs -> SUBSET Indices]
          /\ thrown' \in [Pairs -> Seq(Indices \union {Ghost})]
      BY <1>0 DEF PInv, TypeOK
    <2> QED BY <1>a, <2>1, <2>2 DEF PInv, TypeOK
  <1>2. SeenBacked'
    <2>1. CASE pc \in {"select", "stopped"}
      BY <2>1 DEF PInv, TypeOK, SeenBacked
    <2>2. CASE raced' /\ pc \notin {"select", "stopped"}
      BY <2>2 DEF SeenBacked
    <2> QED BY <1>a, <2>1, <2>2
  <1>3. Unmet' /\ AtFirst' /\ AtMessage'
    BY DEF PInv, Unmet, AtFirst, AtMessage
  <1>4. InHand'
    BY DEF PInv, InHand
  <1>7. Covered'
    BY DEF Covered, Indices
  <1>5. InOrder'
    BY <1>0 DEF InOrder
  <1>6. CounterHonest'
    <2> SUFFICES ASSUME NEW p \in Pairs
                 PROVE  /\ counter'[p] = base'[p] + Len(thrown'[p])
                        /\ resets' > 0 /\ thrown'[p] = <<>> /\ DOMAIN thrown'[p] = {}
      BY DEF CounterHonest
    <2> QED BY <1>0 DEF PInv, TypeOK
  <1> QED BY <1>1, <1>2, <1>3, <1>4, <1>5, <1>6, <1>7 DEF PInv

(* Steps that move the goroutine, the ticker or the signal and nothing     *)
(* that was read or counted.                                               *)
LEMMA QuietInv ==
  ASSUME PInv, Tick \/ Stop \/ TakeDone \/ ProofArrives \/ ProofNever
  PROVE  PInv'
  <1>1. UNCHANGED <<chainVars, loopVars, known, counter, base, failed, thrown, resetVars>>
    BY DEF Tick, Stop, TakeDone, ProofArrives, ProofNever
  <1>2. \/ pc' = pc
        \/ pc = "select" /\ pc' = "stopped"
        \/ pc = "proofFirst" /\ pc' = "throwFirst"
        \/ pc = "proof" /\ pc' = "throw"
        \/ pc' = "hung"
    BY DEF Tick, Stop, TakeDone, ProofArrives, ProofNever, GetProof
  <1>3. tick' \in BOOLEAN /\ ticking' \in BOOLEAN /\ stopping' \in BOOLEAN
    BY DEF PInv, TypeOK, Tick, Stop, TakeDone, ProofArrives, ProofNever
  <1> USE DEF chainVars, loopVars, resetVars
  <1>4. TypeOK'
    BY <1>1, <1>2, <1>3 DEF PInv, TypeOK
  <1>5. InOrder' /\ CounterHonest'
    <2>1. \A p \in Pairs : chain[p] <= chain'[p]
      BY <1>1 DEF PInv, TypeOK, chainVars
    <2>2. stored' = stored /\ skipped' = skipped
      BY <1>1 DEF chainVars
    <2> QED BY <1>1, <1>4, <2>1, <2>2, ThrownKept
  <1>6. SeenBacked' /\ Unmet' /\ Covered'
    BY <1>1, <1>2 DEF PInv, SeenBacked, Unmet, Covered
  <1>7. AtFirst' /\ AtMessage' /\ InHand'
    BY <1>1, <1>2 DEF PInv, AtFirst, AtMessage, InHand
  <1> QED BY <1>4, <1>5, <1>6, <1>7 DEF PInv

(* Taking the tick, reading the maps, giving the tick up and ending it.    *)
LEMMA TickInv ==
  ASSUME Pairs # {}, PInv, TakeTick \/ ReadInMeta \/ GiveUpTick \/ EndOfLoop
  PROVE  PInv'
  <1>1. /\ UNCHANGED <<chainVars, next, fetched, known, counter, base, failed, thrown,
                       ticking, stopping, resets, raced>>
        /\ cur' \in Pairs
    <2>1. NoPair \in Pairs
      BY DEF NoPair
    <2> QED BY <2>1 DEF PInv, TypeOK, TakeTick, ReadInMeta, GiveUpTick, EndOfLoop,
            resetVars
  <1>2. /\ pc' \in {"select", "inMeta", "pair"}
        /\ tick' \in BOOLEAN
        /\ todo' \subseteq Pairs
    BY DEF PInv, TypeOK, TakeTick, ReadInMeta, GiveUpTick, EndOfLoop, ReadMeta
  <1>3. /\ seen' \in [Pairs -> 0 .. MaxIndex]
        /\ pc' = "select" => \A p \in Pairs : seen'[p] = 0
        /\ ~raced => \A p \in Pairs : seen'[p] <= chain[p]
    <2>1. CASE TakeTick \/ ReadInMeta
      <3>1. PICK pairs \in SUBSET Pairs :
              seen' = [p \in Pairs |-> IF p \in pairs THEN chain[p] ELSE seen[p]]
        BY <2>1 DEF TakeTick, ReadInMeta, ReadMeta
      <3>2. pc' \in {"inMeta", "pair"}
        BY <2>1 DEF TakeTick, ReadInMeta
      <3>3. /\ seen \in [Pairs -> 0 .. MaxIndex] /\ chain \in [Pairs -> 0 .. MaxIndex]
            /\ ~raced => \A p \in Pairs : seen[p] <= chain[p]
        BY DEF PInv, TypeOK, SeenBacked
      <3> QED BY <3>1, <3>2, <3>3
    <2>2. CASE GiveUpTick \/ EndOfLoop
      BY <2>2 DEF PInv, TypeOK, GiveUpTick, EndOfLoop, Zeros
    <2> QED BY <2>1, <2>2
  <1>4. TypeOK'
    BY <1>1, <1>2, <1>3 DEF PInv, TypeOK, chainVars
  <1>5. InOrder' /\ CounterHonest'
    <2>1. \A p \in Pairs : chain[p] <= chain'[p]
      BY <1>1 DEF PInv, TypeOK, chainVars
    <2>2. stored' = stored /\ skipped' = skipped
      BY <1>1 DEF chainVars
    <2> QED BY <1>1, <1>4, <2>1, <2>2, ThrownKept
  <1>6. SeenBacked' /\ Unmet' /\ Covered'
    BY <1>1, <1>2, <1>3 DEF PInv, SeenBacked, Unmet, Covered, chainVars
  <1>7. AtFirst' /\ AtMessage' /\ InHand'
    BY <1>2 DEF AtFirst, AtMessage, InHand
  <1> QED BY <1>4, <1>5, <1>6, <1>7 DEF PInv

-----------------------------------------------------------------------------

(* A pair of a new source: nothing of it was thrown, so that its counter   *)
(* may start anywhere.                                                     *)
LEMMA MeetSourceInv ==
  ASSUME PInv, NEW p \in Pairs, MeetSource(p)
  PROVE  PInv'
  <1> USE DEF MeetSource, resetVars, chainVars
  <1>1. counter[p] = 0 /\ base[p] = 0 /\ thrown[p] = <<>>
    <2>1. counter[p] = 0
      BY DEF PInv, Unmet
    <2> HIDE DEF MeetSource
    <2> QED BY <2>1, NothingThrown
  <1>2. \/ seen[p] = 1 /\ pc' = "first" /\ UNCHANGED <<counter, base>>
        \/ /\ pc' = "pair"
           /\ counter' = [counter EXCEPT ![p] = seen[p]]
           /\ base' = [base EXCEPT ![p] = seen[p]]
    OBVIOUS
  <1>3. /\ UNCHANGED <<chain, stored, skipped, ticking, tick, stopping, seen, next,
                       fetched, failed, thrown, resets, raced>>
        /\ todo' = todo \ {p} /\ cur' = p /\ known' = known \union {SrcOf[p]}
    OBVIOUS
  <1> HIDE DEF MeetSource
  <1>4. TypeOK'
    <2>1. counter' \in [Pairs -> 0 .. MaxIndex] /\ base' \in [Pairs -> 0 .. MaxIndex]
      BY <1>2, <1>3 DEF PInv, TypeOK
    <2>2. known' \subseteq Sources
      BY <1>3 DEF PInv, TypeOK, Sources
    <2>3. pc' \in {"pair", "first"} /\ todo' \subseteq Pairs /\ cur' \in Pairs
      BY <1>2, <1>3 DEF PInv, TypeOK
    <2> QED BY <1>3, <2>1, <2>2, <2>3 DEF PInv, TypeOK
  <1>5. /\ \A q \in Pairs \ {p} : counter'[q] = counter[q] /\ base'[q] = base[q]
        /\ counter'[p] = base'[p]
        /\ counter'[p] = 0 \/ counter'[p] = seen[p]
    BY <1>1, <1>2 DEF PInv, TypeOK
  <1>6. Len(<<>>) = 0 /\ DOMAIN <<>> = {}
    OBVIOUS
  <1>7. InOrder'
    BY <1>1, <1>3, <1>5, <1>6 DEF PInv, InOrder
  <1>8. CounterHonest'
    <2>1. ~(counter'[p] > chain[p] /\ ~raced)
      BY <1>5 DEF PInv, TypeOK, SeenBacked
    <2>2. counter'[p] = base'[p] + 0
      BY <1>4, <1>5 DEF TypeOK
    <2> QED BY <1>1, <1>3, <1>5, <1>6, <2>1, <2>2 DEF PInv, CounterHonest
  <1>9. SeenBacked' /\ Covered'
    BY <1>2, <1>3 DEF PInv, SeenBacked, Covered
  <1>10. Unmet'
    BY <1>3, <1>5 DEF PInv, Unmet
  <1>11. AtFirst' /\ AtMessage' /\ InHand'
    BY <1>1, <1>2, <1>3 DEF AtFirst, AtMessage, InHand
  <1> QED BY <1>4, <1>7, <1>8, <1>9, <1>10, <1>11 DEF PInv

(* Steps of the loops that neither count nor throw. *)
LEMMA LoopInv ==
  ASSUME PInv, \/ \E p \in Pairs : VisitPair(p)
               \/ QueryFirst \/ QueryMessage \/ QueryFails \/ EndOfMessages
  PROVE  PInv'
  <1>1. /\ UNCHANGED <<chain, stored, skipped, ticking, tick, stopping, seen, known,
                       counter, base, thrown, resets, raced>>
        /\ failed \subseteq failed'
    BY DEF VisitPair, QueryFirst, QueryMessage, QueryFails, EndOfMessages,
       resetVars, chainVars
  <1>2. TypeOK'
    <2>1. /\ pc' \in {"pair", "message", "proofFirst", "proof"}
          /\ todo' \subseteq Pairs /\ cur' \in Pairs
      BY DEF PInv, TypeOK, VisitPair, QueryFirst, QueryMessage, QueryFails,
         EndOfMessages
    <2>a. fetched' \in BOOLEAN
      <3>1. fetched' = fetched \/ \E i : fetched' = (i \in stored[cur])
        BY DEF VisitPair, QueryFirst, QueryMessage, QueryFails, EndOfMessages, Fetch
      <3>2. fetched \in BOOLEAN
        BY DEF PInv, TypeOK
      <3>3. ASSUME NEW i, fetched' = (i \in stored[cur]) PROVE fetched' \in BOOLEAN
        <4>1. (i \in stored[cur]) \in BOOLEAN
          OBVIOUS
        <4> QED BY <3>3, <4>1, Zenon
      <3> QED BY <3>1, <3>2, <3>3, Zenon
    <2>2. next' \in 1 .. MaxIndex + 1
      BY DEF PInv, TypeOK, VisitPair, QueryFirst, QueryMessage, QueryFails,
         EndOfMessages, MoreMessages
    <2>3. failed' \subseteq Pairs
      BY DEF PInv, TypeOK, VisitPair, QueryFirst, QueryMessage, QueryFails, EndOfMessages
    <2> QED BY <1>1, <2>1, <2>a, <2>2, <2>3 DEF PInv, TypeOK
  <1>3. InOrder' /\ CounterHonest'
    <2>1. \A p \in Pairs : chain[p] <= chain'[p]
      BY <1>1 DEF PInv, TypeOK, chainVars
    <2>2. stored' = stored /\ skipped' = skipped
      BY <1>1 DEF chainVars
    <2> QED BY <1>1, <1>2, <2>1, <2>2, ThrownKept
  <1>4. SeenBacked' /\ Unmet' /\ Covered'
    BY <1>1 DEF PInv, SeenBacked, Unmet, Covered, VisitPair, QueryFirst, QueryMessage, QueryFails,
       EndOfMessages
  <1>5. AtFirst' /\ AtMessage' /\ InHand'
    <2>1. ASSUME NEW p \in Pairs, VisitPair(p)
          PROVE  AtFirst' /\ AtMessage' /\ InHand'
      BY <2>1 DEF VisitPair, PInv, TypeOK, AtFirst, AtMessage, InHand
    <2>2. CASE QueryFirst
      <3>1. /\ pc' \in {"proofFirst", "pair"} /\ cur' = cur /\ seen[cur] = 1
            /\ pc' = "proofFirst" => (fetched' <=> 1 \in stored[cur])
            /\ counter[cur] = 0 /\ SrcOf[cur] \in known
        BY <2>2 DEF QueryFirst, Fetch, PInv, AtFirst
      <3>2. 1 \in Indices /\ (~raced => 1 <= chain[cur])
        BY <3>1 DEF PInv, TypeOK, SeenBacked, Indices
      <3>3. ~raced => 1 \in stored[cur] \union skipped[cur]
        BY <3>2 DEF PInv, TypeOK, Covered
      <3> QED BY <1>1, <3>1, <3>3 DEF AtFirst, AtMessage, InHand
    <2>3. CASE QueryMessage
      <3>1. /\ pc' = "proof" /\ cur' = cur /\ next' = next /\ next <= seen[cur]
            /\ fetched' <=> next \in stored[cur]
            /\ ~raced => seen[cur] <= chain[cur]
        BY <2>3 DEF QueryMessage, MoreMessages, Fetch, PInv, TypeOK, SeenBacked
      <3>2. /\ next \in Indices /\ next \in Nat
            /\ seen[cur] \in Nat /\ chain[cur] \in Nat
        BY <3>1 DEF PInv, TypeOK, Indices
      <3>3. ~raced => next \in stored[cur] \union skipped[cur]
        BY <3>1, <3>2 DEF PInv, TypeOK, Covered
      <3>4. InHand'
        BY <1>1, <3>1, <3>3 DEF InHand
      <3>5. AtFirst' /\ AtMessage'
        BY <1>1, <2>3, <3>1 DEF QueryMessage, PInv, AtFirst, AtMessage
      <3> QED BY <3>4, <3>5
    <2>4. CASE QueryFails
      BY <2>4 DEF QueryFails, PInv, TypeOK, AtFirst, AtMessage, InHand
    <2>5. CASE EndOfMessages
      BY <2>5 DEF EndOfMessages, AtFirst, AtMessage, InHand
    <2> QED BY <2>1, <2>2, <2>3, <2>4, <2>5
  <1> QED BY <1>2, <1>3, <1>4, <1>5 DEF PInv

(* The pier receives message 1 of a new source, or the next one of a pair. *)
LEMMA ThrowInv ==
  ASSUME PInv, ThrowFirst \/ ThrowMessage
  PROVE  PInv'
  <1>1. PICK i \in Indices :
          /\ Throw(i)
          /\ counter' = [counter EXCEPT ![cur] = @ + 1]
          /\ counter[cur] < i /\ counter[cur] + 1 <= MaxIndex
          /\ cur \notin failed => i = counter[cur] + 1
          /\ raced \/ counter[cur] < chain[cur]
          /\ fetched => i \in stored[cur]
          /\ ~raced => fetched \/ i \in skipped[cur]
          /\ SrcOf[cur] \in known
          /\ \/ pc' = "pair" /\ next' = next
             \/ pc' = "message" /\ next = i /\ next' = i + 1
    <2>1. CASE ThrowFirst
      <3>1. /\ seen[cur] = 1 /\ counter[cur] = 0 /\ SrcOf[cur] \in known
            /\ seen[cur] \in 0 .. MaxIndex
            /\ raced \/ seen[cur] <= chain[cur]
            /\ fetched => 1 \in stored[cur]
            /\ ~raced => fetched \/ 1 \in skipped[cur]
        BY <2>1 DEF ThrowFirst, PInv, TypeOK, SeenBacked, AtFirst, InHand
      <3>2. 1 \in Indices /\ 1 <= MaxIndex
        BY <3>1 DEF Indices
      <3>3. counter' = [counter EXCEPT ![cur] = @ + 1]
        BY <2>1, <3>1 DEF ThrowFirst
      <3>4. Throw(1) /\ pc' = "pair" /\ next' = next
        BY <2>1 DEF ThrowFirst
      <3>5. /\ counter[cur] < 1 /\ counter[cur] + 1 <= MaxIndex /\ 1 = counter[cur] + 1
            /\ raced \/ counter[cur] < chain[cur]
        <4>1. chain[cur] \in Nat
          BY DEF PInv, TypeOK
        <4> QED BY <3>1, <3>2, <4>1
      <3> QED BY <3>1, <3>2, <3>3, <3>4, <3>5
    <2>2. CASE ThrowMessage
      <3>1. /\ next \in 1 .. MaxIndex + 1 /\ next <= seen[cur]
            /\ seen[cur] \in 0 .. MaxIndex /\ counter[cur] \in 0 .. MaxIndex
            /\ counter[cur] < next
            /\ cur \notin failed => next = counter[cur] + 1
            /\ raced \/ seen[cur] <= chain[cur]
            /\ chain[cur] \in Nat
            /\ fetched => next \in stored[cur]
            /\ ~raced => fetched \/ next \in skipped[cur]
            /\ SrcOf[cur] \in known
        BY <2>2 DEF ThrowMessage, PInv, TypeOK, SeenBacked, AtMessage, InHand
      <3>2. next \in Indices /\ counter[cur] + 1 <= MaxIndex
        BY <3>1 DEF Indices
      <3>3. /\ Throw(next) /\ counter' = [counter EXCEPT ![cur] = @ + 1]
            /\ pc' = "message" /\ next' = next + 1
        BY <2>2 DEF ThrowMessage, CountMessage
      <3> QED BY <3>1, <3>2, <3>3
    <2> QED BY <2>1, <2>2
  <1>2. UNCHANGED <<chain, stored, skipped, ticking, tick, stopping, seen, todo, cur,
                    known, base, failed, resets, raced>> /\ fetched' = FALSE
    BY DEF ThrowFirst, ThrowMessage, resetVars, chainVars
  <1>3. InOrder' /\ CounterHonest'
    <2>1. UNCHANGED <<chainVars, base, failed, resets, raced>>
      BY <1>2 DEF chainVars
    <2> QED BY <1>1, <2>1, ThrownOne
  <1>4. /\ cur \in Pairs /\ counter[cur] \in Nat /\ i \in Nat /\ i >= 1 /\ i <= MaxIndex
        /\ counter'[cur] = counter[cur] + 1
        /\ \A q \in Pairs \ {cur} : counter'[q] = counter[q]
    BY <1>1 DEF PInv, TypeOK, Indices
  <1>5. TypeOK'
    <2>1. counter' \in [Pairs -> 0 .. MaxIndex]
      BY <1>1, <1>4 DEF PInv, TypeOK
    <2>2. thrown' \in [Pairs -> Seq(Indices \union {Ghost})]
      BY <1>1 DEF Throw, PInv, TypeOK
    <2>3. next' \in 1 .. MaxIndex + 1 /\ pc' \in {"pair", "message"}
      BY <1>1, <1>4 DEF PInv, TypeOK
    <2> QED BY <1>2, <2>1, <2>2, <2>3 DEF PInv, TypeOK
  <1>6. SeenBacked' /\ Covered'
    BY <1>1, <1>2 DEF PInv, SeenBacked, Covered
  <1>7. Unmet'
    BY <1>1, <1>2, <1>4 DEF PInv, Unmet
  <1>8. AtFirst' /\ InHand'
    BY <1>1 DEF AtFirst, InHand
  <1>9. AtMessage'
    BY <1>1, <1>2, <1>4 DEF AtMessage
  <1> QED BY <1>3, <1>5, <1>6, <1>7, <1>8, <1>9 DEF PInv

-----------------------------------------------------------------------------

(* Every step keeps the invariant. *)
LEMMA NextInv == Pairs # {} /\ PInv /\ [Next]_vars => PInv'
  <1> SUFFICES ASSUME Pairs # {}, PInv, [Next]_vars PROVE PInv'
    OBVIOUS
  <1>1. CASE \/ \E p \in Pairs : Emit(p) \/ InvokeIndexUpdate(p)
             \/ \E p \in Pairs, i \in Indices : StoreReceipt(p, i)
    BY <1>1, ChainMovesInv
  <1>2. CASE \E p \in Pairs : MeetSource(p)
    BY <1>2, MeetSourceInv
  <1>3. CASE Reset
    BY <1>3, ResetInv
  <1>4. CASE Tick \/ Stop \/ TakeDone \/ ProofArrives \/ ProofNever
    BY <1>4, QuietInv
  <1>5. CASE TakeTick \/ ReadInMeta \/ GiveUpTick \/ EndOfLoop
    BY <1>5, TickInv
  <1>6. CASE \/ \E p \in Pairs : VisitPair(p)
             \/ QueryFirst \/ QueryMessage \/ QueryFails \/ EndOfMessages
    BY <1>6, LoopInv
  <1>7. CASE ThrowFirst \/ ThrowMessage
    BY <1>7, ThrowInv
  <1>8. CASE UNCHANGED vars
    BY <1>8 DEF vars, chainVars, loopVars, resetVars, PInv, TypeOK, Covered,
       SeenBacked, Unmet, AtFirst, AtMessage, InHand, InOrder, CounterHonest
  <1> QED BY <1>1, <1>2, <1>3, <1>4, <1>5, <1>6, <1>7, <1>8 DEF Next

(* The invariant holds in every reachable state. *)
THEOREM Invariance == ASSUME Pairs # {} PROVE Spec => []PInv
  <1>1. Init => PInv
    BY InitInv
  <1>2. PInv /\ [Next]_vars => PInv'
    BY NextInv
  <1> QED BY <1>1, <1>2, PTL DEF Spec

(* Type correctness: no counter and no index of the loops leaves its range. *)
THEOREM TypeCorrect == ASSUME Pairs # {} PROVE Spec => []TypeOK
  BY Invariance, PTL DEF PInv

(* A pair whose queries succeed is thrown in order, without a gap and      *)
(* without a repetition.  An empty message takes a place only when the     *)
(* chain was initialized in the middle of a tick, or when an index update  *)
(* counted the index and no receipt was there.                             *)
THEOREM ThrownInOrder == ASSUME Pairs # {} PROVE Spec => []InOrder
  BY Invariance, PTL DEF PInv

(* The counters count what was thrown, empty messages too, and whatever    *)
(* was thrown and was not empty the chain has.                             *)
THEOREM CountersAreHonest == ASSUME Pairs # {} PROVE Spec => []CounterHonest
  BY Invariance, PTL DEF PInv
=============================================================================
