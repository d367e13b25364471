------------------------------ MODULE DataSwap ------------------------------
(***************************************************************************)
(* Copying values from chain to chain, in relay mode: the data_swapper     *)
(* chaincode, a key-value store, on both chains of Relay.  A get with two  *)
(* arguments on A emits interchainGet with interchainSet as its callback   *)
(* and no rollback function: the value travels back as the payload of the  *)
(* receipt.  Meanwhile users set values on both chains.                    *)
(*                                                                         *)
(* A value of B is known by its version: 0 when the key was never set,     *)
(* then 1, 2, ...  The plugin splits a payload at its commas: a value that *)
(* has one comes back in pieces.                                           *)
(***************************************************************************)
EXTENDS Relay, FiniteSets, FiniteSetsExt

CONSTANTS
  Keys,         \* keys of both stores
  MaxVersion,   \* bound: times a key is set on B
  Split,        \* the versions whose value has a comma
  Own           \* a value a user of A set there

ASSUME MaxVersionAssumption == MaxVersion \in Nat
ASSUME EventsAssumption     == Events = [key : Keys]
ASSUME PayloadsAssumption   == Payloads = 0 .. MaxVersion
ASSUME SplitAssumption      == Split \subseteq 1 .. MaxVersion
ASSUME OwnAssumption        == Own \notin 0 .. MaxVersion

VARIABLES
  storeA, storeB,   \* the stores of the two chains
  asked,            \* history: B's version when a get was emitted
  copied            \* history: the version a get's callback stored

stores  == <<storeA, storeB>>
history == <<asked, copied>>
vars    == <<varsRelay, stores, history>>

Nothing == -1

TypeOK ==
  /\ RelayTypeOK
  /\ storeA \in [Keys -> (0 .. MaxVersion) \union {Own}]
  /\ storeB \in [Keys -> 0 .. MaxVersion]
  /\ asked \in [Indices -> (0 .. MaxVersion) \union {Nothing}]
  /\ copied \in [Indices -> (0 .. MaxVersion) \union {Nothing}]

Init ==
  /\ RelayInit
  /\ storeA = [k \in Keys |-> 0]
  /\ storeB = [k \in Keys |-> 0]
  /\ asked = [i \in Indices |-> Nothing]
  /\ copied = [i \in Indices |-> Nothing]

-----------------------------------------------------------------------------

(* get with two arguments, on A. *)
GetRemote(k) ==
  /\ Emit([key |-> k])
  /\ asked' = [asked EXCEPT ![outterMeta[Pair] + 1] = storeB[k]]
  /\ UNCHANGED <<stores, copied>>

(* set, on either chain. *)
SetA(k) ==
  /\ storeA' = [storeA EXCEPT ![k] = Own]
  /\ UNCHANGED <<varsRelay, storeB, history>>

SetB(k) ==
  /\ storeB[k] < MaxVersion                                 \* bound
  /\ storeB' = [storeB EXCEPT ![k] = @ + 1]
  /\ UNCHANGED <<varsRelay, storeA, history>>

(* Mutant of InterchainGet: the value before the last write. *)
InterchainGetOld(k) == IF storeB[k] = 0 THEN 0 ELSE storeB[k] - 1

(* interchainGet: a key that was never set is answered with success, too.  *)
InterchainGet(k) == storeB[k]

(* B's broker calls interchainGet: to reverse a get is to read again.      *)
SubmitIBTP(i, st) ==
  /\ Deliver(i, st, TRUE, InterchainGet(outMessages[Pair][i].key))
  /\ UNCHANGED <<stores, history>>

(* interchainSet: set with the key and the pieces of the answer, refused   *)
(* unless there is exactly one.                                            *)
InterchainSet(i) ==
  LET k == outMessages[Pair][i].key
      v == answers[i]
  IN IF v \in Split
     THEN UNCHANGED <<storeA, copied>>
     ELSE /\ storeA' = [storeA EXCEPT ![k] = v]
          /\ copied' = [copied EXCEPT ![i] = v]

(* A's broker calls interchainSet on a callback; whether it succeeds is    *)
(* not looked at.                                                          *)
SubmitReceipt(i) ==
  /\ Settle(i)
  /\ IF CallsRollback(i) THEN UNCHANGED <<storeA, copied>> ELSE InterchainSet(i)
  /\ UNCHANGED <<storeB, asked>>

Next ==
  \/ \E k \in Keys : GetRemote(k) \/ SetA(k) \/ SetB(k)
  \/ \E i \in Indices, st \in Opened : SubmitIBTP(i, st)
  \/ \E i \in Indices : SubmitReceipt(i)
  \/ Transport /\ UNCHANGED <<stores, history>>

(* As in CrossChain: only verdicts with a receipt of B are sure to get     *)
(* past SubmitReceipt.                                                     *)
Fairness ==
  /\ TransportFairness
  /\ \A i \in Indices :
       /\ \A st \in Opened : WF_vars(SubmitIBTP(i, st))
       /\ WF_vars(hub[i] \in Receipted /\ SubmitReceipt(i))

Spec == Init /\ [][Next]_vars /\ Fairness

-----------------------------------------------------------------------------

(* The gets that stored a copy of k. *)
CopiesOf(k) ==
  {i \in Indices : copied[i] # Nothing /\ outMessages[Pair][i].key = k}

(* A copy is at least as new as the value B had when it was asked for, and *)
(* never older than an earlier copy: although a get may be executed, timed *)
(* out, read again and answered late while B's value changes.              *)
Fresh ==
  \A k \in Keys, j \in Indices : j \in CopiesOf(k) =>
    /\ asked[j] <= copied[j]
    /\ \A i \in CopiesOf(k) : i < j => copied[i] <= copied[j]

(* Unless a user of A wrote it, what A holds is the newest copy. *)
NewestKept ==
  \A k \in Keys : storeA[k] # Own =>
    storeA[k] = IF CopiesOf(k) = {} THEN 0 ELSE copied[Max(CopiesOf(k))]

(* Every get ends for good: rolled back, or with its copy stored, unless   *)
(* the value came in pieces.                                               *)
GetEnds ==
  \A i \in Indices :
    <>[](i <= outterMeta[Pair] =>
           \/ called[Pair][i] = <<"rollback">> /\ copied[i] = Nothing
           \/ /\ called[Pair][i] = <<"callback">>
              /\ copied[i] = (IF answers[i] \in Split THEN Nothing ELSE answers[i]))
=============================================================================
