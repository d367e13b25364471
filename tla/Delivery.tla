------------------------------ MODULE Delivery ------------------------------
(***************************************************************************)
(* What a destination broker promises about incoming messages.  A pair's   *)
(* messages are taken in index order, each once: executed (with success or *)
(* failure), cancelled before it was ever executed, or skipped.  What was  *)
(* taken may be reversed once; reversals and cancellations come in index   *)
(* order; a cancelled or reversed message never changes again.  Only a     *)
(* reset by the admin starts over.                                         *)
(***************************************************************************)
EXTENDS Naturals

CONSTANTS Pairs, MaxIndex

VARIABLE state    \* the state of message <<pair, index>>

Messages  == Pairs \X (1 .. MaxIndex)
Executed  == {"succeeded", "failed"}
Withdrawn == {"cancelled", "reversed"}

Init == state = [m \in Messages |-> "unseen"]

IsNext(m) ==
  /\ state[m] = "unseen"
  /\ \A j \in 1 .. m[2] - 1 : state[<<m[1], j>>] # "unseen"

NoneWithdrawnFrom(m) ==
  \A j \in m[2] .. MaxIndex : state[<<m[1], j>>] \notin Withdrawn

Take(m, how) == IsNext(m) /\ state' = [state EXCEPT ![m] = how]

Cancel(m) == NoneWithdrawnFrom(m) /\ Take(m, "cancelled")

Reverse(m) ==
  /\ state[m] \in Executed \union {"skipped"}
  /\ NoneWithdrawnFrom(m)
  /\ state' = [state EXCEPT ![m] = "reversed"]

Reset == state' = [m \in Messages |-> "unseen"]

Next ==
  \/ \E m \in Messages, how \in Executed \union {"skipped"} : Take(m, how)
  \/ \E m \in Messages : Cancel(m) \/ Reverse(m)
  \/ Reset

Spec == Init /\ [][Next]_state
=============================================================================
