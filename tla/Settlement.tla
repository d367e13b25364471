----------------------------- MODULE Settlement -----------------------------
(***************************************************************************)
(* What a source broker promises the services that emit through it: the    *)
(* messages of a pair appear in index order without gaps; each is settled  *)
(* at most once, by its callback (committed) or by its rollback            *)
(* (refunded), in index order, and a settled message stays settled.  An    *)
(* index may be given up: it then never settles.  Only a reset by the      *)
(* admin starts over.                                                      *)
(***************************************************************************)
EXTENDS Naturals

CONSTANTS Pairs, MaxIndex

VARIABLE fate    \* the fate of message <<pair, index>>

Messages == Pairs \X (1 .. MaxIndex)
Settled  == {"committed", "refunded"}

Init == fate = [m \in Messages |-> "absent"]

Emit(m) ==
  /\ fate[m] = "absent"
  /\ \A j \in 1 .. m[2] - 1 : fate[<<m[1], j>>] # "absent"
  /\ fate' = [fate EXCEPT ![m] = "pending"]

Settle(m, outcome) ==
  /\ fate[m] = "pending"
  /\ \A j \in m[2] .. MaxIndex : fate[<<m[1], j>>] \notin Settled
  /\ fate' = [fate EXCEPT ![m] = outcome]

Reset == fate' = [m \in Messages |-> "absent"]

Next ==
  \/ \E m \in Messages : Emit(m)
  \/ \E m \in Messages, outcome \in Settled : Settle(m, outcome)
  \/ Reset

Spec == Init /\ [][Next]_fate
=============================================================================
