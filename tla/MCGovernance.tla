---------------------------- MODULE MCGovernance ----------------------------
(* Small instance of Governance: the broker and a business contract, the   *)
(* admin's organisation and another one, one remote service on each of two *)
(* appchains.                                                              *)
EXTENDS Governance

MCThresholds == {-1, 0, 1}
MCRemotes    == {"r1", "r2"}
MCChainOf    == [r1 |-> "chain1", r2 |-> "chain2"]
=============================================================================
