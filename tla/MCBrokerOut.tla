---------------------------- MODULE MCBrokerOut ----------------------------
(* Small instance of BrokerOut: one pair emitted by a business contract,   *)
(* one by the broker chaincode itself, two messages each.                  *)
EXTENDS BrokerOut

MCThresholds == {-1, 0, 1}
=============================================================================
