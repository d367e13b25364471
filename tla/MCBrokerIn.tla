----------------------------- MODULE MCBrokerIn -----------------------------
(* Small instance of BrokerIn: two pairs whose messages interleave.        *)
EXTENDS BrokerIn

MCThresholds == {-1, 0, 1}
=============================================================================
