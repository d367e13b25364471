----------------------------- MODULE MCPolling -----------------------------
(* Small instance of Polling: an outgoing pair, and an incoming one of the *)
(* same source service (it calls a service of its own chain through the    *)
(* hub), so that each is met first in some behaviours and finds its source *)
(* known in others.                                                        *)
EXTENDS Polling

MCPairs    == {"out", "in"}
MCOutPairs == {"out"}
MCSrcOf    == [out |-> "service", in |-> "service"]
MCFlaky    == {"in"}
=============================================================================
