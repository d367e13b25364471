------------------------------ MODULE MCSubmit ------------------------------
(* Small instance of Submit: two goroutines race over two messages of one  *)
(* pair, in relay mode.                                                    *)
EXTENDS Submit

MCThresholds == {1}
=============================================================================
