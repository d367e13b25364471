----------------------------- MODULE MCDataSwap -----------------------------
(* Small instance of DataSwap: two gets of one key that is set three       *)
(* times on B, the second time to a value with a comma.                    *)
EXTENDS DataSwap

MCEvents   == [key : Keys]
MCPayloads == 0 .. MaxVersion
=============================================================================
