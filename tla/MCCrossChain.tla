---------------------------- MODULE MCCrossChain ----------------------------
(* Small instance of CrossChain: transfers to an account that exists and   *)
(* to one that does not.                                                   *)
EXTENDS CrossChain

MCEvents == [amount : Amounts, receiver : Receivers \union Absentees]
=============================================================================
