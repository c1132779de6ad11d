-------------------------- MODULE MCInProcessBroker --------------------------
(***************************************************************************)
(* Three subscribers with different requests: two expired entries can be   *)
(* neighbours in the list with a third behind them.                        *)
(***************************************************************************)
EXTENDS InProcessBroker

CONSTANTS s1, s2, s3

MCRequests ==
  [s \in Subscribers |-> IF s = s1 THEN <<"x", "y">> ELSE IF s = s2 THEN <<"y">> ELSE <<"x">>]
=============================================================================
