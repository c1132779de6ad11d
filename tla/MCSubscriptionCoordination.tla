---------------------- MODULE MCSubscriptionCoordination ----------------------
(***************************************************************************)
(* Small instances of SubscriptionCoordination.                            *)
(***************************************************************************)
EXTENDS SubscriptionCoordination

\* Deployments of a subscriber with one and with two sources, under faults
\* that leave the coordinator's lock alone; and one source under faults that
\* do not.
BrokerScenarios ==
  {[requests |-> {<<"x">>, <<"x", "y">>}, faults |-> {"crash", "error", "late"}],
   [requests |-> {<<"x">>}, faults |-> {"crash", "lock"}]}

\* Every subscriber requests both sources, and synchronise is interrupted.
InterruptedScenarios ==
  {[requests |-> {<<"x", "y">>}, faults |-> {"late", "interrupt"}]}
=============================================================================
