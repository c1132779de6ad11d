--------------------------- MODULE MCEventConsumer ---------------------------
(***************************************************************************)
(* A small instance of EventConsumer: two consumers that crash, fail and   *)
(* hand the source over to each other.                                     *)
(***************************************************************************)
EXTENDS EventConsumer
=============================================================================
