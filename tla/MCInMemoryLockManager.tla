------------------------ MODULE MCInMemoryLockManager ------------------------
(***************************************************************************)
(* Small instances of InMemoryLockManager.                                 *)
(***************************************************************************)
EXTENDS InMemoryLockManager
=============================================================================
