------------------------ MODULE MCDeferredOperations ------------------------
(* A small instance of the queue: a table of two rows, a caller, two calls  *)
(* of drain at the same time, two attempts before giving up, at most one    *)
(* restart and one failure of the database.  One failure opens the breaker. *)
EXTENDS DeferredOperations
=============================================================================
