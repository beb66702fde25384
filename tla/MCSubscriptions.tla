--------------------------- MODULE MCSubscriptions ---------------------------
(* Small instances of the subscriptions.                                     *)
EXTENDS Subscriptions
==============================================================================
