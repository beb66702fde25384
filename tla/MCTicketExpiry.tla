--------------------------- MODULE MCTicketExpiry ---------------------------
(* One ticket with a period of a few ticks, renewed at most once or twice. *)
EXTENDS TicketExpiry
=============================================================================
