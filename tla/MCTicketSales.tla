---------------------------- MODULE MCTicketSales ----------------------------
(* Small instances of the sale of tickets: a name that customers may choose, *)
(* one printed ticket, one more code to generate, and a few requests.        *)
EXTENDS TicketSales, TLC

CONSTANTS central, annexe

MCNoms == {1}
MCStock == {2}

\* Requests are interchangeable, and so are customers and references.
MCSymetrie ==
  Permutations(Requetes) \union Permutations(Clients) \union Permutations(References)
==============================================================================
