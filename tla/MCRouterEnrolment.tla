-------------------------- MODULE MCRouterEnrolment --------------------------
(* Small instances of the enrolment of routers.                              *)
EXTENDS RouterEnrolment, TLC

\* Routers, invitations, rows and requests are interchangeable.
MCSymetrie ==
  Permutations(Appareils) \union Permutations(Invitations)
    \union Permutations(Fiches) \union Permutations(Requetes)
==============================================================================
