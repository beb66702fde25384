-------------------------- MODULE MCRouterBreaker --------------------------
(* Three concurrent callers of one router, the code's threshold of three,   *)
(* a rest of three ticks and a probe budget of two (30 s and 25 s).         *)
EXTENDS RouterBreaker
=============================================================================
