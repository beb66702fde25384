--------------------------- MODULE CircuitBreaker ---------------------------
(***************************************************************************)
(* What the circuit breaker promises its callers, without counters and     *)
(* dates: calls go through freely while it is closed, none goes through    *)
(* during a rest, and when the rest is over they go through one at a time, *)
(* the next one only after a verdict or once the probe is held for lost.   *)
(***************************************************************************)
CONSTANT Appels   \* calls a caller may make

VARIABLES
  phase,   \* "ferme", "repos" or "sonde"
  enVol,   \* calls let through that have not come back
  sondes   \* probes in flight that are not held for lost

vars == <<phase, enVol, sondes>>

Phases == {"ferme", "repos", "sonde"}

Init ==
  /\ phase = "ferme"
  /\ enVol = {}
  /\ sondes = {}

\* A closed breaker lets the call through.
Passer(c) ==
  /\ c \notin enVol
  /\ phase = "ferme"
  /\ enVol' = enVol \union {c}
  /\ UNCHANGED <<phase, sondes>>

\* The only way out of a rest for a call, and the only way to be let through
\* while a probe is awaited: become the probe, when no probe is alive.
Sonder(c) ==
  /\ c \notin enVol
  /\ phase # "ferme"
  /\ sondes = {}
  /\ phase' = "sonde"
  /\ enVol' = enVol \union {c}
  /\ sondes' = {c}

\* A call comes back, a probe or a call that left before: the wait is over,
\* whatever the answer.
Verdict(c) ==
  /\ c \in enVol
  /\ enVol' = enVol \ {c}
  /\ sondes' = sondes \ {c}
  /\ phase' \in {"ferme", "repos"}

\* The budget of the probe is spent.
Perdre(c) ==
  /\ c \in sondes
  /\ sondes' = sondes \ {c}
  /\ UNCHANGED <<phase, enVol>>

\* The parameters of the router changed.
Oublier ==
  /\ phase' = "ferme"
  /\ UNCHANGED <<enVol, sondes>>

Next ==
  \/ \E c \in Appels : Passer(c) \/ Sonder(c) \/ Verdict(c) \/ Perdre(c)
  \/ Oublier

Spec == Init /\ [][Next]_vars
=============================================================================
