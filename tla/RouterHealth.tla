---------------------------- MODULE RouterHealth ----------------------------
(***************************************************************************)
(* The health record RouterHealthService keeps, in memory, for one router, *)
(* and what each of its methods does to it.  Pure operators: the modules   *)
(* that interleave callers (RouterBreaker, DeferredOperations) apply them. *)
(*                                                                         *)
(* The code keeps dates and compares them with Date.now(); the model keeps *)
(* the time that is left before them, in ticks: Aucune is the code's null, *)
(* 0 a date that is reached, and Vieillir is the clock.  RouterHealth      *)
(* entries that do not exist behave as Neuf, what get() creates.           *)
(***************************************************************************)
EXTENDS Integers

CONSTANTS
  Seuil,      \* FAILURE_THRESHOLD: network failures in a row that open
  Repos,      \* COOLDOWN_MS, in ticks
  BudgetSonde \* BUDGET_SONDE_MS, in ticks

\* The code's values are 3, 30 s and 25 s: a rest outlasts a probe's budget.
ASSUME ConstantesDisjoncteur ==
  /\ Seuil \in Nat \ {0}
  /\ Repos \in Nat
  /\ BudgetSonde \in Nat \ {0}
  /\ BudgetSonde <= Repos

Etats == {"JOIGNABLE", "INJOIGNABLE", "REPOND_MAL", "INCONNU"}

Aucune == -1

Neuf == [state |-> "INCONNU", consecutiveFailures |-> 0,
         openUntil |-> Aucune, sondeJusqua |-> Aucune]

\* Date comparisons of the code: "date > now" and "date set and reached".
AVenir(date) == date > 0
Passee(date) == date = 0

\* One tick of the clock seen by a date.
Vieillir(date) == IF date > 0 THEN date - 1 ELSE date

UnTickPlusTard(h) ==
  [h EXCEPT !.openUntil = Vieillir(@), !.sondeJusqua = Vieillir(@)]

-----------------------------------------------------------------------------
\* blockedReason: the refusal, without taking the probe's place.
Bloque(h) ==
  AVenir(h.sondeJusqua) \/ AVenir(h.openUntil)

\* (Mutated forms of Refuse: a probe that never answers keeps its place; the
\* probe's place is not looked at.)
RefuseTantQueSonde(h) == h.sondeJusqua # Aucune \/ AVenir(h.openUntil)
RefuseSansSonde(h) == AVenir(h.openUntil)

\* autoriserAppel: is the call refused?  A probe place that is held decides
\* alone, openUntil is read only when there is none.
Refuse(h) ==
  IF h.sondeJusqua # Aucune THEN AVenir(h.sondeJusqua) ELSE AVenir(h.openUntil)

\* autoriserAppel, the record it leaves behind a call it lets through: the
\* call that finds an exhausted rest, or a probe that never answered, takes
\* the probe's place.
PrendLaSonde(h) == Passee(h.sondeJusqua) \/ (h.sondeJusqua = Aucune /\ Passee(h.openUntil))

\* (Mutated form of ApresAutorisation: the place is not taken.)
ApresAutorisationSansSonde(h) ==
  IF ~PrendLaSonde(h) THEN h ELSE [h EXCEPT !.openUntil = Aucune]

ApresAutorisation(h) ==
  IF ~PrendLaSonde(h) THEN h
  ELSE [h EXCEPT !.sondeJusqua = BudgetSonde,
                 !.openUntil = IF h.sondeJusqua = Aucune THEN Aucune ELSE @]

\* recordSuccess, and whether it calls the recovery listeners (wasDown).
ApresSucces(h) ==
  [state |-> "JOIGNABLE", consecutiveFailures |-> 0,
   openUntil |-> Aucune, sondeJusqua |-> Aucune]

SignaleRetour(h) == h.state = "INJOIGNABLE"

\* The count is only ever compared with the threshold: it saturates there.
UnEchecDePlus(n) == IF n < Seuil THEN n + 1 ELSE Seuil

\* (Mutated forms of ApresPanneReseau: the probe's place is not given back; the rest
\* is shorter than a probe.)
ApresPanneSansRendre(h) ==
  LET echecs == UnEchecDePlus(h.consecutiveFailures)
  IN  [state |-> "INJOIGNABLE",
       consecutiveFailures |-> echecs,
       openUntil |-> IF echecs >= Seuil THEN Repos ELSE h.openUntil,
       sondeJusqua |-> h.sondeJusqua]
ApresPanneReposCourt(h) ==
  LET echecs == UnEchecDePlus(h.consecutiveFailures)
  IN  [state |-> "INJOIGNABLE",
       consecutiveFailures |-> echecs,
       openUntil |-> IF echecs >= Seuil THEN BudgetSonde - 1 ELSE h.openUntil,
       sondeJusqua |-> Aucune]

\* recordFailure with a network error (isNetworkFailure): counts, and opens
\* for a rest once the threshold is reached.
ApresPanneReseau(h) ==
  LET echecs == UnEchecDePlus(h.consecutiveFailures)
  IN  [state |-> "INJOIGNABLE",
       consecutiveFailures |-> echecs,
       openUntil |-> IF echecs >= Seuil THEN Repos ELSE h.openUntil,
       sondeJusqua |-> Aucune]

\* recordFailure with an answer of the router (bad password, conflict): the
\* probe's place is given back, the count and the rest stay as they are.
ApresRefusRouteur(h) ==
  [h EXCEPT !.state = "REPOND_MAL", !.sondeJusqua = Aucune]
=============================================================================
