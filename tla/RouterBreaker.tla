---------------------------- MODULE RouterBreaker ---------------------------
(***************************************************************************)
(* The circuit breaker in front of one router, under concurrent callers.   *)
(* Every method of the client the factory hands out goes through           *)
(* withCircuitBreaker: autoriserAppel, then the call itself, which may     *)
(* last, and one verdict when it comes back.  Between the two the node     *)
(* process serves other callers: verdicts arrive in any order, long after  *)
(* the breaker changed its mind, or never.                                 *)
(***************************************************************************)
EXTENDS RouterHealth

CONSTANT Appels   \* calls that may be in flight at the same time

VARIABLES
  sante,   \* the router's RouterHealth
  enVol,   \* calls let through, no verdict yet
  fenetre  \* per call in flight that took the probe's place, what is left of
           \* its budget (Aucune for the other calls); the code does not keep it

vars == <<sante, enVol, fenetre>>

Init ==
  /\ sante = Neuf
  /\ enVol = {}
  /\ fenetre = [c \in Appels |-> Aucune]

\* A call that is let through.  A refused one throws
\* RouterUnreachableException and leaves everything as it is.
Lancer(c) ==
  /\ c \notin enVol
  /\ ~Refuse(sante)
  /\ sante' = ApresAutorisation(sante)
  /\ enVol' = enVol \union {c}
  /\ fenetre' = [fenetre EXCEPT ![c] = IF PrendLaSonde(sante) THEN BudgetSonde ELSE Aucune]

Revenir(c) ==
  /\ c \in enVol
  /\ enVol' = enVol \ {c}
  /\ fenetre' = [fenetre EXCEPT ![c] = Aucune]

Reussir(c) ==
  /\ Revenir(c)
  /\ sante' = ApresSucces(sante)

PanneReseau(c) ==
  /\ Revenir(c)
  /\ sante' = ApresPanneReseau(sante)

RefusDuRouteur(c) ==
  /\ Revenir(c)
  /\ sante' = ApresRefusRouteur(sante)

\* invalidate(): the router's address or credentials changed, the entry is
\* deleted.  Calls made with the previous client are still in flight.
Reinitialiser ==
  /\ sante' = Neuf
  /\ UNCHANGED <<enVol, fenetre>>

Tick ==
  /\ sante' = UnTickPlusTard(sante)
  /\ fenetre' = [c \in Appels |-> Vieillir(fenetre[c])]
  /\ UNCHANGED enVol

Next ==
  \/ \E c \in Appels : Lancer(c) \/ Reussir(c) \/ PanneReseau(c) \/ RefusDuRouteur(c)
  \/ Reinitialiser
  \/ Tick

\* Time passes.  Nothing else is owed: a caller may stop calling, a call may
\* never come back.
Spec == Init /\ [][Next]_vars /\ WF_vars(Tick)

-----------------------------------------------------------------------------
\* The two dates of the record are never set together: a verdict or a taken place
\* always clears the one when it sets the other (autoriserAppel reads the probe's
\* first, and would not see the rest behind it).
DatesExclusives == sante.sondeJusqua = Aucune \/ sante.openUntil = Aucune

Types ==
  /\ sante \in [state : Etats, consecutiveFailures : 0..Seuil,
                openUntil : {Aucune} \union 0..Repos,
                sondeJusqua : {Aucune} \union 0..BudgetSonde]
  /\ enVol \subseteq Appels
  /\ fenetre \in [Appels -> {Aucune} \union 0..BudgetSonde]

\* Types, and a record that one kind of waiting only explains.
TypeOK == Types /\ DatesExclusives

Vivantes == {c \in Appels : AVenir(fenetre[c])}

\* The probe is alone: two calls that took the probe's place are never both
\* in flight within their budget, even when the late verdict of a call that
\* left before the rest gave the place back early (autoriserAppel).
UneSeuleSonde == \A c, d \in Vivantes : c = d

\* While the last word on the router is a network failure at the threshold,
\* the breaker is never closed: it rests or it awaits a probe.  (The flood of
\* simultaneous calls at each end of rest was exactly this state.)
LienMortGarde ==
  sante.state = "INJOIGNABLE" /\ sante.consecutiveFailures >= Seuil
    => sante.openUntil # Aucune \/ sante.sondeJusqua # Aucune

\* No refusal lasts for ever: whatever calls hang or fail late, the breaker
\* lets a call through again ("fermer le routeur pour toujours").
JamaisFermePourToujours == Refuse(sante) ~> ~Refuse(sante)

-----------------------------------------------------------------------------
\* The breaker implements its promise.
PhaseDuDisjoncteur ==
  CASE sante.sondeJusqua # Aucune -> "sonde"
    [] sante.sondeJusqua = Aucune /\ sante.openUntil # Aucune -> "repos"
    [] OTHER -> "ferme"

Promesse == INSTANCE CircuitBreaker WITH
  phase <- PhaseDuDisjoncteur, sondes <- Vivantes

TientSaPromesse == Promesse!Spec
=============================================================================
