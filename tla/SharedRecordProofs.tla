------------------------- MODULE SharedRecordProofs -------------------------
(***************************************************************************)
(* Proofs about the three components that are one record many actors work  *)
(* on at once: the health of a router (RouterBreaker), the row of a        *)
(* scheduled job (JobLock), the profile of a plan on a router              *)
(* (PlanProvisioning).  For every set of actors and every value of the     *)
(* other constants that ConstantesDisjoncteur, ConstantesVerrou and        *)
(* ConstantesOffre allow.                                                  *)
(***************************************************************************)
EXTENDS RouterBreaker, JobLock, PlanProvisioning, TLAPS

-----------------------------------------------------------------------------
(***************************************************************************)
(* RouterBreaker.                                                          *)
(***************************************************************************)

(***************************************************************************)
(* The inductive invariant.  UneSeuleSonde is not inductive: it depends on *)
(* the date the breaker holds being at least as far as the budget of every *)
(* probe still in flight, which in turn needs BudgetSonde <= Repos when a  *)
(* late network failure turns the wait for a probe into a rest.            *)
(***************************************************************************)
\* The breaker waits, in one way or the other, only past the threshold.
AttenteMeritee ==
  sante.sondeJusqua # Aucune \/ sante.openUntil # Aucune
    => sante.consecutiveFailures = Seuil

FenetresCouvertes ==
  /\ sante.sondeJusqua # Aucune => \A c \in Appels : fenetre[c] <= sante.sondeJusqua
  /\ sante.openUntil # Aucune => \A c \in Appels : fenetre[c] <= sante.openUntil

SondesEnVol == \A c \in Appels : fenetre[c] # Aucune => c \in enVol

IInv ==
  /\ Types
  /\ DatesExclusives
  /\ AttenteMeritee
  /\ FenetresCouvertes
  /\ SondesEnVol
  /\ LienMortGarde
  /\ UneSeuleSonde

-----------------------------------------------------------------------------
(***************************************************************************)
(* Facts about the record's operators.                                     *)
(***************************************************************************)
Fiche == [state : Etats, consecutiveFailures : 0..Seuil,
          openUntil : {Aucune} \union 0..Repos,
          sondeJusqua : {Aucune} \union 0..BudgetSonde]

LEMMA NeufBienForme == Neuf \in Fiche
<1>1. /\ "INCONNU" \in Etats
      /\ 0 \in 0..Seuil
      /\ Aucune \in {Aucune} \union 0..Repos
      /\ Aucune \in {Aucune} \union 0..BudgetSonde
  BY ConstantesDisjoncteur DEF ConstantesDisjoncteur, Etats
<1>2. QED
  BY <1>1 DEF Neuf, Fiche

\* Every method of RouterHealthService leaves a well-formed record.
LEMMA FicheBienFormee ==
  ASSUME NEW h \in Fiche
  PROVE  /\ ApresAutorisation(h) \in Fiche
         /\ ApresSucces(h) \in Fiche
         /\ ApresPanneReseau(h) \in Fiche
         /\ ApresRefusRouteur(h) \in Fiche
         /\ UnTickPlusTard(h) \in Fiche
<1> USE ConstantesDisjoncteur DEF ConstantesDisjoncteur
<1>1. ApresAutorisation(h) \in Fiche
  <2>1. CASE PrendLaSonde(h)
    <3> DEFINE o == IF h.sondeJusqua = Aucune THEN Aucune ELSE h.openUntil
    <3>1. o \in {Aucune} \union 0..Repos
      BY DEF Fiche
    <3>2. ApresAutorisation(h) = [h EXCEPT !.sondeJusqua = BudgetSonde, !.openUntil = o]
      BY <2>1 DEF ApresAutorisation
    <3> HIDE DEF o
    <3>3. ApresAutorisation(h) = [state |-> h.state,
                                  consecutiveFailures |-> h.consecutiveFailures,
                                  openUntil |-> o, sondeJusqua |-> BudgetSonde]
      BY <3>2 DEF Fiche
    <3>4. BudgetSonde \in 0..BudgetSonde
      OBVIOUS
    <3>5. QED
      BY <3>1, <3>3, <3>4 DEF Fiche
  <2>2. CASE ~PrendLaSonde(h)
    BY <2>2 DEF ApresAutorisation
  <2>3. QED
    BY <2>1, <2>2
<1>2. ApresSucces(h) \in Fiche
  BY DEF ApresSucces, Fiche, Etats, Aucune
<1>3. ApresPanneReseau(h) \in Fiche
  <2>1. UnEchecDePlus(h.consecutiveFailures) \in 0..Seuil
    BY DEF Fiche, UnEchecDePlus
  <2>2. QED
    BY <2>1 DEF ApresPanneReseau, Fiche, Etats, Aucune
<1>4. ApresRefusRouteur(h) \in Fiche
  BY DEF ApresRefusRouteur, Fiche, Etats, Aucune
<1>5. UnTickPlusTard(h) \in Fiche
  <2>1. /\ Vieillir(h.openUntil) \in {Aucune} \union 0..Repos
        /\ Vieillir(h.sondeJusqua) \in {Aucune} \union 0..BudgetSonde
    BY DEF Vieillir, Fiche, Aucune
  <2>2. QED
    BY <2>1 DEF UnTickPlusTard, Fiche
<1>6. QED
  BY <1>1, <1>2, <1>3, <1>4, <1>5

\* What a refusal of the router leaves of the record.
LEMMA EffetRefus ==
  ASSUME NEW h \in Fiche
  PROVE  /\ ApresRefusRouteur(h).state = "REPOND_MAL"
         /\ ApresRefusRouteur(h).consecutiveFailures = h.consecutiveFailures
         /\ ApresRefusRouteur(h).openUntil = h.openUntil
         /\ ApresRefusRouteur(h).sondeJusqua = Aucune
  BY DEF Fiche, ApresRefusRouteur

\* What a tick leaves of the record.
LEMMA EffetTick ==
  ASSUME NEW h \in Fiche
  PROVE  /\ UnTickPlusTard(h).state = h.state
         /\ UnTickPlusTard(h).consecutiveFailures = h.consecutiveFailures
         /\ UnTickPlusTard(h).openUntil = Vieillir(h.openUntil)
         /\ UnTickPlusTard(h).sondeJusqua = Vieillir(h.sondeJusqua)
  BY DEF Fiche, UnTickPlusTard

-----------------------------------------------------------------------------
LEMMA InitIInv == Init => IInv
<1> SUFFICES ASSUME Init
             PROVE  IInv
  OBVIOUS
<1> USE ConstantesDisjoncteur DEF Init
<1>1. Types
  BY NeufBienForme DEF Types, Fiche
<1>2. DatesExclusives /\ AttenteMeritee /\ FenetresCouvertes /\ LienMortGarde
  BY DEF Neuf, DatesExclusives, AttenteMeritee, FenetresCouvertes, LienMortGarde
<1>3. SondesEnVol /\ UneSeuleSonde
  BY DEF SondesEnVol, UneSeuleSonde, Vivantes, AVenir, Aucune
<1>4. QED
  BY <1>1, <1>2, <1>3 DEF IInv

\* A call that is let through.
LEMMA LancerIInv ==
  ASSUME IInv, NEW c \in Appels, Lancer(c)
  PROVE  IInv'
<1> USE ConstantesDisjoncteur DEF ConstantesDisjoncteur, IInv, Aucune, Lancer
<1>0. sante \in Fiche
  BY DEF Types, Fiche
<1>1. Types'
  BY <1>0, FicheBienFormee DEF Types, Fiche
<1>2. DatesExclusives'
  BY DEF DatesExclusives, Types, ApresAutorisation, PrendLaSonde, Passee
<1>3. AttenteMeritee'
  BY DEF AttenteMeritee, Types, ApresAutorisation, PrendLaSonde, Passee
<1>4. FenetresCouvertes'
  BY DEF FenetresCouvertes, DatesExclusives, Types, ApresAutorisation, PrendLaSonde, Passee,
         Refuse, AVenir
<1>5. SondesEnVol'
  BY DEF SondesEnVol, Types
<1>6. LienMortGarde'
  BY DEF LienMortGarde, Types, ApresAutorisation, PrendLaSonde, Passee
<1>7. UneSeuleSonde'
  <2>1. CASE PrendLaSonde(sante)
    <3>1. \A d \in Appels : fenetre[d] <= 0
      BY <2>1 DEF PrendLaSonde, Passee, FenetresCouvertes, Types
    <3>2. QED
      BY <2>1, <3>1 DEF UneSeuleSonde, Vivantes, AVenir, Types
  <2>2. CASE ~PrendLaSonde(sante)
    BY <2>2 DEF UneSeuleSonde, Vivantes, AVenir, Types
  <2>3. QED
    BY <2>1, <2>2
<1>8. QED
  BY <1>1, <1>2, <1>3, <1>4, <1>5, <1>6, <1>7

\* A call that comes back, whatever its verdict.
LEMMA VerdictIInv ==
  ASSUME IInv, NEW c \in Appels,
         Reussir(c) \/ PanneReseau(c) \/ RefusDuRouteur(c)
  PROVE  IInv'
<1> USE ConstantesDisjoncteur DEF ConstantesDisjoncteur, IInv, Aucune
<1>0. sante \in Fiche
  BY DEF Types, Fiche
<1>a. Revenir(c)
  BY DEF Reussir, PanneReseau, RefusDuRouteur
<1>b. \/ sante' = ApresSucces(sante)
      \/ sante' = ApresPanneReseau(sante)
      \/ sante' = ApresRefusRouteur(sante)
  BY DEF Reussir, PanneReseau, RefusDuRouteur
<1>1. Types'
  <2>1. sante' \in Fiche
    BY <1>0, <1>b, FicheBienFormee
  <2>2. QED
    BY <1>a, <2>1 DEF Types, Fiche, Revenir
<1>2. DatesExclusives'
  BY <1>0, <1>b, EffetRefus DEF DatesExclusives, ApresSucces, ApresPanneReseau
<1>3. AttenteMeritee' /\ LienMortGarde'
  <2>1. CASE sante' = ApresSucces(sante)
    BY <2>1 DEF AttenteMeritee, LienMortGarde, ApresSucces
  <2>2. CASE sante' = ApresRefusRouteur(sante)
    BY <1>0, <2>2, EffetRefus DEF AttenteMeritee, LienMortGarde
  <2>3. CASE sante' = ApresPanneReseau(sante)
    BY <2>3 DEF AttenteMeritee, LienMortGarde, ApresPanneReseau, UnEchecDePlus, Types
  <2>4. QED
    BY <1>b, <2>1, <2>2, <2>3
<1>4. FenetresCouvertes'
  <2>1. \A d \in Appels : fenetre'[d] <= fenetre[d] \/ fenetre'[d] = Aucune
    BY <1>a DEF Revenir, Types
  <2>2. \A d \in Appels : fenetre'[d] \in {Aucune} \union 0..BudgetSonde
    BY <1>1 DEF Types
  <2>3. CASE sante' = ApresSucces(sante)
    BY <2>3 DEF FenetresCouvertes, ApresSucces
  <2>4. CASE sante' = ApresRefusRouteur(sante)
    BY <1>0, <2>1, <2>2, <2>4, EffetRefus DEF FenetresCouvertes, Types
  <2>5. CASE sante' = ApresPanneReseau(sante)
    BY <2>1, <2>2, <2>5 DEF FenetresCouvertes, AttenteMeritee, ApresPanneReseau,
                            UnEchecDePlus, Types
  <2>6. QED
    BY <1>b, <2>3, <2>4, <2>5
<1>5. SondesEnVol'
  BY <1>a DEF SondesEnVol, Revenir, Types
<1>6. UneSeuleSonde'
  BY <1>a DEF UneSeuleSonde, Vivantes, AVenir, Revenir, Types
<1>7. QED
  BY <1>1, <1>2, <1>3, <1>4, <1>5, <1>6

LEMMA ReinitialiserIInv ==
  ASSUME IInv, Reinitialiser
  PROVE  IInv'
<1> USE ConstantesDisjoncteur DEF IInv, Reinitialiser
<1>1. Types'
  BY NeufBienForme DEF Types, Fiche
<1>2. DatesExclusives' /\ AttenteMeritee' /\ FenetresCouvertes' /\ LienMortGarde'
  BY DEF Neuf, DatesExclusives, AttenteMeritee, FenetresCouvertes, LienMortGarde
<1>3. SondesEnVol' /\ UneSeuleSonde'
  BY DEF SondesEnVol, UneSeuleSonde, Vivantes
<1>4. QED
  BY <1>1, <1>2, <1>3

\* The dates and the budgets lose a tick together, so they keep their order.
LEMMA TickIInv ==
  ASSUME IInv, Tick
  PROVE  IInv'
<1> USE ConstantesDisjoncteur DEF ConstantesDisjoncteur, IInv, Aucune, Tick
<1>0. sante \in Fiche
  BY DEF Types, Fiche
<1>a. \A c \in Appels : Vieillir(fenetre[c]) \in {Aucune} \union 0..BudgetSonde
  BY DEF Types, Vieillir
<1>1. Types'
  BY <1>0, <1>a, FicheBienFormee DEF Types, Fiche
<1>2. DatesExclusives' /\ AttenteMeritee' /\ LienMortGarde'
  BY <1>0, EffetTick DEF DatesExclusives, AttenteMeritee, LienMortGarde, Types, Vieillir
<1>3. FenetresCouvertes'
  BY <1>0, EffetTick DEF FenetresCouvertes, Types, Vieillir
<1>4. SondesEnVol' /\ UneSeuleSonde'
  BY DEF SondesEnVol, UneSeuleSonde, Vivantes, AVenir, Types, Vieillir
<1>5. QED
  BY <1>1, <1>2, <1>3, <1>4

LEMMA NextIInv == IInv /\ [Next]_vars => IInv'
<1> SUFFICES ASSUME IInv, [Next]_vars
             PROVE  IInv'
  OBVIOUS
<1>1. CASE \E c \in Appels : Lancer(c)
  BY <1>1, LancerIInv
<1>2. CASE \E c \in Appels : Reussir(c) \/ PanneReseau(c) \/ RefusDuRouteur(c)
  BY <1>2, VerdictIInv
<1>3. CASE Reinitialiser
  BY <1>3, ReinitialiserIInv
<1>4. CASE Tick
  BY <1>4, TickIInv
<1>5. CASE UNCHANGED vars
  BY <1>5 DEF vars, IInv, Types, DatesExclusives, AttenteMeritee,
      FenetresCouvertes, SondesEnVol, LienMortGarde, UneSeuleSonde, Vivantes
<1>6. QED
  BY <1>1, <1>2, <1>3, <1>4, <1>5 DEF Next

\* The inductive invariant holds in every reachable state of the breaker.
THEOREM Invariance == Spec => []IInv
<1>1. Init => IInv
  BY InitIInv
<1>2. IInv /\ [Next]_vars => IInv'
  BY NextIInv
<1>3. QED
  BY <1>1, <1>2, PTL DEF Spec

\* The breaker's record and the calls in flight keep their types, and the record never
\* has a rest and a probe's place at once.
THEOREM TypageDisjoncteur == Spec => []TypeOK
<1>1. IInv => TypeOK
  BY DEF IInv, TypeOK
<1>2. QED
  BY <1>1, Invariance, PTL

\* However many callers and whatever order their verdicts come in, two probes
\* are never in flight within their budget (autoriserAppel's single place).
THEOREM SondeUnique == Spec => []UneSeuleSonde
<1>1. IInv => UneSeuleSonde
  BY DEF IInv
<1>2. QED
  BY <1>1, Invariance, PTL

\* A link presumed dead never finds the breaker closed.
THEOREM LienMortToujoursGarde == Spec => []LienMortGarde
<1>1. IInv => LienMortGarde
  BY DEF IInv
<1>2. QED
  BY <1>1, Invariance, PTL

-----------------------------------------------------------------------------
(***************************************************************************)
(* The breaker implements CircuitBreaker under the mapping of RouterBreaker*)
(* (phase from the two dates, live probes from the budgets).               *)
(***************************************************************************)
LEMMA InitPromesse == Init => Promesse!Init
  BY DEF Init, Neuf, Promesse!Init, PhaseDuDisjoncteur, Vivantes, AVenir, Aucune

LEMMA LancerPromesse ==
  ASSUME IInv, NEW c \in Appels, Lancer(c)
  PROVE  Promesse!Passer(c) \/ Promesse!Sonder(c)
<1> USE ConstantesDisjoncteur DEF ConstantesDisjoncteur
<1>0. sante \in Fiche
  BY DEF IInv, Types, Fiche
<1>1. CASE PrendLaSonde(sante)
  <2>1. PhaseDuDisjoncteur # "ferme"
    BY <1>1 DEF PrendLaSonde, Passee, PhaseDuDisjoncteur, Aucune
  <2>2. Vivantes = {}
    BY <1>1 DEF PrendLaSonde, Passee, Vivantes, AVenir, IInv, FenetresCouvertes,
                Types, Aucune
  <2>3. sante'.sondeJusqua = BudgetSonde
    BY <1>0, <1>1 DEF Lancer, ApresAutorisation, Fiche
  <2>4. PhaseDuDisjoncteur' = "sonde"
    BY <2>3 DEF PhaseDuDisjoncteur, Aucune
  <2>5. Vivantes' = {c}
    BY <1>1, <2>2 DEF Lancer, Vivantes, AVenir, IInv, Types, Aucune
  <2>6. QED
    BY <2>1, <2>2, <2>4, <2>5 DEF Lancer, Promesse!Sonder
<1>2. CASE ~PrendLaSonde(sante)
  <2>1. PhaseDuDisjoncteur = "ferme"
    BY <1>0, <1>2 DEF Lancer, Refuse, PrendLaSonde, Passee, AVenir,
                      PhaseDuDisjoncteur, Fiche, Aucune
  <2>2. sante' = sante
    BY <1>2 DEF Lancer, ApresAutorisation
  <2>3. Vivantes' = Vivantes
    BY <1>2 DEF Lancer, Vivantes, AVenir, IInv, Types, SondesEnVol, Aucune
  <2>4. QED
    BY <2>1, <2>2, <2>3 DEF Lancer, Promesse!Passer, PhaseDuDisjoncteur
<1>3. QED
  BY <1>1, <1>2

LEMMA VerdictPromesse ==
  ASSUME IInv, NEW c \in Appels,
         Reussir(c) \/ PanneReseau(c) \/ RefusDuRouteur(c)
  PROVE  Promesse!Verdict(c)
<1>0. sante \in Fiche
  BY DEF IInv, Types, Fiche
<1>1. Revenir(c)
  BY DEF Reussir, PanneReseau, RefusDuRouteur
<1>2. sante'.sondeJusqua = Aucune
  BY <1>0, EffetRefus DEF Reussir, PanneReseau, RefusDuRouteur, ApresSucces, ApresPanneReseau
<1>3. PhaseDuDisjoncteur' \in {"ferme", "repos"}
  BY <1>2 DEF PhaseDuDisjoncteur
<1>4. Vivantes' = Vivantes \ {c}
  BY <1>1 DEF Revenir, Vivantes, AVenir, IInv, Types, Aucune
<1>5. QED
  BY <1>1, <1>3, <1>4 DEF Revenir, Promesse!Verdict

LEMMA ReinitialiserPromesse ==
  ASSUME IInv, Reinitialiser
  PROVE  Promesse!Oublier
  BY DEF Reinitialiser, Neuf, Promesse!Oublier, PhaseDuDisjoncteur, Vivantes, Aucune

LEMMA TickPromesse ==
  ASSUME IInv, Tick
  PROVE  (\E c \in Appels : Promesse!Perdre(c)) \/ UNCHANGED Promesse!vars
<1>0. sante \in Fiche
  BY DEF IInv, Types, Fiche
<1>1. PhaseDuDisjoncteur' = PhaseDuDisjoncteur
  BY <1>0, EffetTick, ConstantesDisjoncteur
  DEF Tick, PhaseDuDisjoncteur, Vieillir, Fiche, Aucune, ConstantesDisjoncteur
<1>2. Vivantes' \subseteq Vivantes
  BY ConstantesDisjoncteur
  DEF Tick, Vivantes, AVenir, Vieillir, IInv, Types, Aucune, ConstantesDisjoncteur
<1>3. CASE Vivantes' = Vivantes
  BY <1>1, <1>3 DEF Tick, Promesse!vars
<1>4. CASE Vivantes' # Vivantes
  <2>1. PICK c \in Vivantes : c \notin Vivantes'
    BY <1>2, <1>4
  <2>2. Vivantes = {c}
    BY <2>1 DEF IInv, UneSeuleSonde
  <2>3. Vivantes' = Vivantes \ {c}
    BY <1>2, <2>1, <2>2
  <2>4. Promesse!Perdre(c)
    BY <1>1, <2>1, <2>3 DEF Tick, Promesse!Perdre
  <2>5. c \in Appels
    BY <2>1 DEF Vivantes
  <2>6. QED
    BY <2>4, <2>5
<1>5. QED
  BY <1>3, <1>4

LEMMA NextPromesse == IInv /\ [Next]_vars => [Promesse!Next]_Promesse!vars
<1> SUFFICES ASSUME IInv, [Next]_vars
             PROVE  [Promesse!Next]_Promesse!vars
  OBVIOUS
<1>1. CASE \E c \in Appels : Lancer(c)
  BY <1>1, LancerPromesse DEF Promesse!Next
<1>2. CASE \E c \in Appels : Reussir(c) \/ PanneReseau(c) \/ RefusDuRouteur(c)
  BY <1>2, VerdictPromesse DEF Promesse!Next
<1>3. CASE Reinitialiser
  BY <1>3, ReinitialiserPromesse DEF Promesse!Next
<1>4. CASE Tick
  BY <1>4, TickPromesse DEF Promesse!Next
<1>5. CASE UNCHANGED vars
  BY <1>5 DEF vars, Promesse!vars, PhaseDuDisjoncteur, Vivantes
<1>6. QED
  BY <1>1, <1>2, <1>3, <1>4, <1>5 DEF Next

\* Counters, dates, late verdicts and resets included, what the callers see of
\* the breaker is the three-phase promise of CircuitBreaker.
THEOREM Raffinement == Spec => TientSaPromesse
<1>1. Init => Promesse!Init
  BY InitPromesse
<1>2. IInv /\ [Next]_vars => [Promesse!Next]_Promesse!vars
  BY NextPromesse
<1>3. QED
  BY <1>1, <1>2, Invariance, PTL DEF Spec, TientSaPromesse, Promesse!Spec

-----------------------------------------------------------------------------
(***************************************************************************)
(* JobLock, for any processes, any number of executions of each, any ttl.  *)
(***************************************************************************)

(***************************************************************************)
(* The inductive invariant: the two properties need each other.  A release *)
(* by an execution of the same process is harmless because two covered     *)
(* executions never coexist there; they never coexist because nobody       *)
(* released the lock early.                                                *)
(***************************************************************************)
EnCoursCouverte ==
  \A e \in Executions : etape[e] # "attente" /\ De[e] \notin enRetard => reste[e] > 0

IInvVerrou ==
  /\ TypeOKVerrou
  /\ EnCoursCouverte
  /\ RetardsSansContagion
  /\ PasDeChevauchement

LEMMA InitIInvVerrou == InitVerrou => IInvVerrou
  BY ConstantesVerrou, PorteursDistincts
  DEF ConstantesVerrou, InitVerrou, IInvVerrou, TypeOKVerrou, EnCoursCouverte, RetardsSansContagion,
      PasDeChevauchement, Couverte

LEMMA AcquerirIInv ==
  ASSUME IInvVerrou, NEW e \in Executions, Acquerir(e)
  PROVE  IInvVerrou'
<1> USE ConstantesVerrou DEF ConstantesVerrou, IInvVerrou, Acquerir, TypeOKVerrou
<1>1. TypeOKVerrou'
  <2>0. De[e] \in Processus
    BY ConstantesVerrou DEF ConstantesVerrou
  <2>1. De[e] \in Processus /\ Ttl \in 0..Ttl
    BY <2>0
  <2>2. verrou' \in [lockedUntil : 0..Ttl, holder : Processus \union {Personne, Disparu}]
    BY <2>1
  <2>3. etape' \in [Executions -> {"attente", "travail", "liberation"}]
    OBVIOUS
  <2>4. reste' \in [Executions -> 0..Ttl]
    BY <2>1
  <2>5. verrou'.holder # Personne
    BY <2>0, PorteursDistincts
  <2>6. QED
    BY <2>2, <2>3, <2>4, <2>5
<1>2. EnCoursCouverte'
  BY DEF EnCoursCouverte
\* The lock is free: whoever is still covered belongs to a late process.
<1>3. \A f \in Executions : Couverte(f) => De[f] \in enRetard
  BY DEF RetardsSansContagion, Couverte, Libre
<1>4. \A f \in Executions : f # e => (Couverte(f)' <=> Couverte(f))
  BY DEF Couverte
<1>5. RetardsSansContagion'
  BY <1>3, <1>4 DEF RetardsSansContagion
<1>6. PasDeChevauchement'
  BY <1>3, <1>4 DEF PasDeChevauchement
<1>7. QED
  BY <1>1, <1>2, <1>5, <1>6

LEMMA TerminerIInv ==
  ASSUME IInvVerrou, NEW e \in Executions, Terminer(e)
  PROVE  IInvVerrou'
  BY DEF IInvVerrou, Terminer, TypeOKVerrou, EnCoursCouverte, RetardsSansContagion,
         PasDeChevauchement, Couverte

\* The end of an execution, its release effective or lost.
LEMMA LibererIInv ==
  ASSUME IInvVerrou, NEW e \in Executions, Liberer(e) \/ LibererEnVain(e)
  PROVE  IInvVerrou'
<1> USE ConstantesVerrou DEF ConstantesVerrou, IInvVerrou
<1>1. Quitter(e) /\ verrou' \in {verrou, Rendue(verrou, De[e])}
  BY DEF Liberer, LibererEnVain
<1>2. TypeOKVerrou'
  BY <1>1 DEF TypeOKVerrou, Quitter, Rendue
<1>3. EnCoursCouverte'
  BY <1>1 DEF EnCoursCouverte, Quitter, TypeOKVerrou
<1>4. \A f \in Executions : Couverte(f)' => Couverte(f) /\ f # e /\ reste'[f] = reste[f]
  BY <1>1 DEF Couverte, Quitter, TypeOKVerrou
<1>5. PasDeChevauchement'
  BY <1>1, <1>4 DEF PasDeChevauchement, Quitter
<1>6. RetardsSansContagion'
  <2>1. SUFFICES ASSUME NEW f \in Executions, Couverte(f)', De[f] \notin enRetard'
                 PROVE  verrou'.holder = De[f] /\ verrou'.lockedUntil = reste'[f]
    BY DEF RetardsSansContagion
  <2>2. Couverte(f) /\ f # e /\ reste'[f] = reste[f] /\ De[f] \notin enRetard
    BY <1>1, <1>4, <2>1 DEF Quitter
  <2>3. verrou.holder = De[f] /\ verrou.lockedUntil = reste[f]
    BY <2>2 DEF RetardsSansContagion
  \* e is of another process: in the same one, e would be covered as well.
  <2>4. De[e] # De[f]
    BY <1>1, <2>2 DEF Quitter, EnCoursCouverte, PasDeChevauchement, Couverte
  <2>5. verrou' = verrou
    BY <1>1, <2>3, <2>4 DEF Rendue
  <2>6. QED
    BY <2>2, <2>3, <2>5
<1>7. QED
  BY <1>2, <1>3, <1>5, <1>6

LEMMA TuerIInv ==
  ASSUME IInvVerrou, NEW p \in Processus, Tuer(p)
  PROVE  IInvVerrou'
<1> USE ConstantesVerrou DEF ConstantesVerrou, IInvVerrou, Tuer, TypeOKVerrou
<1>1. TypeOKVerrou'
  BY DEF Personne, Disparu
<1>2. EnCoursCouverte'
  BY DEF EnCoursCouverte
<1>3. \A f \in Executions : Couverte(f)' =>
         Couverte(f) /\ De[f] # p /\ reste'[f] = reste[f]
  BY DEF Couverte
<1>4. RetardsSansContagion'
  BY <1>3 DEF RetardsSansContagion
<1>5. PasDeChevauchement'
  BY <1>3 DEF PasDeChevauchement
<1>6. QED
  BY <1>1, <1>2, <1>4, <1>5

LEMMA TickIInvVerrou ==
  ASSUME IInvVerrou, TickVerrou
  PROVE  IInvVerrou'
<1> USE ConstantesVerrou DEF ConstantesVerrou, IInvVerrou, TickVerrou, TypeOKVerrou, Moins1
<1>1. TypeOKVerrou'
  OBVIOUS
<1>2. EnCoursCouverte'
  BY DEF EnCoursCouverte
<1>3. \A f \in Executions : Couverte(f)' => Couverte(f) /\ reste'[f] = reste[f] - 1
  BY DEF Couverte
<1>4. enRetard \subseteq enRetard'
  OBVIOUS
<1>5. RetardsSansContagion'
  BY <1>3, <1>4 DEF RetardsSansContagion, Couverte
<1>6. PasDeChevauchement'
  BY <1>3, <1>4 DEF PasDeChevauchement
<1>7. QED
  BY <1>1, <1>2, <1>5, <1>6

LEMMA NextIInvVerrou == IInvVerrou /\ [NextVerrou]_varsVerrou => IInvVerrou'
<1> SUFFICES ASSUME IInvVerrou, [NextVerrou]_varsVerrou
             PROVE  IInvVerrou'
  OBVIOUS
<1>1. CASE \E e \in Executions : Acquerir(e)
  BY <1>1, AcquerirIInv
<1>2. CASE \E e \in Executions : Terminer(e)
  BY <1>2, TerminerIInv
<1>3. CASE \E e \in Executions : Liberer(e) \/ LibererEnVain(e)
  BY <1>3, LibererIInv
<1>4. CASE \E p \in Processus : Tuer(p)
  BY <1>4, TuerIInv
<1>5. CASE TickVerrou
  BY <1>5, TickIInvVerrou
<1>6. CASE UNCHANGED varsVerrou
  BY <1>6 DEF varsVerrou, IInvVerrou, TypeOKVerrou, EnCoursCouverte, RetardsSansContagion,
              PasDeChevauchement, Couverte
<1>7. QED
  BY <1>1, <1>2, <1>3, <1>4, <1>5, <1>6 DEF NextVerrou

\* The inductive invariant holds in every reachable state.
THEOREM InvarianceVerrou == SpecVerrou => []IInvVerrou
<1>1. InitVerrou => IInvVerrou
  BY InitIInvVerrou
<1>2. IInvVerrou /\ [NextVerrou]_varsVerrou => IInvVerrou'
  BY NextIInvVerrou
<1>3. QED
  BY <1>1, <1>2, PTL DEF SpecVerrou

\* The row and the executions keep their types, and a lock that holds names its process.
THEOREM TypageVerrou == SpecVerrou => []TypeOKVerrou
<1>1. IInvVerrou => TypeOKVerrou
  BY DEF IInvVerrou
<1>2. QED
  BY <1>1, InvarianceVerrou, PTL

\* Two executions within their ttl overlap only where one of their processes
\* has let an execution outlast its ttl.
THEOREM ExclusionSansRetard == SpecVerrou => []PasDeChevauchement
<1>1. IInvVerrou => PasDeChevauchement
  BY DEF IInvVerrou
<1>2. QED
  BY <1>1, InvarianceVerrou, PTL

\* A process that has never been late keeps its lock to the end of its ttl.
THEOREM SansContagion == SpecVerrou => []RetardsSansContagion
<1>1. IInvVerrou => RetardsSansContagion
  BY DEF IInvVerrou
<1>2. QED
  BY <1>1, InvarianceVerrou, PTL

-----------------------------------------------------------------------------
(***************************************************************************)
(* PlanProvisioning.                                                       *)
(* The inductive invariant follows how far each reconciliation has come: it*)
(* speaks of the calls that are not crossed, all of which work from the plan*)
(* of the row, so that whatever one of them writes is what the others want.*)
(***************************************************************************)

\* A plan is only taken from the row or from the profile; the shared users of the
\* profile were those of a plan.
PartageDuProfil == routeur.profil # Absent => routeur.u \in Partages

\* What a call may be at, for what it was made.
FormeAppel(c) ==
  /\ c.pour = "rien" <=> c.etape = "repos"
  /\ c.pour = "publier" <=> c.etape = "publication"
  /\ c.pour \in {"creer", "reconcilier", "publier"} => c.lue \in Offres
  /\ c.pour = "ecran" =>
       /\ c.lue = PasDOffre
       /\ c.etape \in {"retirerProfil", "aDetacher", "detacher", "supprimerLim", "jonction",
                       "rattacher", "fin", "echec"}
  /\ c.pour \in {"creer", "reconcilier"} =>
       /\ c.etape # "retirerProfil"
       /\ c.etape \in {"aDetacher", "detacher", "supprimerLim"} => ~c.lue.p
       /\ c.etape \in {"creerLim", "majLim", "jonction", "rattacher"} => c.lue.p
  /\ c.etape = "detacher" => c.cibles # {}

Formes == \A a \in Demandes : FormeAppel(appel[a])

\* A call that is not crossed works beside calls of the same plan only, and a call
\* whose course is net works alone.
MemeOffre ==
  \A a, b \in EnCours : appel[a].cours # "croise" => appel[b].lue = appel[a].lue
SeulSiNet ==
  \A a, b \in EnCours : appel[a].cours = "net" => a = b

\* The plan it reads is then still the plan of the row.
OffreLue ==
  \A a \in Demandes : Reconcilie(a) /\ appel[a].cours # "croise" => offre = appel[a].lue

ApresProfil == {"limitation", "creerLim", "majLim", "aDetacher", "detacher", "supprimerLim",
                "jonction", "rattacher", "fin"}

\* How far such a reconciliation has brought the router r.
AvanceProfil(r, c) ==
  c.etape \in ApresProfil => r.profil = c.lue.v /\ (c.lue.u => r.u)
AvanceLimitation(r, c) ==
  c.etape \in {"jonction", "rattacher", "fin"} /\ c.lue.p => r.lim = c.lue.v
AvanceFin(r, c) ==
  c.etape = "fin" => IF c.lue.p THEN r.jonctions # {} ELSE r.lim = Absent

Avancee ==
  \A a \in Demandes : Reconcilie(a) /\ appel[a].cours # "croise" =>
    /\ AvanceProfil(routeur, appel[a])
    /\ AvanceLimitation(routeur, appel[a])
    /\ AvanceFin(routeur, appel[a])

\* Alone, what it has read of the router is still so: it is never refused.
SansRefus(r, c) ==
  /\ c.etape = "creerProfil" => r.profil = Absent
  /\ c.etape = "majProfil" => r.profil # Absent
  /\ c.etape = "creerLim" => r.lim = Absent
  /\ c.etape \in {"majLim", "aDetacher", "detacher", "supprimerLim"} => r.lim # Absent
  /\ c.etape \in {"supprimerLim", "rattacher"} => r.jonctions = {}
  /\ c.etape = "detacher" => c.cibles = r.jonctions
  /\ c.etape # "echec"

JamaisRefusee ==
  \A a \in Demandes : Reconcilie(a) /\ appel[a].cours = "net" => SansRefus(routeur, appel[a])

IInvOffre ==
  /\ TypeOKOffre
  /\ PartageDuProfil
  /\ Formes
  /\ MemeOffre
  /\ SeulSiNet
  /\ OffreLue
  /\ Avancee
  /\ JamaisRefusee

-----------------------------------------------------------------------------
(***************************************************************************)
(* Types of a call and of the router, and what one step leaves of them.    *)
(***************************************************************************)
Appel ==
  [pour : {"rien", "creer", "publier", "reconcilier", "ecran"}, etape : Etapes,
   essai : 0..MaxRetries, lue : Offres \union {PasDOffre}, cibles : SUBSET Jonctions,
   cours : {"net", "mele", "croise"}]

Routeur ==
  [profil : Versions \union {Absent}, u : BOOLEAN,
   lim : Versions \union {Absent}, jonctions : SUBSET Jonctions]

RouteurOK(r) ==
  /\ r \in Routeur
  /\ r.jonctions # {} => r.lim # Absent /\ r.profil # Absent
  /\ r.profil # Absent => r.u \in Partages

\* The parts of TypeOKOffre, and PartageDuProfil.
LEMMA Typages ==
  TypeOKOffre /\ PartageDuProfil <=>
    /\ offre \in Offres \union {PasDOffre}
    /\ RouteurOK(routeur)
    /\ appel \in [Demandes -> Appel]
    /\ changements \in 0..MaxChangements
  BY DEF TypeOKOffre, PartageDuProfil, RouteurOK, Routeur, Appel

LEMMA TypagesPrimes ==
  TypeOKOffre' /\ PartageDuProfil' <=>
    /\ offre' \in Offres \union {PasDOffre}
    /\ RouteurOK(routeur')
    /\ appel' \in [Demandes -> Appel]
    /\ changements' \in 0..MaxChangements
  BY DEF TypeOKOffre, PartageDuProfil, RouteurOK, Routeur, Appel

LEMMA InactifOK == Inactif \in Appel /\ FormeAppel(Inactif)
  BY ConstantesOffre
  DEF ConstantesOffre, Inactif, Appel, Etapes, Ecritures, FormeAppel, PasDOffre

\* A call whose fields are set as the steps set them is still a call.
LEMMA AppelAvance ==
  ASSUME NEW b \in Appel, NEW e \in Etapes
  PROVE  LET c == [b EXCEPT !.etape = e, !.essai = 0] IN
         /\ c \in Appel /\ c.etape = e /\ c.pour = b.pour /\ c.lue = b.lue
         /\ c.cibles = b.cibles /\ c.cours = b.cours
<1>1. 0 \in 0..MaxRetries
  BY ConstantesOffre DEF ConstantesOffre
<1>2. QED
  BY <1>1 DEF Appel

LEMMA AppelEncoreUnEssai ==
  ASSUME NEW b \in Appel, b.essai < MaxRetries, NEW k \in {"net", "mele", "croise"}
  PROVE  LET c == [b EXCEPT !.essai = @ + 1, !.cours = k] IN
         /\ c \in Appel /\ c.etape = b.etape /\ c.pour = b.pour /\ c.lue = b.lue
         /\ c.cibles = b.cibles /\ c.cours = k
<1>1. b.essai + 1 \in 0..MaxRetries
  BY ConstantesOffre DEF ConstantesOffre, Appel
<1>2. QED
  BY <1>1 DEF Appel

LEMMA TeteDedans == \A s : s # {} => Tete(s) \in s
  BY DEF Tete

\* A plan that is read is not the absence of a plan.
LEMMA OffreExiste == ASSUME NEW o \in Offres PROVE o # PasDOffre /\ o.v # Absent /\ o.v \in Versions
  BY ConstantesOffre DEF ConstantesOffre, Offres, PasDOffre, Absent

\* A step of one call that goes on: what has to be looked at is the call itself, and
\* what the step did to the router under the other calls of the same plan.
LEMMA PasIInv ==
  ASSUME IInvOffre, NEW a \in Demandes, a \in EnCours,
         NEW c \in Appel, FormeAppel(c),
         appel' = [appel EXCEPT ![a] = c],
         c.pour = appel[a].pour, c.lue = appel[a].lue,
         c.etape \notin {"repos", "publication"},
         c.cours = appel[a].cours \/ c.cours = Perturbe(appel[a].cours),
         RouteurOK(routeur'), UNCHANGED <<offre, changements>>,
         Reconcilie(a) /\ c.cours # "croise" =>
           AvanceProfil(routeur', c) /\ AvanceLimitation(routeur', c) /\ AvanceFin(routeur', c),
         Reconcilie(a) /\ c.cours = "net" => SansRefus(routeur', c),
         \A b \in Demandes \ {a} : Reconcilie(b) /\ appel[b].cours # "croise" =>
           /\ AvanceProfil(routeur', appel[b])
           /\ AvanceLimitation(routeur', appel[b])
           /\ AvanceFin(routeur', appel[b])
  PROVE  IInvOffre'
<1>1. TypeOKOffre /\ PartageDuProfil /\ appel \in [Demandes -> Appel]
  BY Typages DEF IInvOffre
<1>2. appel'[a] = c /\ \A b \in Demandes \ {a} : appel'[b] = appel[b]
  BY <1>1
<1>3. EnCours' = EnCours
  BY <1>1, <1>2 DEF EnCours
<1>4. /\ c.cours # "croise" <=> appel[a].cours # "croise"
      /\ c.cours = "net" => appel[a].cours = "net"
  BY DEF Perturbe
<1>5. TypeOKOffre' /\ PartageDuProfil'
  <2>1. appel' \in [Demandes -> Appel]
    BY <1>1
  <2>2. QED
    BY <1>1, <2>1, Typages, TypagesPrimes
<1>6. Formes'
  BY <1>2 DEF IInvOffre, Formes
<1>7. MemeOffre'
  BY <1>2, <1>3, <1>4 DEF IInvOffre, MemeOffre, EnCours
<1>8. SeulSiNet'
  BY <1>2, <1>3, <1>4 DEF IInvOffre, SeulSiNet, EnCours
<1>9. OffreLue'
  BY <1>2, <1>4 DEF IInvOffre, OffreLue, Reconcilie
<1>10. Avancee'
  BY <1>2, <1>4 DEF Avancee, Reconcilie
<1>11. JamaisRefusee'
  <2>1. SUFFICES ASSUME NEW b \in Demandes, Reconcilie(b)', appel'[b].cours = "net"
                 PROVE  SansRefus(routeur', appel'[b])
    BY DEF JamaisRefusee
  <2>2. CASE b = a
    BY <1>2, <2>1, <2>2 DEF Reconcilie
  <2>3. CASE b # a
    <3>1. appel'[b] = appel[b]
      BY <1>2, <2>3
    <3>2. FormeAppel(appel[b]) /\ appel[b].pour \in {"creer", "reconcilier"}
      BY <2>1, <3>1 DEF IInvOffre, Formes, Reconcilie
    <3>3. b \in EnCours
      BY <3>2 DEF FormeAppel, EnCours
    <3>4. QED
      BY <2>1, <2>3, <3>1, <3>3 DEF IInvOffre, SeulSiNet
  <2>4. QED
    BY <2>2, <2>3
<1>12. QED
  BY <1>5, <1>6, <1>7, <1>8, <1>9, <1>10, <1>11 DEF IInvOffre

\* A call that ends, done or stopped: the router and the row stay.
LEMMA FinirIInv ==
  ASSUME IInvOffre, NEW a \in Demandes, Finir(a), UNCHANGED <<offre, routeur, changements>>
  PROVE  IInvOffre'
<1>1. TypeOKOffre /\ PartageDuProfil /\ appel \in [Demandes -> Appel]
  BY Typages DEF IInvOffre
<1>2. appel'[a] = Inactif /\ \A b \in Demandes \ {a} : appel'[b] = appel[b]
  BY <1>1 DEF Finir
<1>3. EnCours' = EnCours \ {a}
  BY <1>1, <1>2 DEF EnCours, Inactif
<1>4. ~Reconcilie(a)'
  BY <1>2 DEF Reconcilie, Inactif
<1>5. TypeOKOffre' /\ PartageDuProfil'
  <2>1. appel' \in [Demandes -> Appel]
    BY <1>1, InactifOK DEF Finir
  <2>2. QED
    BY <1>1, <2>1, Typages, TypagesPrimes
<1>6. Formes'
  BY <1>2, InactifOK DEF IInvOffre, Formes
<1>7. MemeOffre' /\ SeulSiNet'
  BY <1>2, <1>3 DEF IInvOffre, MemeOffre, SeulSiNet, EnCours
<1>8. OffreLue' /\ Avancee' /\ JamaisRefusee'
  BY <1>2, <1>4 DEF IInvOffre, OffreLue, Avancee, JamaisRefusee, Reconcilie
<1>9. QED
  BY <1>5, <1>6, <1>7, <1>8 DEF IInvOffre

\* Every call in progress is crossed: nothing is promised of any of them.
LEMMA CroisesIInv ==
  ASSUME IInvOffre, appel' \in [Demandes -> Appel],
         offre' \in Offres \union {PasDOffre}, changements' \in 0..MaxChangements,
         UNCHANGED routeur,
         \A b \in Demandes : FormeAppel(appel'[b]),
         \A b \in EnCours' : appel'[b].cours = "croise"
  PROVE  IInvOffre'
<1>1. TypeOKOffre' /\ PartageDuProfil'
  BY Typages, TypagesPrimes DEF IInvOffre
<1>2. \A b \in Demandes : Reconcilie(b)' => appel'[b].cours = "croise"
  BY DEF Reconcilie, FormeAppel, EnCours
<1>3. Formes' /\ MemeOffre' /\ SeulSiNet' /\ OffreLue' /\ Avancee' /\ JamaisRefusee'
  BY <1>2 DEF Formes, MemeOffre, SeulSiNet, OffreLue, Avancee, JamaisRefusee
<1>4. QED
  BY <1>1, <1>3 DEF IInvOffre

\* A call that begins: whoever works from another plan is crossed, and so is it.
LEMMA DebutIInv ==
  ASSUME IInvOffre, NEW a \in Demandes, NEW r \in Appel, Debut(a, r), FormeAppel(r),
         r.etape \in {"profil", "retirerProfil", "aDetacher", "supprimerLim", "jonction"},
         r.pour \in {"creer", "reconcilier"} => r.etape = "profil" /\ offre' = r.lue,
         offre' \in Offres \union {PasDOffre}, offre' = offre \/ ~offre.existe,
         changements' \in 0..MaxChangements
  PROVE  IInvOffre'
<1>1. TypeOKOffre /\ PartageDuProfil /\ appel \in [Demandes -> Appel]
  BY Typages DEF IInvOffre
<1>2. a \notin EnCours
  BY DEF Debut, En, EnCours
<1>3. \A b \in Demandes : appel'[b] =
        IF b = a THEN [r EXCEPT !.cours = appel'[a].cours]
        ELSE IF b \in EnCours THEN [appel[b] EXCEPT !.cours = Cours(appel[b], r)]
        ELSE appel[b]
  BY DEF Debut, Appel
<1>4. /\ appel'[a].cours \in {"net", "mele", "croise"}
      /\ appel'[a].cours = "net" => EnCours = {}
      /\ appel'[a].cours # "croise" => \A b \in EnCours : appel[b].lue = r.lue
  BY DEF Debut, Appel
<1>5. \A b \in EnCours :
        /\ Cours(appel[b], r) \in {"mele", "croise"}
        /\ Cours(appel[b], r) # "croise" => appel[b].lue = r.lue /\ appel[b].cours # "croise"
  BY DEF Cours
<1>6. /\ appel'[a].pour = r.pour /\ appel'[a].etape = r.etape /\ appel'[a].lue = r.lue
      /\ appel'[a].cibles = r.cibles
  BY <1>3 DEF Appel
<1>7. \A b \in Demandes \ {a} :
        /\ appel'[b].pour = appel[b].pour /\ appel'[b].etape = appel[b].etape
        /\ appel'[b].lue = appel[b].lue /\ appel'[b].cibles = appel[b].cibles
        /\ b \in EnCours => appel'[b].cours = Cours(appel[b], r)
        /\ b \notin EnCours => appel'[b] = appel[b]
  <2>1. SUFFICES ASSUME NEW b \in Demandes \ {a}
                 PROVE  /\ appel'[b].pour = appel[b].pour /\ appel'[b].etape = appel[b].etape
                        /\ appel'[b].lue = appel[b].lue /\ appel'[b].cibles = appel[b].cibles
                        /\ b \in EnCours => appel'[b].cours = Cours(appel[b], r)
                        /\ b \notin EnCours => appel'[b] = appel[b]
    OBVIOUS
  <2>2. appel[b] \in Appel
    BY <1>1
  <2>3. CASE b \in EnCours
    <3>1. appel'[b] = [appel[b] EXCEPT !.cours = Cours(appel[b], r)]
      BY <1>3, <2>3
    <3>2. QED
      BY <2>2, <2>3, <3>1 DEF Appel
  <2>4. CASE b \notin EnCours
    BY <1>3, <2>4
  <2>5. QED
    BY <2>3, <2>4
<1>8. EnCours' = EnCours \union {a}
  BY <1>6, <1>7 DEF EnCours
<1>9. TypeOKOffre' /\ PartageDuProfil'
  <2>1. appel' \in [Demandes -> Appel]
    <3>1. ASSUME NEW b \in Demandes PROVE appel'[b] \in Appel
      <4>1. appel[b] \in Appel
        BY <1>1
      <4>2. CASE b = a
        BY <1>3, <1>4, <4>2 DEF Appel
      <4>3. CASE b # a /\ b \in EnCours
        <5>1. appel'[b] = [appel[b] EXCEPT !.cours = Cours(appel[b], r)]
          BY <1>3, <4>3
        <5>2. QED
          BY <1>5, <4>1, <4>3, <5>1 DEF Appel
      <4>4. CASE b # a /\ b \notin EnCours
        BY <1>3, <4>1, <4>4
      <4>5. QED
        BY <4>2, <4>3, <4>4
    <3>2. QED
      BY <3>1 DEF Debut
  <2>2. QED
    BY <1>1, <2>1, Typages, TypagesPrimes DEF Debut
<1>10. Formes'
  BY <1>6, <1>7 DEF IInvOffre, Formes, FormeAppel
<1>11. MemeOffre' /\ SeulSiNet'
  BY <1>2, <1>4, <1>5, <1>6, <1>7, <1>8 DEF IInvOffre, MemeOffre, SeulSiNet, EnCours
\* A reconciliation that is not crossed goes on from where it was.
<1>12. \A b \in Demandes \ {a} : Reconcilie(b)' => b \in EnCours /\ Reconcilie(b) /\ appel'[b].cours # "net"
  BY <1>5, <1>7 DEF IInvOffre, Formes, FormeAppel, Reconcilie, EnCours
<1>13. \A b \in Demandes \ {a} : Reconcilie(b)' /\ appel'[b].cours # "croise" =>
         appel[b].cours # "croise" /\ offre = appel[b].lue /\ offre' = offre
  <2>1. SUFFICES ASSUME NEW b \in Demandes \ {a}, Reconcilie(b)', appel'[b].cours # "croise"
                 PROVE  appel[b].cours # "croise" /\ offre = appel[b].lue /\ offre' = offre
    OBVIOUS
  <2>2. appel[b].cours # "croise" /\ Reconcilie(b)
    BY <1>5, <1>7, <1>12, <2>1
  <2>3. offre = appel[b].lue /\ appel[b].lue \in Offres
    BY <2>2 DEF IInvOffre, OffreLue, Formes, FormeAppel, Reconcilie
  <2>4. offre.existe
    BY <2>3 DEF Offres
  <2>5. QED
    BY <2>2, <2>3, <2>4
<1>14. OffreLue'
  BY <1>6, <1>7, <1>13 DEF OffreLue, Reconcilie
<1>15. Avancee'
  <2>1. routeur' = routeur
    BY DEF Debut
  <2>2. \A b \in Demandes \ {a} : Reconcilie(b)' /\ appel'[b].cours # "croise" =>
          /\ AvanceProfil(routeur, appel[b])
          /\ AvanceLimitation(routeur, appel[b])
          /\ AvanceFin(routeur, appel[b])
    BY <1>12, <1>13 DEF IInvOffre, Avancee
  <2>3. QED
    BY <1>6, <1>7, <2>1, <2>2
    DEF Avancee, AvanceProfil, AvanceLimitation, AvanceFin, ApresProfil, Reconcilie
<1>16. JamaisRefusee'
  BY <1>6, <1>12 DEF JamaisRefusee, SansRefus, Reconcilie
<1>17. QED
  BY <1>9, <1>10, <1>11, <1>14, <1>15, <1>16 DEF IInvOffre

-----------------------------------------------------------------------------
(***************************************************************************)
(* The calls that begin, and the plan that is written.                     *)
(***************************************************************************)
LEMMA CreerOffreIInv ==
  ASSUME IInvOffre, NEW a \in Demandes, CreerOffre(a)
  PROVE  IInvOffre'
<1>1. PICK o \in Offres :
        offre' = o /\ Debut(a, [Inactif EXCEPT !.pour = "creer", !.etape = "profil", !.lue = o])
  BY DEF CreerOffre
<1> DEFINE r == [Inactif EXCEPT !.pour = "creer", !.etape = "profil", !.lue = o]
<1>2. /\ r \in Appel /\ FormeAppel(r) /\ r.etape = "profil" /\ r.lue = o
  BY InactifOK DEF Inactif, Appel, FormeAppel, Etapes
<1>3. changements' \in 0..MaxChangements
  BY ConstantesOffre DEF CreerOffre, Changer, IInvOffre, TypeOKOffre, ConstantesOffre
<1>4. ~offre.existe
  BY DEF CreerOffre
<1> HIDE DEF r
<1>5. QED
  BY <1>1, <1>2, <1>3, <1>4, DebutIInv DEF r

LEMMA ReconcilierIInv ==
  ASSUME IInvOffre, NEW a \in Demandes, Reconcilier(a)
  PROVE  IInvOffre'
<1> DEFINE r == [Inactif EXCEPT !.pour = "reconcilier", !.etape = "profil", !.lue = offre]
<1>1. offre \in Offres
  BY DEF Reconcilier, IInvOffre, TypeOKOffre, PasDOffre
<1>2. /\ r \in Appel /\ FormeAppel(r) /\ r.etape = "profil" /\ r.lue = offre
  BY <1>1, InactifOK DEF Inactif, Appel, FormeAppel, Etapes
<1>3. /\ Debut(a, r) /\ offre' = offre /\ changements' \in 0..MaxChangements
  BY DEF Reconcilier, IInvOffre, TypeOKOffre
<1> HIDE DEF r
<1>4. QED
  BY <1>1, <1>2, <1>3, DebutIInv

LEMMA AlaMainIInv ==
  ASSUME IInvOffre, NEW a \in Demandes, NEW e, AlaMain(a, e)
  PROVE  IInvOffre'
<1> DEFINE r == [Inactif EXCEPT !.pour = "ecran", !.etape = e]
<1>1. e \in {"retirerProfil", "aDetacher", "supprimerLim", "jonction"}
  BY DEF AlaMain
<1>2. /\ r \in Appel /\ FormeAppel(r) /\ r.etape = e /\ r.pour = "ecran"
  BY <1>1, InactifOK DEF Inactif, Appel, FormeAppel, Etapes, Ecritures
<1>3. /\ Debut(a, r) /\ offre' = offre /\ changements' \in 0..MaxChangements
      /\ offre' \in Offres \union {PasDOffre}
  BY DEF AlaMain, IInvOffre, TypeOKOffre
<1> HIDE DEF r
<1>4. QED
  BY <1>1, <1>2, <1>3, DebutIInv

\* What Perimer leaves of a call, in progress or not.
LEMMA PerimerOK ==
  ASSUME IInvOffre, NEW b \in Demandes
  PROVE  /\ Perimer[b] \in Appel
         /\ FormeAppel(Perimer[b])
         /\ Perimer[b].pour = appel[b].pour
         /\ Perimer[b].etape = appel[b].etape
         /\ Perimer[b].lue = appel[b].lue
         /\ Perimer[b].cibles = appel[b].cibles
         /\ b \in EnCours => Perimer[b].cours = "croise"
<1>1. appel[b] \in Appel /\ FormeAppel(appel[b])
  BY Typages DEF IInvOffre, Formes
<1>2. Perimer[b] = IF b \in EnCours THEN [appel[b] EXCEPT !.cours = "croise"] ELSE appel[b]
  BY DEF Perimer
<1>3. QED
  BY <1>1, <1>2 DEF Appel, FormeAppel

LEMMA ModifierOffreIInv ==
  ASSUME IInvOffre, ModifierOffre
  PROVE  IInvOffre'
<1>1. /\ appel' = Perimer /\ offre' \in Offres /\ UNCHANGED routeur
      /\ changements' \in 0..MaxChangements
  BY ConstantesOffre DEF ModifierOffre, Changer, IInvOffre, TypeOKOffre, ConstantesOffre
<1>2. appel' \in [Demandes -> Appel]
  BY <1>1, PerimerOK DEF Perimer
<1>3. \A b \in EnCours' : appel'[b].cours = "croise"
  BY <1>1, PerimerOK DEF EnCours
<1>4. QED
  BY <1>1, <1>2, <1>3, PerimerOK, CroisesIInv

LEMMA SupprimerOffreIInv ==
  ASSUME IInvOffre, SupprimerOffre
  PROVE  IInvOffre'
<1>1. /\ offre' \in Offres \union {PasDOffre} /\ UNCHANGED routeur
      /\ changements' \in 0..MaxChangements
  BY ConstantesOffre DEF SupprimerOffre, Changer, IInvOffre, TypeOKOffre, ConstantesOffre
<1>2. ASSUME NEW b \in Demandes
      PROVE  /\ appel'[b] \in Appel /\ FormeAppel(appel'[b])
             /\ appel'[b].etape = appel[b].etape
             /\ b \in EnCours => appel'[b].cours = "croise"
  <2>1. appel'[b] = IF appel[b].pour = "creer" THEN [Perimer[b] EXCEPT !.pour = "reconcilier"]
                    ELSE Perimer[b]
    BY DEF SupprimerOffre
  <2>2. CASE appel[b].pour = "creer"
    <3> DEFINE p == Perimer[b]
    <3>1. /\ p \in Appel /\ FormeAppel(p) /\ p.pour = "creer" /\ p.etape = appel[b].etape
          /\ b \in EnCours => p.cours = "croise"
      BY <2>2, PerimerOK
    <3>2. appel'[b] = [p EXCEPT !.pour = "reconcilier"]
      BY <2>1, <2>2
    <3> HIDE DEF p
    <3>3. QED
      BY <3>1, <3>2 DEF Appel, FormeAppel
  <2>3. CASE appel[b].pour # "creer"
    BY <2>1, <2>3, PerimerOK
  <2>4. QED
    BY <2>2, <2>3
<1>3. appel' \in [Demandes -> Appel]
  BY <1>2 DEF SupprimerOffre
<1>4. \A b \in EnCours' : appel'[b].cours = "croise"
  BY <1>2 DEF EnCours
<1>5. QED
  BY <1>1, <1>2, <1>3, <1>4, CroisesIInv

\* A reading of the profile is not a call that works on the router.
LEMMA LireAuTarifIInv ==
  ASSUME IInvOffre, NEW a \in Demandes, LireAuTarif(a)
  PROVE  IInvOffre'
<1> DEFINE c == [Inactif EXCEPT !.pour = "publier", !.etape = "publication",
                   !.lue = [existe |-> TRUE, v |-> routeur.profil, p |-> FALSE, u |-> routeur.u]]
<1>1. TypeOKOffre /\ PartageDuProfil /\ appel \in [Demandes -> Appel]
  BY Typages DEF IInvOffre
<1>2. [existe |-> TRUE, v |-> routeur.profil, p |-> FALSE, u |-> routeur.u] \in Offres
  BY <1>1 DEF LireAuTarif, TypeOKOffre, PartageDuProfil, Offres
<1>3. c \in Appel /\ FormeAppel(c) /\ c.etape = "publication" /\ c.pour = "publier"
  BY <1>2, InactifOK DEF Inactif, Appel, FormeAppel, Etapes
<1>4. appel' = [appel EXCEPT ![a] = c] /\ UNCHANGED <<offre, routeur, changements>>
  BY DEF LireAuTarif
<1> HIDE DEF c
<1>5. appel'[a] = c /\ \A b \in Demandes \ {a} : appel'[b] = appel[b]
  BY <1>1, <1>4
<1>6. EnCours' = EnCours
  BY <1>3, <1>5 DEF LireAuTarif, En, EnCours
<1>7. TypeOKOffre' /\ PartageDuProfil'
  <2>1. appel' \in [Demandes -> Appel]
    BY <1>1, <1>3, <1>4
  <2>2. QED
    BY <1>1, <1>4, <2>1, Typages, TypagesPrimes
<1>8. Formes'
  BY <1>3, <1>5 DEF IInvOffre, Formes
<1>9. MemeOffre' /\ SeulSiNet'
  BY <1>5, <1>6, <1>3 DEF IInvOffre, MemeOffre, SeulSiNet, EnCours, LireAuTarif, En
<1>10. OffreLue' /\ Avancee' /\ JamaisRefusee'
  BY <1>3, <1>4, <1>5 DEF IInvOffre, OffreLue, Avancee, JamaisRefusee, Reconcilie
<1>11. QED
  BY <1>7, <1>8, <1>9, <1>10 DEF IInvOffre

\* The row is written, or taken back, by a call that ends.
LEMMA PerimerEtFinirIInv ==
  ASSUME IInvOffre, NEW a \in Demandes, appel' = [Perimer EXCEPT ![a] = Inactif],
         offre' \in Offres \union {PasDOffre}, changements' \in 0..MaxChangements,
         UNCHANGED routeur
  PROVE  IInvOffre'
<1>1. DOMAIN Perimer = Demandes
  BY DEF Perimer
<1>2. ASSUME NEW b \in Demandes
      PROVE  /\ appel'[b] \in Appel /\ FormeAppel(appel'[b])
             /\ b \in EnCours' => appel'[b].cours = "croise"
  <2>1. CASE b = a
    BY <1>1, <2>1, InactifOK DEF EnCours, Inactif
  <2>2. CASE b # a
    BY <1>1, <2>2, PerimerOK DEF EnCours, Perimer
  <2>3. QED
    BY <2>1, <2>2
<1>3. appel' \in [Demandes -> Appel]
  BY <1>1, <1>2
<1>4. \A b \in EnCours' : appel'[b].cours = "croise"
  BY <1>2 DEF EnCours
<1>5. QED
  BY <1>2, <1>3, <1>4, CroisesIInv

LEMMA PublierIInv ==
  ASSUME IInvOffre, NEW a \in Demandes, Publier(a)
  PROVE  IInvOffre'
<1>1. CASE offre.existe
  BY <1>1, FinirIInv DEF Publier
<1>2. CASE ~offre.existe
  <2>1. appel[a].lue \in Offres
    BY DEF Publier, En, IInvOffre, Formes, FormeAppel
  <2>2. changements' \in 0..MaxChangements
    BY <1>2, ConstantesOffre DEF Publier, Changer, IInvOffre, TypeOKOffre, ConstantesOffre
  <2>3. QED
    BY <1>2, <2>1, <2>2, PerimerEtFinirIInv DEF Publier
<1>3. QED
  BY <1>1, <1>2

-----------------------------------------------------------------------------
(***************************************************************************)
(* The steps of a call in progress that leave the router as it is.         *)
(***************************************************************************)
LEMMA FaitsDUnAppel ==
  ASSUME IInvOffre, NEW a \in Demandes
  PROVE  /\ appel \in [Demandes -> Appel] /\ appel[a] \in Appel
         /\ FormeAppel(appel[a]) /\ RouteurOK(routeur)
         /\ Reconcilie(a) => appel[a].lue \in Offres
         /\ Reconcilie(a) /\ appel[a].cours # "croise" =>
              /\ offre = appel[a].lue
              /\ AvanceProfil(routeur, appel[a])
              /\ AvanceLimitation(routeur, appel[a])
              /\ AvanceFin(routeur, appel[a])
         /\ Reconcilie(a) /\ appel[a].cours = "net" => SansRefus(routeur, appel[a])
  BY Typages DEF IInvOffre, Formes, FormeAppel, Reconcilie, OffreLue, Avancee, JamaisRefusee

\* The call goes on to c; nothing else has moved.
LEMMA SurPlaceIInv ==
  ASSUME IInvOffre, NEW a \in EnCours,
         NEW c \in Appel, FormeAppel(c),
         appel' = [appel EXCEPT ![a] = c],
         c.pour = appel[a].pour, c.lue = appel[a].lue,
         c.etape \notin {"repos", "publication"},
         c.cours = appel[a].cours \/ c.cours = Perturbe(appel[a].cours),
         UNCHANGED <<offre, routeur, changements>>,
         Reconcilie(a) /\ c.cours # "croise" =>
           AvanceProfil(routeur, c) /\ AvanceLimitation(routeur, c) /\ AvanceFin(routeur, c),
         Reconcilie(a) /\ c.cours = "net" => SansRefus(routeur, c)
  PROVE  IInvOffre'
<1>1. a \in Demandes
  BY DEF EnCours
<1>2. RouteurOK(routeur')
  BY <1>1, FaitsDUnAppel
<1>3. \A b \in Demandes \ {a} : Reconcilie(b) /\ appel[b].cours # "croise" =>
        /\ AvanceProfil(routeur', appel[b])
        /\ AvanceLimitation(routeur', appel[b])
        /\ AvanceFin(routeur', appel[b])
  BY FaitsDUnAppel
<1>4. QED
  BY <1>1, <1>2, <1>3, PasIInv

LEMMA AllerIInv ==
  ASSUME IInvOffre, NEW a \in EnCours, NEW e \in Etapes \ {"repos", "publication", "detacher"},
         Aller(a, e), UNCHANGED <<offre, routeur, changements>>,
         appel[a].pour = "ecran" =>
           e \in {"retirerProfil", "aDetacher", "supprimerLim", "jonction", "rattacher", "fin", "echec"},
         Reconcilie(a) =>
           /\ e # "retirerProfil"
           /\ e \in {"aDetacher", "supprimerLim"} => ~appel[a].lue.p
           /\ e \in {"creerLim", "majLim", "jonction", "rattacher"} => appel[a].lue.p,
         Reconcilie(a) /\ appel[a].cours # "croise" =>
           /\ e \in ApresProfil =>
                routeur.profil = appel[a].lue.v /\ (appel[a].lue.u => routeur.u)
           /\ e \in {"jonction", "rattacher", "fin"} /\ appel[a].lue.p => routeur.lim = appel[a].lue.v
           /\ e = "fin" => IF appel[a].lue.p THEN routeur.jonctions # {} ELSE routeur.lim = Absent,
         Reconcilie(a) /\ appel[a].cours = "net" =>
           /\ e = "creerProfil" => routeur.profil = Absent
           /\ e = "majProfil" => routeur.profil # Absent
           /\ e = "creerLim" => routeur.lim = Absent
           /\ e \in {"majLim", "aDetacher", "supprimerLim"} => routeur.lim # Absent
           /\ e \in {"supprimerLim", "rattacher"} => routeur.jonctions = {}
           /\ e # "echec"
  PROVE  IInvOffre'
<1>1. a \in Demandes
  BY DEF EnCours
<1>2. appel \in [Demandes -> Appel] /\ appel[a] \in Appel /\ FormeAppel(appel[a])
  BY <1>1, FaitsDUnAppel
<1> DEFINE b == appel[a]
           c == [b EXCEPT !.etape = e, !.essai = 0]
<1>3. appel' = [appel EXCEPT ![a] = c]
  BY <1>1, <1>2 DEF Aller
<1>4. /\ c.pour = b.pour /\ c.lue = b.lue /\ c.cours = b.cours /\ c.cibles = b.cibles
      /\ c.etape = e /\ c \in Appel
  BY <1>2, AppelAvance
<1>5. b.etape \notin {"repos", "publication"}
  BY DEF EnCours
<1> HIDE DEF c
<1>6. FormeAppel(c)
  BY <1>2, <1>4, <1>5 DEF FormeAppel, Reconcilie
<1>7. Reconcilie(a) /\ c.cours # "croise" =>
        AvanceProfil(routeur, c) /\ AvanceLimitation(routeur, c) /\ AvanceFin(routeur, c)
  BY <1>4 DEF AvanceProfil, AvanceLimitation, AvanceFin
<1>8. Reconcilie(a) /\ c.cours = "net" => SansRefus(routeur, c)
  BY <1>4 DEF SansRefus
<1>9. QED
  BY <1>3, <1>4, <1>6, <1>7, <1>8, SurPlaceIInv

LEMMA LireProfilIInv ==
  ASSUME IInvOffre, NEW a \in Demandes, LireProfil(a)
  PROVE  IInvOffre'
<1>1. a \in EnCours /\ Reconcilie(a) /\ appel[a].pour # "ecran"
  BY FaitsDUnAppel DEF LireProfil, En, EnCours, FormeAppel, Reconcilie, Appel
<1> DEFINE e == CASE routeur.profil = Absent -> "creerProfil"
                  [] ProfilAligne(appel[a].lue) -> "limitation"
                  [] OTHER -> "majProfil"
<1>2. e \in {"creerProfil", "limitation", "majProfil"}
  OBVIOUS
<1>3. /\ e = "creerProfil" => routeur.profil = Absent
      /\ e = "majProfil" => routeur.profil # Absent
      /\ e = "limitation" =>
           routeur.profil = appel[a].lue.v /\ (appel[a].lue.u => routeur.u)
  BY DEF ProfilAligne
<1>4. Aller(a, e) /\ UNCHANGED <<offre, routeur, changements>>
  BY DEF LireProfil
<1> HIDE DEF e
<1>5. e \in Etapes \ {"repos", "publication", "detacher"}
  BY <1>2 DEF Etapes, Ecritures
<1>6. e \in ApresProfil => e = "limitation"
  BY <1>2 DEF ApresProfil
<1>7. QED
  BY <1>1, <1>2, <1>3, <1>4, <1>5, <1>6, AllerIInv

LEMMA LireLimitationIInv ==
  ASSUME IInvOffre, NEW a \in Demandes, LireLimitation(a)
  PROVE  IInvOffre'
<1>1. a \in EnCours /\ Reconcilie(a) /\ appel[a].pour # "ecran"
  BY FaitsDUnAppel DEF LireLimitation, En, EnCours, FormeAppel, Reconcilie, Appel
<1> DEFINE o == appel[a].lue
           e == ApresLimitation(o)
<1>2. o \in Offres
  BY <1>1, FaitsDUnAppel
<1>3. \/ ~o.p /\ routeur.lim = Absent /\ e = "fin"
      \/ ~o.p /\ routeur.lim # Absent /\ e = "aDetacher"
      \/ o.p /\ routeur.lim = Absent /\ e = "creerLim"
      \/ o.p /\ routeur.lim # Absent /\ routeur.lim = o.v /\ e = "jonction"
      \/ o.p /\ routeur.lim # Absent /\ routeur.lim # o.v /\ e = "majLim"
  BY <1>2 DEF ApresLimitation, Offres
<1>4. Aller(a, e) /\ UNCHANGED <<offre, routeur, changements>>
  BY DEF LireLimitation
<1>5. appel[a].cours # "croise" => routeur.profil = o.v /\ (o.u => routeur.u)
  BY <1>1, FaitsDUnAppel DEF LireLimitation, En, AvanceProfil, ApresProfil
<1> HIDE DEF e, o
<1>6. e \in Etapes \ {"repos", "publication", "detacher"}
  BY <1>3 DEF Etapes, Ecritures
<1>7. QED
  BY <1>1, <1>3, <1>4, <1>5, <1>6, AllerIInv DEF o

LEMMA LireJonctionIInv ==
  ASSUME IInvOffre, NEW a \in Demandes, LireJonction(a)
  PROVE  IInvOffre'
<1>1. a \in EnCours /\ En(a, "jonction")
  BY DEF LireJonction, En, EnCours
<1> DEFINE o == appel[a].lue
           e == IF routeur.jonctions = {} THEN "rattacher" ELSE "fin"
<1>2. e \in {"rattacher", "fin"} /\ (e = "fin" <=> routeur.jonctions # {})
  OBVIOUS
<1>3. Aller(a, e) /\ UNCHANGED <<offre, routeur, changements>>
  BY DEF LireJonction
<1>4. Reconcilie(a) => o.p
  BY <1>1, FaitsDUnAppel DEF En, FormeAppel, Reconcilie
<1>5. Reconcilie(a) /\ appel[a].cours # "croise" =>
        routeur.profil = o.v /\ (o.u => routeur.u) /\ routeur.lim = o.v
  BY <1>1, <1>4, FaitsDUnAppel DEF En, AvanceProfil, AvanceLimitation, ApresProfil
<1> HIDE DEF e, o
<1>6. e \in Etapes \ {"repos", "publication", "detacher"}
  BY <1>2 DEF Etapes, Ecritures
<1>7. QED
  BY <1>1, <1>2, <1>3, <1>4, <1>5, <1>6, AllerIInv DEF o

\* A call that reconciles and is at the detaching, refused or not, goes to the limitation.
LEMMA DetacherRateIInv ==
  ASSUME IInvOffre, NEW a \in Demandes, Reconcilie(a), Aller(a, "supprimerLim"),
         appel[a].etape \in {"aDetacher", "detacher"}, UNCHANGED <<offre, routeur, changements>>,
         appel[a].cours = "net" => routeur.jonctions = {}
  PROVE  IInvOffre'
<1>1. a \in EnCours /\ appel[a].pour # "ecran" /\ ~appel[a].lue.p
  BY FaitsDUnAppel DEF EnCours, FormeAppel, Reconcilie
<1>2. appel[a].cours # "croise" =>
        routeur.profil = appel[a].lue.v /\ (appel[a].lue.u => routeur.u)
  BY FaitsDUnAppel DEF AvanceProfil, ApresProfil
<1>3. appel[a].cours = "net" => routeur.lim # Absent
  BY FaitsDUnAppel DEF SansRefus
<1>4. "supprimerLim" \in Etapes \ {"repos", "publication", "detacher"}
  BY DEF Etapes, Ecritures
<1>5. QED
  BY <1>1, <1>2, <1>3, <1>4, AllerIInv

\* A call that fails is not a reconciliation of net course.
LEMMA RaterIInv ==
  ASSUME IInvOffre, NEW a \in EnCours, Rater(a), UNCHANGED <<offre, routeur, changements>>,
         ~(Reconcilie(a) /\ appel[a].cours = "net")
  PROVE  IInvOffre'
<1>1. "echec" \in Etapes \ {"repos", "publication", "detacher"}
  BY DEF Etapes
<1>2. "echec" \notin ApresProfil
  BY DEF ApresProfil
<1>3. QED
  BY <1>1, <1>2, AllerIInv DEF Rater

LEMMA ListerJonctionsIInv ==
  ASSUME IInvOffre, NEW a \in Demandes, ListerJonctions(a)
  PROVE  IInvOffre'
<1>1. a \in EnCours /\ appel[a].etape = "aDetacher" /\ UNCHANGED <<offre, routeur, changements>>
  BY DEF ListerJonctions, En, EnCours
<1>2. CASE routeur.jonctions # {}
  <2> DEFINE b == appel[a]
             c == [b EXCEPT !.etape = "detacher", !.essai = 0, !.cibles = routeur.jonctions]
  <2>1. appel \in [Demandes -> Appel] /\ b \in Appel /\ FormeAppel(b) /\ RouteurOK(routeur)
    BY FaitsDUnAppel
  <2>2. appel' = [appel EXCEPT ![a] = c]
    BY <1>2, <2>1 DEF ListerJonctions
  <2>3. /\ c.pour = b.pour /\ c.lue = b.lue /\ c.cours = b.cours /\ c.cibles = routeur.jonctions
        /\ c.etape = "detacher" /\ c \in Appel
    <3>1. "detacher" \in Etapes /\ routeur.jonctions \in SUBSET Jonctions
      BY <2>1 DEF RouteurOK, Routeur, Etapes, Ecritures
    <3>2. 0 \in 0..MaxRetries
      BY ConstantesOffre DEF ConstantesOffre
    <3>3. QED
      BY <2>1, <3>1, <3>2 DEF Appel
  <2> HIDE DEF c
  <2>4. FormeAppel(c)
    BY <1>1, <1>2, <2>1, <2>3 DEF FormeAppel
  <2>5. Reconcilie(a) /\ c.cours # "croise" =>
          AvanceProfil(routeur, c) /\ AvanceLimitation(routeur, c) /\ AvanceFin(routeur, c)
    BY <1>1, <2>3, FaitsDUnAppel DEF AvanceProfil, AvanceLimitation, AvanceFin, ApresProfil
  <2>6. Reconcilie(a) /\ c.cours = "net" => SansRefus(routeur, c)
    BY <1>1, <2>3, FaitsDUnAppel DEF SansRefus
  <2>7. QED
    BY <1>1, <2>2, <2>3, <2>4, <2>5, <2>6, SurPlaceIInv
<1>3. CASE routeur.jonctions = {} /\ Reconcilie(a)
  BY <1>1, <1>3, DetacherRateIInv DEF ListerJonctions
<1>4. CASE routeur.jonctions = {} /\ ~Reconcilie(a)
  BY <1>1, <1>4, RaterIInv DEF ListerJonctions
<1>5. QED
  BY <1>2, <1>3, <1>4

-----------------------------------------------------------------------------
(***************************************************************************)
(* The writes.                                                             *)
(***************************************************************************)
\* A write needs its plan where it writes one.
LEMMA EcritureAOffre ==
  ASSUME NEW c \in Appel, FormeAppel(c),
         c.etape \in {"creerProfil", "majProfil", "creerLim", "majLim"}
  PROVE  c.lue \in Offres /\ c.pour \in {"creer", "reconcilier"}
  BY DEF FormeAppel, Appel

\* The router after a write that was accepted: its types, and what holds a junction.
LEMMA FaitOK ==
  ASSUME NEW r, RouteurOK(r), NEW c \in Appel, FormeAppel(c), c.etape \in Ecritures, Accepte(r, c)
  PROVE  RouteurOK(Fait(r, c))
<1> USE DEF RouteurOK
<1>1. CASE c.etape = "creerProfil"
  <2>1. c.lue.v \in Versions /\ c.lue.v # Absent /\ c.lue.u \in Partages /\ c.lue.u \in BOOLEAN
    BY <1>1, EcritureAOffre, OffreExiste, ConstantesOffre DEF Offres, ConstantesOffre
  <2>2. Fait(r, c) = [r EXCEPT !.profil = c.lue.v, !.u = c.lue.u]
    BY <1>1 DEF Fait
  <2>3. QED
    BY <1>1, <2>1, <2>2 DEF Accepte, Routeur
<1>2. CASE c.etape = "majProfil"
  <2>1. c.lue.v \in Versions /\ c.lue.v # Absent /\ c.lue.u \in Partages /\ c.lue.u \in BOOLEAN
    BY <1>2, EcritureAOffre, OffreExiste, ConstantesOffre DEF Offres, ConstantesOffre
  <2>2. r.profil # Absent /\ r.u \in Partages /\ r.u \in BOOLEAN
    BY <1>2 DEF Accepte, Routeur
  <2>3. PartageApres(r, c.lue) \in Partages /\ PartageApres(r, c.lue) \in BOOLEAN
    <3>1. CASE r.u = TRUE
      BY <2>1, <2>2, <3>1 DEF PartageApres
    <3>2. CASE r.u = FALSE
      BY <2>1, <2>2, <3>2 DEF PartageApres
    <3>3. QED
      BY <2>2, <3>1, <3>2
  <2>4. Fait(r, c) = [r EXCEPT !.profil = c.lue.v, !.u = PartageApres(r, c.lue)]
    BY <1>2 DEF Fait
  <2>5. QED
    BY <1>2, <2>1, <2>2, <2>3, <2>4 DEF Accepte, Routeur
<1>3. CASE c.etape = "retirerProfil"
  BY <1>3 DEF Accepte, Fait, Routeur
<1>4. CASE c.etape \in {"creerLim", "majLim"}
  <2>1. c.lue.v \in Versions /\ c.lue.v # Absent
    BY <1>4, EcritureAOffre, OffreExiste
  <2>2. Fait(r, c) = [r EXCEPT !.lim = c.lue.v]
    BY <1>4 DEF Fait
  <2>3. QED
    BY <2>1, <2>2 DEF Routeur
<1>5. CASE c.etape = "supprimerLim"
  BY <1>5 DEF Accepte, Fait, Routeur
<1>6. CASE c.etape = "detacher"
  <2>1. r.jonctions # {}
    BY <1>6, TeteDedans DEF Accepte, FormeAppel
  <2>2. Fait(r, c) = [r EXCEPT !.jonctions = r.jonctions \ {Tete(c.cibles)}]
    BY <1>6 DEF Fait
  <2>3. QED
    BY <2>1, <2>2 DEF Routeur
<1>7. CASE c.etape = "rattacher"
  <2>1. r.jonctions \subseteq Jonctions /\ r.jonctions # Jonctions
    BY <1>7 DEF Accepte, Routeur
  <2>2. Tete(Jonctions \ r.jonctions) \in Jonctions
    BY <2>1, TeteDedans
  <2>3. Fait(r, c) = [r EXCEPT !.jonctions = r.jonctions \union {Tete(Jonctions \ r.jonctions)}]
    BY <1>7 DEF Fait
  <2>4. QED
    BY <1>7, <2>2, <2>3 DEF Accepte, Routeur
<1>8. QED
  BY <1>1, <1>2, <1>3, <1>4, <1>5, <1>6, <1>7 DEF Ecritures

\* What a write changes of the router, field by field.
LEMMA EffetFait ==
  ASSUME NEW r \in Routeur, NEW c, c.etape \in Ecritures
  PROVE  /\ c.etape \in {"creerProfil", "majProfil"} =>
              Fait(r, c).profil = c.lue.v /\ Fait(r, c).lim = r.lim
              /\ Fait(r, c).jonctions = r.jonctions
         /\ c.etape = "creerProfil" => Fait(r, c).u = c.lue.u
         /\ c.etape = "majProfil" => Fait(r, c).u = PartageApres(r, c.lue)
         /\ c.etape \in {"creerLim", "majLim"} => Fait(r, c).lim = c.lue.v
         /\ c.etape = "supprimerLim" => Fait(r, c).lim = Absent
         /\ c.etape \in {"creerLim", "majLim", "supprimerLim"} =>
              /\ Fait(r, c).profil = r.profil /\ Fait(r, c).u = r.u
              /\ Fait(r, c).jonctions = r.jonctions
         /\ c.etape \in {"detacher", "rattacher"} =>
              /\ Fait(r, c).profil = r.profil /\ Fait(r, c).u = r.u /\ Fait(r, c).lim = r.lim
         /\ c.etape = "detacher" => Fait(r, c).jonctions = r.jonctions \ {Tete(c.cibles)}
         /\ c.etape = "rattacher" =>
              Fait(r, c).jonctions = r.jonctions \union {Tete(Jonctions \ r.jonctions)}
  BY DEF Fait, Routeur, Ecritures

\* A write for a plan leaves the router no farther from that plan, whatever the other
\* call b of the same plan has come to.
LEMMA FaitGarde ==
  ASSUME NEW r, RouteurOK(r), NEW c \in Appel, FormeAppel(c), c.etape \in Ecritures,
         c.pour \in {"creer", "reconcilier"}, Accepte(r, c),
         NEW b \in Appel, b.lue = c.lue,
         AvanceProfil(r, b), AvanceLimitation(r, b), AvanceFin(r, b)
  PROVE  AvanceProfil(Fait(r, c), b) /\ AvanceLimitation(Fait(r, c), b) /\ AvanceFin(Fait(r, c), b)
<1> DEFINE s == Fait(r, c)
<1>0. r \in Routeur /\ c.lue \in Offres
  BY DEF RouteurOK, FormeAppel
<1>1. AvanceProfil(s, b)
  <2>1. CASE c.etape \in {"creerProfil", "majProfil"}
    <3>1. s.profil = c.lue.v
      BY <1>0, <2>1, EffetFait
    <3>2. c.lue.u => s.u
      <4>1. CASE c.etape = "creerProfil"
        BY <1>0, <4>1, EffetFait
      <4>2. CASE c.etape = "majProfil"
        <5>1. s.u = PartageApres(r, c.lue)
          BY <1>0, <4>2, EffetFait
        <5>2. QED
          BY <5>1 DEF PartageApres
      <4>3. QED
        BY <2>1, <4>1, <4>2
    <3>3. QED
      BY <3>1, <3>2 DEF AvanceProfil
  <2>2. CASE c.etape \in {"creerLim", "majLim", "supprimerLim", "detacher", "rattacher"}
    <3>1. s.profil = r.profil /\ s.u = r.u
      BY <1>0, <2>2, EffetFait
    <3>2. QED
      BY <3>1 DEF AvanceProfil
  <2>3. QED
    BY <2>1, <2>2 DEF Ecritures, FormeAppel
<1>2. AvanceLimitation(s, b)
  <2>1. c.lue.p => c.etape \notin {"supprimerLim", "detacher"}
    BY DEF FormeAppel
  <2>2. c.lue.p => s.lim = r.lim \/ s.lim = c.lue.v
    <3>1. c.etape # "retirerProfil"
      BY DEF FormeAppel
    <3>2. CASE c.etape \in {"creerLim", "majLim"}
      BY <1>0, <3>2, EffetFait
    <3>3. CASE c.etape \in {"creerProfil", "majProfil"}
      BY <1>0, <3>3, EffetFait
    <3>4. CASE c.etape = "rattacher"
      BY <1>0, <3>4, EffetFait
    <3>5. QED
      BY <2>1, <3>1, <3>2, <3>3, <3>4 DEF Ecritures
  <2>3. QED
    BY <2>2 DEF AvanceLimitation
<1>3. AvanceFin(s, b)
  <2>1. CASE c.lue.p
    <3>1. r.jonctions # {} => s.jonctions # {}
      <4>1. c.etape \in {"creerProfil", "majProfil", "creerLim", "majLim", "rattacher"}
        BY <2>1 DEF FormeAppel, Ecritures
      <4>2. QED
        BY <1>0, <4>1, EffetFait
    <3>2. QED
      BY <2>1, <3>1 DEF AvanceFin
  <2>2. CASE ~c.lue.p
    <3>1. c.etape \in {"creerProfil", "majProfil", "supprimerLim", "detacher"}
      BY <2>2 DEF FormeAppel, Ecritures
    <3>2. s.lim \in {r.lim, Absent}
      BY <1>0, <3>1, EffetFait
    <3>3. QED
      BY <2>2, <3>2 DEF AvanceFin
  <2>3. QED
    BY <2>1, <2>2
<1>4. QED
  BY <1>1, <1>2, <1>3

\* So it is under the calls that are not crossed, when the write is that of a call.
LEMMA FaitGardeLesAutres ==
  ASSUME IInvOffre, NEW a \in EnCours, appel[a].etape \in Ecritures, Accepte(routeur, appel[a]),
         NEW b \in Demandes, Reconcilie(b), appel[b].cours # "croise"
  PROVE  /\ appel[a].lue = appel[b].lue /\ Reconcilie(a)
         /\ AvanceProfil(Fait(routeur, appel[a]), appel[b])
         /\ AvanceLimitation(Fait(routeur, appel[a]), appel[b])
         /\ AvanceFin(Fait(routeur, appel[a]), appel[b])
<1>1. a \in Demandes /\ b \in EnCours
  <2>1. FormeAppel(appel[b])
    BY FaitsDUnAppel
  <2>2. appel[b].etape \notin {"repos", "publication"}
    BY <2>1 DEF FormeAppel, Reconcilie
  <2>3. QED
    BY <2>2 DEF EnCours
<1>2. /\ appel[a] \in Appel /\ FormeAppel(appel[a]) /\ RouteurOK(routeur)
      /\ appel[b] \in Appel /\ appel[b].lue \in Offres
      /\ AvanceProfil(routeur, appel[b])
      /\ AvanceLimitation(routeur, appel[b])
      /\ AvanceFin(routeur, appel[b])
  BY <1>1, FaitsDUnAppel
<1>3. appel[a].lue = appel[b].lue
  BY <1>1 DEF IInvOffre, MemeOffre
<1>4. appel[a].pour \in {"creer", "reconcilier"}
  <2>1. appel[a].lue # PasDOffre
    BY <1>2, <1>3, OffreExiste
  <2>2. appel[a].etape \notin {"repos", "publication"}
    BY DEF EnCours
  <2>3. QED
    BY <1>2, <2>1, <2>2 DEF FormeAppel, Appel
<1>5. Reconcilie(a)
  BY <1>4 DEF Reconcilie
<1>6. /\ AvanceProfil(Fait(routeur, appel[a]), appel[b])
      /\ AvanceLimitation(Fait(routeur, appel[a]), appel[b])
      /\ AvanceFin(Fait(routeur, appel[a]), appel[b])
  BY <1>2, <1>3, <1>4, FaitGarde
<1>7. QED
  BY <1>3, <1>5, <1>6

\* A write that is accepted brings its own call on.
LEMMA EcrireIInv ==
  ASSUME IInvOffre, NEW a \in Demandes, Ecrire(a)
  PROVE  IInvOffre'
<1> DEFINE b == appel[a]
           e == Suite(b)
           s == IF b.etape = "detacher" THEN b.cibles \ {Tete(b.cibles)} ELSE {}
           c == [b EXCEPT !.etape = e, !.essai = 0, !.cibles = s]
           r == Fait(routeur, b)
<1>1. /\ a \in EnCours /\ b.etape \in Ecritures /\ Accepte(routeur, b)
      /\ UNCHANGED <<offre, changements>> /\ routeur' = r
  BY DEF Ecrire, EnCours, Ecritures
<1>2. /\ appel \in [Demandes -> Appel] /\ b \in Appel /\ FormeAppel(b)
      /\ RouteurOK(routeur) /\ routeur \in Routeur
      /\ Reconcilie(a) => b.lue \in Offres
  BY FaitsDUnAppel DEF RouteurOK
<1>3. appel' = [appel EXCEPT ![a] = c]
  BY <1>2 DEF Ecrire, En
<1>4. RouteurOK(r)
  BY <1>1, <1>2, FaitOK
<1>5. \/ b.etape \in {"creerProfil", "majProfil"} /\ e = "limitation"
      \/ b.etape \in {"creerLim", "majLim"} /\ e = "jonction"
      \/ b.etape = "detacher" /\ s # {} /\ e = "detacher"
      \/ b.etape = "detacher" /\ s = {} /\ b.pour # "ecran" /\ e = "supprimerLim"
      \/ b.etape = "detacher" /\ s = {} /\ b.pour = "ecran" /\ e = "fin"
      \/ b.etape \in {"retirerProfil", "supprimerLim", "rattacher"} /\ e = "fin"
  <2>1. b.etape = "detacher" => (s = {} <=> b.cibles = {Tete(b.cibles)})
    BY <1>2, TeteDedans DEF FormeAppel
  <2>2. CASE b.etape \in {"creerProfil", "majProfil", "creerLim", "majLim"}
    BY <2>2 DEF Suite
  <2>3. CASE b.etape = "detacher"
    <3>1. CASE s # {}
      <4>1. b.cibles # {Tete(b.cibles)}
        BY <2>1, <2>3, <3>1
      <4>2. e = "detacher"
        BY <2>3, <4>1 DEF Suite
      <4>3. QED
        BY <2>3, <3>1, <4>2
    <3>2. CASE s = {} /\ b.pour # "ecran"
      <4>1. e = "supprimerLim"
        BY <2>1, <2>3, <3>2 DEF Suite
      <4>2. QED
        BY <2>3, <3>2, <4>1
    <3>3. CASE s = {} /\ b.pour = "ecran"
      <4>1. e = "fin"
        BY <2>1, <2>3, <3>3 DEF Suite
      <4>2. QED
        BY <2>3, <3>3, <4>1
    <3>4. QED
      BY <3>1, <3>2, <3>3
  <2>4. CASE b.etape \in {"retirerProfil", "supprimerLim", "rattacher"}
    BY <2>4 DEF Suite
  <2>5. QED
    BY <1>1, <2>2, <2>3, <2>4 DEF Ecritures
<1>6. e \in Etapes \ {"repos", "publication"} /\ s \in SUBSET Jonctions
  BY <1>2, <1>5 DEF Etapes, Ecritures, Appel
<1>7. /\ c \in Appel /\ c.etape = e /\ c.pour = b.pour /\ c.lue = b.lue
      /\ c.cibles = s /\ c.cours = b.cours
  <2>1. 0 \in 0..MaxRetries
    BY ConstantesOffre DEF ConstantesOffre
  <2> HIDE DEF e, s, b
  <2>2. QED
    BY <1>2, <1>6, <2>1 DEF Appel
<1> HIDE DEF e, s, c, r
<1>8. FormeAppel(c)
  BY <1>2, <1>5, <1>7 DEF FormeAppel
<1>9. ASSUME Reconcilie(a), b.cours # "croise"
      PROVE  AvanceProfil(r, c) /\ AvanceLimitation(r, c) /\ AvanceFin(r, c)
  <2>1. AvanceProfil(r, b) /\ AvanceLimitation(r, b) /\ AvanceFin(r, b)
    BY <1>1, <1>9, FaitGardeLesAutres DEF r
  <2>2. b.pour \in {"creer", "reconcilier"} /\ b.lue \in Offres
    BY <1>2, <1>9 DEF Reconcilie
  <2>3. CASE b.etape \in {"creerProfil", "majProfil"}
    <3>1. r.profil = b.lue.v
      BY <1>1, <1>2, <2>3, EffetFait DEF r
    <3>2. b.lue.u => r.u
      <4>1. CASE b.etape = "creerProfil"
        BY <1>1, <1>2, <4>1, EffetFait DEF r
      <4>2. CASE b.etape = "majProfil"
        <5>1. r.u = PartageApres(routeur, b.lue)
          BY <1>1, <1>2, <4>2, EffetFait DEF r
        <5>2. QED
          BY <5>1 DEF PartageApres
      <4>3. QED
        BY <2>3, <4>1, <4>2
    <3>3. QED
      BY <1>5, <1>7, <2>3, <3>1, <3>2 DEF AvanceProfil, AvanceLimitation, AvanceFin
  <2>4. CASE b.etape \in {"creerLim", "majLim"}
    <3>1. r.lim = b.lue.v
      BY <1>1, <1>2, <2>4, EffetFait DEF r
    <3>2. QED
      BY <1>5, <1>7, <2>1, <2>4, <3>1 DEF AvanceProfil, AvanceLimitation, AvanceFin, ApresProfil
  <2>5. CASE b.etape = "detacher"
    BY <1>2, <1>5, <1>7, <2>1, <2>2, <2>5
    DEF AvanceProfil, AvanceLimitation, AvanceFin, ApresProfil, FormeAppel
  <2>6. CASE b.etape = "supprimerLim"
    <3>1. r.lim = Absent /\ ~b.lue.p
      BY <1>1, <1>2, <2>2, <2>6, EffetFait DEF r, FormeAppel
    <3>2. QED
      BY <1>5, <1>7, <2>1, <2>6, <3>1 DEF AvanceProfil, AvanceLimitation, AvanceFin, ApresProfil
  <2>7. CASE b.etape = "rattacher"
    <3>1. r.jonctions = routeur.jonctions \union {Tete(Jonctions \ routeur.jonctions)}
      BY <1>1, <1>2, <2>7, EffetFait DEF r
    <3>2. r.jonctions # {} /\ b.lue.p
      BY <1>2, <2>2, <2>7, <3>1 DEF FormeAppel
    <3>3. QED
      BY <1>5, <1>7, <2>1, <2>7, <3>2 DEF AvanceProfil, AvanceLimitation, AvanceFin, ApresProfil
  <2>8. QED
    BY <1>2, <1>5, <2>2, <2>3, <2>4, <2>5, <2>6, <2>7 DEF FormeAppel
<1>10. ASSUME Reconcilie(a), b.cours = "net"
       PROVE  SansRefus(r, c)
  <2>1. SansRefus(routeur, b)
    BY <1>10, FaitsDUnAppel
  <2>2. CASE b.etape = "detacher"
    <3>1. r.jonctions = routeur.jonctions \ {Tete(b.cibles)} /\ r.lim = routeur.lim
      BY <1>1, <1>2, <2>2, EffetFait DEF r
    <3>2. b.cibles = routeur.jonctions /\ routeur.lim # Absent
      BY <2>1, <2>2 DEF SansRefus
    <3>3. r.jonctions = s /\ r.lim # Absent
      BY <2>2, <3>1, <3>2 DEF s
    <3>4. b.pour # "ecran"
      BY <1>10 DEF Reconcilie
    <3>5. QED
      BY <1>5, <1>7, <2>2, <3>3, <3>4 DEF SansRefus
  <2>3. CASE b.etape # "detacher"
    BY <1>5, <1>7, <2>3 DEF SansRefus
  <2>4. QED
    BY <2>2, <2>3
<1>11. \A d \in Demandes \ {a} : Reconcilie(d) /\ appel[d].cours # "croise" =>
         AvanceProfil(r, appel[d]) /\ AvanceLimitation(r, appel[d]) /\ AvanceFin(r, appel[d])
  BY <1>1, FaitGardeLesAutres DEF r
<1>12. QED
  BY <1>1, <1>3, <1>4, <1>6, <1>7, <1>8, <1>9, <1>10, <1>11, PasIInv

\* A refusal: the router has nothing of it.  Alone, a reconciliation is never refused.
LEMMA RefuserIInv ==
  ASSUME IInvOffre, NEW a \in Demandes, Refuser(a)
  PROVE  IInvOffre'
<1>1. /\ a \in EnCours /\ appel[a].etape \in Ecritures /\ UNCHANGED <<offre, routeur, changements>>
  BY DEF Refuser, EnCours, Ecritures
<1>2. ~(Reconcilie(a) /\ appel[a].cours = "net")
  <2>1. SUFFICES ASSUME Reconcilie(a), appel[a].cours = "net"
                 PROVE  FALSE
    OBVIOUS
  <2> DEFINE b == appel[a]
  <2>2. /\ SansRefus(routeur, b) /\ AvanceProfil(routeur, b) /\ AvanceLimitation(routeur, b)
        /\ b.lue \in Offres /\ FormeAppel(b) /\ b.pour \in {"creer", "reconcilier"}
    BY <2>1, FaitsDUnAppel DEF Reconcilie
  <2>3. b.lue.v # Absent
    BY <2>2, OffreExiste
  <2>4. ~Accepte(routeur, b)
    BY <2>2 DEF Refuser, En, FormeAppel
  <2>5. CASE b.etape = "rattacher"
    <3>1. routeur.profil # Absent /\ routeur.lim # Absent
      BY <2>2, <2>3, <2>5 DEF AvanceProfil, AvanceLimitation, ApresProfil, FormeAppel
    <3>2. routeur.jonctions # Jonctions
      BY <2>2, <2>5, ConstantesOffre DEF SansRefus, ConstantesOffre
    <3>3. QED
      BY <2>4, <2>5, <3>1, <3>2 DEF Accepte
  <2>6. CASE b.etape # "rattacher"
    BY <1>1, <2>2, <2>4, <2>6 DEF SansRefus, Accepte, Ecritures, FormeAppel
  <2>7. QED
    BY <2>5, <2>6
<1>3. CASE appel[a].etape \in {"aDetacher", "detacher"} /\ Reconcilie(a)
  BY <1>1, <1>2, <1>3, DetacherRateIInv DEF Refuser, RaterRequete
<1>4. CASE ~(appel[a].etape \in {"aDetacher", "detacher"} /\ Reconcilie(a))
  BY <1>1, <1>2, <1>4, RaterIInv DEF Refuser, RaterRequete
<1>5. QED
  BY <1>3, <1>4

\* An answer that is lost: the router has done what was asked, or not, and the call
\* tries again, gives up, or goes on to the limitation; its course is not net any more.
LEMMA PerdreReponseIInv ==
  ASSUME IInvOffre, NEW a \in Demandes, PerdreReponse(a)
  PROVE  IInvOffre'
<1> DEFINE b == appel[a]
           k == Perturbe(b.cours)
<1>1. /\ a \in EnCours /\ UNCHANGED <<offre, changements>>
      /\ b.etape \in Ecritures \union {"profil", "limitation", "jonction", "aDetacher"}
  BY DEF PerdreReponse, EnCours, Ecritures
<1>2. /\ appel \in [Demandes -> Appel] /\ b \in Appel /\ FormeAppel(b) /\ RouteurOK(routeur)
  BY FaitsDUnAppel
<1>3. k \in {"mele", "croise"} /\ (k = "croise" <=> b.cours = "croise")
  BY <1>2 DEF Perturbe, Appel
<1>4. /\ RouteurOK(routeur')
      /\ \A d \in Demandes : Reconcilie(d) /\ appel[d].cours # "croise" =>
           /\ AvanceProfil(routeur', appel[d])
           /\ AvanceLimitation(routeur', appel[d])
           /\ AvanceFin(routeur', appel[d])
  <2>1. CASE UNCHANGED routeur
    BY <1>2, <2>1, FaitsDUnAppel
  <2>2. CASE /\ b.etape \in Ecritures /\ Accepte(routeur, b) /\ routeur' = Fait(routeur, b)
    BY <1>1, <1>2, <2>2, FaitOK, FaitGardeLesAutres
  <2>3. QED
    BY <2>1, <2>2 DEF PerdreReponse
<1>5. \E c \in Appel :
        /\ appel' = [appel EXCEPT ![a] = c]
        /\ c.pour = b.pour /\ c.lue = b.lue /\ c.cours = k
        /\ \/ c.etape = b.etape /\ c.cibles = b.cibles
           \/ c.etape = "supprimerLim" /\ b.etape \in {"aDetacher", "detacher"} /\ Reconcilie(a)
           \/ c.etape = "echec"
  <2>1. CASE b.essai < MaxRetries
    <3> DEFINE c == [b EXCEPT !.essai = @ + 1, !.cours = k]
    <3>1. appel' = [appel EXCEPT ![a] = c]
      BY <1>2, <2>1 DEF PerdreReponse, EncoreUnEssai
    <3>2. k \in {"net", "mele", "croise"}
      BY <1>3
    <3>3. /\ c \in Appel /\ c.etape = b.etape /\ c.pour = b.pour /\ c.lue = b.lue
          /\ c.cibles = b.cibles /\ c.cours = k
      BY <1>2, <2>1, <3>2, AppelEncoreUnEssai
    <3> HIDE DEF c
    <3>4. QED
      BY <3>1, <3>3
  <2>2. CASE ~(b.essai < MaxRetries)
    <3> DEFINE e == IF b.etape \in {"aDetacher", "detacher"} /\ Reconcilie(a)
                    THEN "supprimerLim" ELSE "echec"
               c == [b EXCEPT !.cours = k, !.essai = 0, !.cibles = {}, !.etape = e]
    <3>1. appel' = [appel EXCEPT ![a] = c]
      BY <1>2, <2>2 DEF PerdreReponse
    <3>2. k \in {"net", "mele", "croise"} /\ e \in Etapes
      BY <1>3 DEF Etapes, Ecritures
    <3>3. /\ c \in Appel /\ c.etape = e /\ c.pour = b.pour /\ c.lue = b.lue /\ c.cours = k
      <4>1. 0 \in 0..MaxRetries
        BY ConstantesOffre DEF ConstantesOffre
      <4> HIDE DEF e, k
      <4>2. QED
        BY <1>2, <3>2, <4>1 DEF Appel
    <3> HIDE DEF c
    <3>4. QED
      BY <3>1, <3>3
  <2>3. QED
    BY <2>1, <2>2
<1>6. PICK c \in Appel :
        /\ appel' = [appel EXCEPT ![a] = c]
        /\ c.pour = b.pour /\ c.lue = b.lue /\ c.cours = k
        /\ \/ c.etape = b.etape /\ c.cibles = b.cibles
           \/ c.etape = "supprimerLim" /\ b.etape \in {"aDetacher", "detacher"} /\ Reconcilie(a)
           \/ c.etape = "echec"
  BY <1>5
<1>7. c.etape \notin {"repos", "publication"}
  BY <1>1, <1>6 DEF Ecritures
<1>8. FormeAppel(c)
  <2>1. b.etape \notin {"repos", "publication"}
    BY <1>1 DEF Ecritures
  <2>2. CASE c.etape = b.etape /\ c.cibles = b.cibles
    BY <1>2, <1>6, <2>2 DEF FormeAppel
  <2>3. CASE c.etape = "supprimerLim" /\ b.etape \in {"aDetacher", "detacher"} /\ Reconcilie(a)
    BY <1>2, <1>6, <2>3 DEF FormeAppel, Reconcilie
  <2>4. CASE c.etape = "echec"
    BY <1>2, <1>6, <2>1, <2>4 DEF FormeAppel
  <2>5. QED
    BY <1>6, <2>2, <2>3, <2>4
<1>9. Reconcilie(a) /\ c.cours # "croise" =>
        AvanceProfil(routeur', c) /\ AvanceLimitation(routeur', c) /\ AvanceFin(routeur', c)
  <2>1. SUFFICES ASSUME Reconcilie(a), c.cours # "croise"
                 PROVE  AvanceProfil(routeur', c) /\ AvanceLimitation(routeur', c)
                        /\ AvanceFin(routeur', c)
    OBVIOUS
  <2>2. AvanceProfil(routeur', b) /\ AvanceLimitation(routeur', b) /\ AvanceFin(routeur', b)
    BY <1>3, <1>4, <1>6, <2>1
  <2>3. QED
    BY <1>6, <2>2 DEF AvanceProfil, AvanceLimitation, AvanceFin, ApresProfil
<1>10. c.cours # "net"
  BY <1>3, <1>6
<1>11. QED
  BY <1>1, <1>4, <1>6, <1>7, <1>8, <1>9, <1>10, PasIInv

\* A reconciliation that is alone still has its row when it is recorded.
LEMMA EnregistrerIInv ==
  ASSUME IInvOffre, NEW a \in Demandes, Enregistrer(a)
  PROVE  IInvOffre'
<1>1. a \in EnCours /\ UNCHANGED <<offre, routeur, changements>>
  BY DEF Enregistrer, En, EnCours
<1>2. CASE Reconcilie(a) /\ ~offre.existe
  <2>1. appel[a].cours # "net"
    <3>1. SUFFICES ASSUME appel[a].cours = "net"
                   PROVE  FALSE
      OBVIOUS
    <3>2. offre \in Offres
      BY <1>2, <3>1, FaitsDUnAppel
    <3>3. QED
      BY <1>2, <3>2 DEF Offres
  <2>2. QED
    BY <1>1, <1>2, <2>1, RaterIInv DEF Enregistrer
<1>3. CASE ~(Reconcilie(a) /\ ~offre.existe)
  BY <1>1, <1>3, FinirIInv DEF Enregistrer
<1>4. QED
  BY <1>2, <1>3

LEMMA RendreIInv ==
  ASSUME IInvOffre, NEW a \in Demandes, Rendre(a)
  PROVE  IInvOffre'
<1>1. /\ offre' \in Offres \union {PasDOffre} /\ UNCHANGED <<routeur, changements>>
      /\ changements' \in 0..MaxChangements
  BY DEF Rendre, IInvOffre, TypeOKOffre
<1>2. CASE offre' # offre
  BY <1>1, <1>2, PerimerEtFinirIInv DEF Rendre
<1>3. CASE offre' = offre
  BY <1>1, <1>3, FinirIInv DEF Rendre
<1>4. QED
  BY <1>2, <1>3

-----------------------------------------------------------------------------
LEMMA InitIInvOffre == InitOffre => IInvOffre
<1> SUFFICES ASSUME InitOffre
             PROVE  IInvOffre
  OBVIOUS
<1>1. \A a \in Demandes : appel[a] = Inactif
  BY DEF InitOffre
<1>2. TypeOKOffre /\ PartageDuProfil
  <2>1. appel \in [Demandes -> Appel]
    BY InactifOK DEF InitOffre
  <2>2. RouteurOK(routeur)
    BY DEF InitOffre, RouteurOK, Routeur
  <2>3. changements \in 0..MaxChangements
    BY ConstantesOffre DEF InitOffre, ConstantesOffre
  <2>4. QED
    BY <2>1, <2>2, <2>3, Typages DEF InitOffre
<1>3. Formes
  BY <1>1, InactifOK DEF Formes
<1>4. EnCours = {} /\ \A a \in Demandes : ~Reconcilie(a)
  BY <1>1 DEF EnCours, Inactif, Reconcilie
<1>5. MemeOffre /\ SeulSiNet /\ OffreLue /\ Avancee /\ JamaisRefusee
  BY <1>4 DEF MemeOffre, SeulSiNet, OffreLue, Avancee, JamaisRefusee
<1>6. QED
  BY <1>2, <1>3, <1>5 DEF IInvOffre

LEMMA NextIInvOffre == IInvOffre /\ [NextOffre]_varsOffre => IInvOffre'
<1> SUFFICES ASSUME IInvOffre, [NextOffre]_varsOffre
             PROVE  IInvOffre'
  OBVIOUS
<1>1. ASSUME NEW a \in Demandes, CreerOffre(a) \/ LireAuTarif(a) \/ Publier(a)
      PROVE  IInvOffre'
  BY <1>1, CreerOffreIInv, LireAuTarifIInv, PublierIInv
<1>2. ASSUME NEW a \in Demandes, Reconcilier(a)
      PROVE  IInvOffre'
  BY <1>2, ReconcilierIInv
<1>3. ASSUME NEW a \in Demandes, Avancer(a)
      PROVE  IInvOffre'
  <2>1. CASE LireProfil(a) \/ LireLimitation(a) \/ LireJonction(a) \/ ListerJonctions(a)
    BY <2>1, LireProfilIInv, LireLimitationIInv, LireJonctionIInv, ListerJonctionsIInv
  <2>2. CASE Ecrire(a) \/ Refuser(a) \/ PerdreReponse(a)
    BY <2>2, EcrireIInv, RefuserIInv, PerdreReponseIInv
  <2>3. CASE Enregistrer(a) \/ Rendre(a)
    BY <2>3, EnregistrerIInv, RendreIInv
  <2>4. QED
    BY <1>3, <2>1, <2>2, <2>3 DEF Avancer
<1>4. ASSUME NEW a \in Demandes, Interrompre(a)
      PROVE  IInvOffre'
  BY <1>4, FinirIInv DEF Interrompre
<1>5. ASSUME NEW a \in Demandes, NEW e, AlaMain(a, e)
      PROVE  IInvOffre'
  BY <1>5, AlaMainIInv
<1>6. CASE ModifierOffre \/ SupprimerOffre
  BY <1>6, ModifierOffreIInv, SupprimerOffreIInv
<1>7. CASE UNCHANGED varsOffre
  BY <1>7 DEF varsOffre, IInvOffre, TypeOKOffre, PartageDuProfil, Formes, MemeOffre, SeulSiNet,
              OffreLue, Avancee, JamaisRefusee, EnCours, Reconcilie
<1>8. QED
  BY <1>1, <1>2, <1>3, <1>4, <1>5, <1>6, <1>7 DEF NextOffre

\* The inductive invariant of the provisioning holds in every reachable state.
THEOREM InvarianceOffre == SpecOffre => []IInvOffre
<1>1. InitOffre => IInvOffre
  BY InitIInvOffre
<1>2. IInvOffre /\ [NextOffre]_varsOffre => IInvOffre'
  BY NextIInvOffre
<1>3. QED
  BY <1>1, <1>2, PTL DEF SpecOffre

\* The row, the router and the calls keep their types, and a limitation is never
\* removed under a junction.
THEOREM TypageOffre == SpecOffre => []TypeOKOffre
<1>1. IInvOffre => TypeOKOffre
  BY DEF IInvOffre
<1>2. QED
  BY <1>1, InvarianceOffre, PTL

\* A reconciliation that is about to be recorded has brought the router to the plan it
\* has read, whatever was lost and whoever else reconciled the same plan.
THEOREM OffreEnPlace == SpecOffre => []ReconciliationTient
<1>1. IInvOffre => ReconciliationTient
  BY DEF IInvOffre, Avancee, AvanceProfil, AvanceLimitation, AvanceFin, ApresProfil,
         ReconciliationTient, Conforme, En
<1>2. QED
  BY <1>1, InvarianceOffre, PTL

\* Whatever half-done state the router was left in, a reconciliation that is alone and
\* gets its answers does not fail.
THEOREM ToujoursRejouable == SpecOffre => []ReconciliationRejouable
<1>1. IInvOffre => ReconciliationRejouable
  BY DEF IInvOffre, JamaisRefusee, SansRefus, ReconciliationRejouable, En
<1>2. QED
  BY <1>1, InvarianceOffre, PTL
=============================================================================
