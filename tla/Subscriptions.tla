---------------------------- MODULE Subscriptions ----------------------------
(***************************************************************************)
(* Recurring subscriptions (SubscriptionsService), the job that suspends   *)
(* those whose grace is over (ExpiryJobService.suspendExhausted), the      *)
(* replay of a deferred BASCULER_COMPTE and the bypass of a subscriber's   *)
(* device (DevicesService).  They share a row, an account of User Manager  *)
(* and an ip-binding; each call to the router and each write of the        *)
(* database is a step, and a gesture keeps what it read at its beginning.  *)
(*                                                                         *)
(* Dates are the time that is left before them; graceEndsAt is always      *)
(* written with currentPeriodEnd, Grace later.  A call whose answer is     *)
(* lost after it took effect is the call followed by a failure.            *)
(***************************************************************************)
EXTENDS Integers, FiniteSets

CONSTANTS
  Abonnes,    \* subscriptions, each with its account and its device
  Anciens,    \* those that exist from the beginning
  Requetes,   \* gestures of the operators that may be in progress
  Periode,    \* subscriptionPeriodDays, in ticks
  Grace,      \* GRACE_PERIOD_DAYS, in ticks
  MaxRetries, \* times a request of the router is sent again
  MaxGestes,  \* gestures of the operators (bound)
  MaxPannes   \* refusals, failures, restarts and accounts taken away (bound)

ASSUME ConstantesAbonnement ==
  /\ Anciens \subseteq Abonnes
  /\ Periode \in Nat \ {0} /\ Grace \in Nat
  /\ MaxRetries \in Nat /\ MaxGestes \in Nat /\ MaxPannes \in Nat

Personne == "personne"
ASSUME PersonneNEstAbonne == Personne \notin Abonnes

\* The time left stops counting when the grace is over; below, no date.
Fond == -Grace
Aucune == Fond - 1
Vieillir(date) == IF date > Fond THEN date - 1 ELSE date
PlusTard(d, e) == IF d > e THEN d ELSE e

VARIABLES
  abonnement, \* the row: status ("ABSENT" before its creation), currentPeriodEnd
  compte,     \* on the router: does it exist, disabled, farthest end-time
  appareil,   \* the device: type of its binding, and mikrotikBindingId known
  enFile,     \* a BASCULER_COMPTE that disables the account waits
  requete,    \* per gesture: which, how far, on whom, what it has read or worked out
  travail,    \* suspendExhausted: how far it is, its list, its current row
  gestes, pannes,
  trouble,    \* per subscription, why its row and its router may disagree
  perte,      \* whether a date was written over one that had been moved or was later
  du          \* the end that the renewals recorded so far add up to
              \* (these three are not in the code)

routeur == <<compte, appareil>>
temoins == <<trouble, perte, du>>
vars == <<abonnement, routeur, enFile, requete, travail, gestes, pannes, temoins>>

Repos == [geste |-> "aucun", etape |-> "repos", s |-> Personne, lu |-> "ABSENT",
          fin |-> Fond, du |-> Fond, bouge |-> FALSE, croise |-> FALSE]
SansTravail == [etape |-> "repos", liste |-> {}, s |-> Personne, croise |-> FALSE]

\* Some have just subscribed, and their calendar runs.
Init ==
  /\ abonnement = [s \in Abonnes |->
       IF s \in Anciens THEN [status |-> "ACTIVE", fin |-> Periode]
       ELSE [status |-> "ABSENT", fin |-> Fond]]
  /\ compte = [s \in Abonnes |->
       [existe |-> s \in Anciens, disabled |-> FALSE,
        fin |-> IF s \in Anciens THEN Periode ELSE Aucune]]
  /\ du = [s \in Abonnes |-> IF s \in Anciens THEN Periode ELSE Fond]
  /\ appareil = [s \in Abonnes |-> [type |-> "aucun", suivi |-> FALSE]]
  /\ enFile = [s \in Abonnes |-> FALSE]
  /\ requete = [q \in Requetes |-> Repos]
  /\ travail = SansTravail
  /\ gestes = 0 /\ pannes = 0
  /\ trouble = [s \in Abonnes |-> {}]
  /\ perte = [s \in Abonnes |-> FALSE]

Inscrit(s) == abonnement[s].status # "ABSENT"
Ouvert(s) == abonnement[s].status \in {"ACTIVE", "GRACE"}
Epuise(s) == abonnement[s].fin = Fond

En(q, etape) == requete[q].etape = etape
Aller(q, etape) == requete' = [requete EXCEPT ![q].etape = etape]
Finir(q) == requete' = [requete EXCEPT ![q] = Repos]
Compter == pannes < MaxPannes /\ pannes' = pannes + 1

\* deriveStatus, from the end that a gesture has read.
Derive(fin) == IF fin > 0 THEN "ACTIVE" ELSE IF fin > Fond THEN "GRACE" ELSE "SUSPENDED"

-----------------------------------------------------------------------------
(* Gestures that open or close an access, for the history variables.       *)

OuvreOuFerme(r) ==
  \/ r.geste \in {"souscrire", "suspendre", "reprendre", "contourner", "bloquer"}
  \/ r.geste = "renouveler" /\ r.lu = "SUSPENDED"
SurAcces(q, s) == requete[q].s = s /\ OuvreOuFerme(requete[q])
TravailSur(s) == travail.s = s

\* The gesture has touched the router and not yet written the row: cut here, it
\* leaves them apart.
Entame(q) ==
  /\ OuvreOuFerme(requete[q])
  /\ requete[q].etape \notin {"repos", "compte", "lu", "ouverture", "fermeture", "contournement"}
TravailEntame == travail.etape \in {"coupure", "suspension"}

Coupes(s) ==
  IF (\E q \in Requetes : requete[q].s = s /\ Entame(q)) \/ (TravailSur(s) /\ TravailEntame)
  THEN {"coupe"} ELSE {}

\* A gesture begins on the row that it has just read.
Commencer(q, geste, etape, s) ==
  LET r == [Repos EXCEPT !.geste = geste, !.etape = etape, !.s = s,
              !.lu = abonnement[s].status, !.fin = abonnement[s].fin, !.du = du[s]]
      autres == {p \in Requetes : SurAcces(p, s)}
  IN
  /\ En(q, "repos") /\ gestes < MaxGestes /\ gestes' = gestes + 1
  /\ requete' = [p \in Requetes |->
       IF p = q THEN [r EXCEPT !.croise = autres # {} \/ TravailSur(s)]
       ELSE IF p \in autres /\ OuvreOuFerme(r) THEN [requete[p] EXCEPT !.croise = TRUE]
       ELSE requete[p]]
  /\ travail' = [travail EXCEPT !.croise = @ \/ (TravailSur(s) /\ OuvreOuFerme(r))]
  /\ UNCHANGED <<abonnement, routeur, enFile, pannes, temoins>>

\* What an opening or a closing that ends leaves behind it.
Bilan(croise, motifs) == IF croise THEN {"croise"} ELSE motifs

\* The end of the period is written: whoever has read another one is told.
EcrireFin(q, fin) ==
  LET s == requete[q].s IN
  requete' = [p \in Requetes |->
    IF p = q THEN Repos
    ELSE IF requete[p].s = s THEN [requete[p] EXCEPT !.bouge = @ \/ fin # abonnement[s].fin]
    ELSE requete[p]]

-----------------------------------------------------------------------------
(* create: the account, its profile, then the row.                         *)

Souscrire(q, s) == ~Inscrit(s) /\ Commencer(q, "souscrire", "compte", s)

\* createUserManagerUser refuses a name that exists.
CreerCompte(q) ==
  LET s == requete[q].s IN
  /\ En(q, "compte")
  /\ \/ /\ ~compte[s].existe
        /\ compte' = [compte EXCEPT ![s] = [existe |-> TRUE, disabled |-> FALSE, fin |-> Aucune]]
        /\ Aller(q, "attribution")
     \/ compte[s].existe /\ Finir(q) /\ UNCHANGED compte
  /\ UNCHANGED <<abonnement, appareil, enFile, travail, gestes, pannes, temoins>>

\* (Mutated form of Retenue: the router's end is taken even when it is earlier.)
RetenueToujours(r, e) == IF e # Aucune THEN e ELSE r.fin

\* The end that the router returns counts for a creation if there is one, for a
\* renewal if it is not earlier than what was paid.
Retenue(r, e) ==
  IF e # Aucune /\ (r.geste = "souscrire" \/ e >= r.fin) THEN e ELSE r.fin

\* What one assignment of the profile may put on the account: a period for each time
\* it is sent, withControlledRetry sending it again when its answer is lost.
\* (Mutated form of Empilees: it is sent once more than that.)
EmpileesDeTrop == {Periode * n : n \in 1..(2 + MaxRetries)}
Empilees == {Periode * n : n \in 1..(1 + MaxRetries)}

\* The ends that the router may return: none if the first connection is to come;
\* otherwise what is assigned is put after the current period, or starts now (the
\* router's affair).
FinsRendues(s) ==
  IF compte[s].fin = Aucune THEN {Aucune} \union Empilees
  ELSE {Periode} \union {PlusTard(compte[s].fin, 0) + d : d \in Empilees}

\* assignProfile, answered in the end.
Attribuer(q) ==
  LET r == requete[q] IN
  /\ En(q, "attribution") /\ compte[r.s].existe
  /\ \E e \in FinsRendues(r.s) :
       /\ compte' = [compte EXCEPT ![r.s].fin = PlusTard(@, e)]
       /\ requete' = [requete EXCEPT ![q].fin = Retenue(r, e),
            ![q].etape = IF r.geste = "souscrire" THEN "creation" ELSE "renouvellement"]
  /\ UNCHANGED <<abonnement, appareil, enFile, travail, gestes, pannes, temoins>>

\* The unique account name refuses a second row.
Creer(q) ==
  LET r == requete[q]
      fin == IF r.fin = Fond THEN Periode ELSE r.fin
  IN
  /\ En(q, "creation")
  /\ trouble' = [trouble EXCEPT ![r.s] =
       IF Inscrit(r.s) THEN @ \union {"croise"} ELSE Bilan(r.croise, {})]
  /\ IF Inscrit(r.s) THEN UNCHANGED <<abonnement, du>>
     ELSE /\ abonnement' = [abonnement EXCEPT ![r.s] = [status |-> "ACTIVE", fin |-> fin]]
          /\ du' = [du EXCEPT ![r.s] = fin]
  /\ Finir(q)
  /\ UNCHANGED <<routeur, enFile, travail, gestes, pannes, perte>>

-----------------------------------------------------------------------------
(* renew, suspend, resume, reconcile: the row is read, ...                 *)

\* What is left of the current period is kept.
Prolongee(fin) == PlusTard(fin, 0) + Periode

Renouveler(q, s) ==
  /\ Inscrit(s) /\ Commencer(q, "renouveler", "lu", s)

\* The account is touched only if the row that was read is SUSPENDED.
Calculer(q) ==
  LET r == requete[q] IN
  /\ En(q, "lu")
  /\ requete' = [requete EXCEPT ![q].fin = Prolongee(r.fin), ![q].du = PlusTard(r.du, 0) + Periode,
       ![q].etape = IF r.lu = "SUSPENDED" THEN "ouverture" ELSE "attribution"]
  /\ UNCHANGED <<abonnement, routeur, enFile, travail, gestes, pannes, temoins>>

Suspendre(q, s) == Ouvert(s) /\ Commencer(q, "suspendre", "fermeture", s)

\* Refused when the grace is over, whatever the status.
Reprendre(q, s) ==
  Inscrit(s) /\ ~Epuise(s) /\ Commencer(q, "reprendre", "ouverture", s)

Rapprocher(q, s) == Inscrit(s) /\ Commencer(q, "rapprocher", "lecture", s)

\* ... the account is opened or closed; one that is not there is only reported, ...
Ouvrir(q) ==
  LET s == requete[q].s IN
  /\ En(q, "ouverture")
  /\ compte' = [compte EXCEPT ![s].disabled = @ /\ ~compte[s].existe]
  /\ Aller(q, "appareils")
  /\ UNCHANGED <<abonnement, appareil, enFile, travail, gestes, pannes, temoins>>

\* revoke: the account, then cookies and sessions.
Fermer(q) ==
  LET s == requete[q].s IN
  /\ En(q, "fermeture")
  /\ compte' = [compte EXCEPT ![s].disabled = @ \/ compte[s].existe]
  /\ Aller(q, IF compte[s].existe THEN "coupure" ELSE "appareils")
  /\ UNCHANGED <<abonnement, appareil, enFile, travail, gestes, pannes, temoins>>

Couper(q) ==
  /\ En(q, "coupure")
  /\ Aller(q, "appareils")
  /\ UNCHANGED <<abonnement, routeur, enFile, travail, gestes, pannes, temoins>>

\* (Mutated form of BasculerAppareil: only when the account was found.)
BasculerSiCompte(q, s) == appareil[s].suivi /\ compte[s].existe

\* Every device of the subscription whose binding is known (its bypassEnabled, which
\* is written with it, is read off the type of the binding).
BasculerAppareil(q, s) == appareil[s].suivi

PousserAppareils(q) ==
  LET r == requete[q] IN
  /\ En(q, "appareils")
  /\ appareil' = [appareil EXCEPT ![r.s].type =
       IF ~BasculerAppareil(q, r.s) THEN @
       ELSE IF r.geste = "suspendre" THEN "blocked" ELSE "bypassed"]
  /\ Aller(q, CASE r.geste = "suspendre" -> "suspension"
                [] r.geste = "reprendre" -> "reprise"
                [] OTHER -> "attribution")
  /\ UNCHANGED <<abonnement, compte, enFile, travail, gestes, pannes, temoins>>

\* The router does not take the profile, or took it and none of its answers came: the
\* renewal is recorded all the same.
AttributionEchouee(q) ==
  LET s == requete[q].s IN
  /\ En(q, "attribution") /\ requete[q].geste = "renouveler"
  /\ \/ ~compte[s].existe /\ UNCHANGED <<compte, pannes>>
     \/ compte[s].existe /\ Compter /\ UNCHANGED compte
     \/ /\ compte[s].existe /\ Compter
        /\ \E e \in FinsRendues(s) : compte' = [compte EXCEPT ![s].fin = PlusTard(@, e)]
  /\ Aller(q, "renouvellement")
  /\ UNCHANGED <<abonnement, appareil, enFile, travail, gestes, temoins>>

\* ... and the row is written without condition, from what was read of it.
EcrireRenouvellement(q) ==
  LET r == requete[q] IN
  /\ En(q, "renouvellement")
  /\ abonnement' = [abonnement EXCEPT ![r.s] = [status |-> "ACTIVE", fin |-> r.fin]]
  /\ EcrireFin(q, r.fin)
  /\ perte' = [perte EXCEPT ![r.s] = @ \/ r.bouge]
  /\ du' = [du EXCEPT ![r.s] = r.du]
  /\ trouble' = [trouble EXCEPT ![r.s] =
       IF r.lu = "SUSPENDED" THEN Bilan(r.croise, {})
       ELSE IF r.croise \/ abonnement[r.s].status = "SUSPENDED" THEN @ \union {"croise"} ELSE @]
  /\ UNCHANGED <<routeur, enFile, travail, gestes, pannes>>

EcrireSuspension(q) ==
  LET r == requete[q] IN
  /\ En(q, "suspension")
  /\ abonnement' = [abonnement EXCEPT ![r.s].status = "SUSPENDED"]
  /\ trouble' = [trouble EXCEPT ![r.s] = Bilan(r.croise, {})]
  /\ Finir(q)
  /\ UNCHANGED <<routeur, enFile, travail, gestes, pannes, perte, du>>

\* The status is derived again, from the dates that were read and the present time.
EcrireReprise(q) ==
  LET r == requete[q] IN
  /\ En(q, "reprise")
  /\ abonnement' = [abonnement EXCEPT ![r.s].status = Derive(r.fin)]
  /\ trouble' = [trouble EXCEPT ![r.s] =
       Bilan(r.croise, IF Derive(r.fin) = "SUSPENDED" THEN {"tard"} ELSE {})]
  /\ Finir(q)
  /\ UNCHANGED <<routeur, enFile, travail, gestes, pannes, perte, du>>

\* The farthest end that the router announces, ...
LireRouteur(q) ==
  LET s == requete[q].s
      e == IF compte[s].existe THEN compte[s].fin ELSE Aucune
  IN
  /\ En(q, "lecture")
  /\ IF e \in {Aucune, requete[q].fin} THEN Finir(q)
     ELSE requete' = [requete EXCEPT ![q].fin = e, ![q].etape = "alignement"]
  /\ UNCHANGED <<abonnement, routeur, enFile, travail, gestes, pannes, temoins>>

\* ... is written over the row's, earlier or not; the status stays.
Aligner(q) ==
  LET r == requete[q] IN
  /\ En(q, "alignement")
  /\ abonnement' = [abonnement EXCEPT ![r.s].fin = r.fin]
  /\ EcrireFin(q, r.fin)
  /\ perte' = [perte EXCEPT ![r.s] = @ \/ r.bouge \/ r.fin < abonnement[r.s].fin]
  /\ UNCHANGED <<routeur, enFile, travail, gestes, pannes, trouble, du>>

-----------------------------------------------------------------------------
(* DevicesService: the binding, then the row of the device.                *)

\* enableBypass looks at the device only, not at its subscription.
Contourner(q, s) ==
  /\ Inscrit(s) /\ ~(appareil[s].suivi /\ appareil[s].type = "bypassed")
  /\ Commencer(q, "contourner", "contournement", s)

Bloquer(q, s) ==
  Inscrit(s) /\ appareil[s].suivi /\ Commencer(q, "bloquer", "contournement", s)

EcrireBinding(q) ==
  LET r == requete[q] IN
  /\ En(q, "contournement")
  /\ appareil' = [appareil EXCEPT ![r.s].type =
       IF r.geste = "contourner" THEN "bypassed" ELSE "blocked"]
  /\ Aller(q, "memorisation")
  /\ UNCHANGED <<abonnement, compte, enFile, travail, gestes, pannes, temoins>>

Memoriser(q) ==
  LET r == requete[q] IN
  /\ En(q, "memorisation")
  /\ appareil' = [appareil EXCEPT ![r.s].suivi = TRUE]
  /\ trouble' = [trouble EXCEPT ![r.s] = @ \union
       (IF r.croise THEN {"croise"} ELSE IF r.geste = "contourner" THEN {"expres"} ELSE {})]
  /\ Finir(q)
  /\ UNCHANGED <<abonnement, compte, enFile, travail, gestes, pannes, perte, du>>

-----------------------------------------------------------------------------
(* suspendExhausted and the replay of what it defers.                      *)

\* (Mutated form of ASuspendre: only the ACTIVE ones.)
ASuspendreActifs(s) == abonnement[s].status = "ACTIVE" /\ Epuise(s)

ASuspendre(s) == Ouvert(s) /\ Epuise(s)

Lister ==
  LET liste == {s \in Abonnes : ASuspendre(s)} IN
  /\ travail.etape = "repos" /\ liste # {}
  /\ travail' = [SansTravail EXCEPT !.etape = "choix", !.liste = liste]
  /\ UNCHANGED <<abonnement, routeur, enFile, requete, gestes, pannes, temoins>>

\* The rows in the order the database gives; what was read of them is not read again.
Prendre(s) ==
  LET autres == {q \in Requetes : SurAcces(q, s)} IN
  /\ travail.etape = "choix" /\ s \in travail.liste
  /\ travail' = [travail EXCEPT !.etape = "fermeture", !.s = s, !.croise = autres # {}]
  /\ requete' = [q \in Requetes |->
       IF q \in autres THEN [requete[q] EXCEPT !.croise = TRUE] ELSE requete[q]]
  /\ UNCHANGED <<abonnement, routeur, enFile, gestes, pannes, temoins>>

\* The next row, or the end of the pass.
Suivant ==
  LET reste == travail.liste \ {travail.s} IN
  travail' = IF reste = {} THEN SansTravail
             ELSE [SansTravail EXCEPT !.etape = "choix", !.liste = reste]

\* revoke begins with the account: one that is not there ends the whole pass.
FermerTravail ==
  LET s == travail.s IN
  /\ travail.etape = "fermeture"
  /\ compte' = [compte EXCEPT ![s].disabled = @ \/ compte[s].existe]
  /\ travail' = IF compte[s].existe THEN [travail EXCEPT !.etape = "coupure"] ELSE SansTravail
  /\ UNCHANGED <<abonnement, appareil, enFile, requete, gestes, pannes, temoins>>

CouperTravail ==
  /\ travail.etape = "coupure"
  /\ travail' = [travail EXCEPT !.etape = "suspension"]
  /\ UNCHANGED <<abonnement, routeur, enFile, requete, gestes, pannes, temoins>>

\* Without condition.  The devices are left as they are.
SuspendreTravail ==
  /\ travail.etape = "suspension"
  /\ abonnement' = [abonnement EXCEPT ![travail.s].status = "SUSPENDED"]
  /\ trouble' = [trouble EXCEPT ![travail.s] =
       Bilan(travail.croise \/ ~Epuise(travail.s), {"travail"})]
  /\ Suivant
  /\ UNCHANGED <<routeur, enFile, requete, gestes, pannes, perte, du>>

\* The breaker refuses: the row stays as it is, the cut is deferred (once).
Differer ==
  /\ travail.etape \in {"fermeture", "coupure"}
  /\ Compter
  /\ enFile' = [enFile EXCEPT ![travail.s] = TRUE]
  /\ trouble' = [trouble EXCEPT ![travail.s] = @ \union Coupes(travail.s)]
  /\ Suivant
  /\ UNCHANGED <<abonnement, routeur, requete, gestes, perte, du>>

\* Any other error ends the pass.
EchouerTravail ==
  /\ travail.etape \in {"fermeture", "coupure", "suspension"}
  /\ Compter
  /\ trouble' = [trouble EXCEPT ![travail.s] = @ \union Coupes(travail.s)]
  /\ travail' = SansTravail
  /\ UNCHANGED <<abonnement, routeur, enFile, requete, gestes, perte, du>>

\* The replay disables the account, whatever the row has become; without an
\* account it is tried again, then abandoned.
Rejouer(s) ==
  /\ enFile[s]
  /\ compte' = [compte EXCEPT ![s].disabled = @ \/ compte[s].existe]
  /\ enFile' = [enFile EXCEPT ![s] = FALSE]
  /\ requete' = [q \in Requetes |->
       IF SurAcces(q, s) THEN [requete[q] EXCEPT !.croise = TRUE] ELSE requete[q]]
  /\ trouble' = [trouble EXCEPT ![s] =
       IF Ouvert(s) THEN @ \union {"differe"} ELSE @]
  /\ UNCHANGED <<abonnement, appareil, travail, gestes, pannes, perte, du>>

-----------------------------------------------------------------------------
(* Failures, time, and what others do on the router.                       *)

\* A step of a gesture throws: an exception of the router or of the database.
Echouer(q) ==
  LET s == requete[q].s IN
  /\ ~En(q, "repos") /\ Compter
  /\ trouble' = [trouble EXCEPT ![s] = @ \union (IF Entame(q) THEN {"coupe"} ELSE {})]
  /\ Finir(q)
  /\ UNCHANGED <<abonnement, routeur, enFile, travail, gestes, perte, du>>

Redemarrer ==
  /\ Compter
  /\ trouble' = [s \in Abonnes |-> trouble[s] \union Coupes(s)]
  /\ requete' = [q \in Requetes |-> Repos]
  /\ travail' = SansTravail
  /\ UNCHANGED <<abonnement, routeur, enFile, gestes, perte, du>>

\* The account is deleted, from WinBox or the User Manager screen.
RetirerCompte(s) ==
  /\ compte[s].existe /\ Compter
  /\ compte' = [compte EXCEPT ![s] = [existe |-> FALSE, disabled |-> FALSE, fin |-> Aucune]]
  /\ UNCHANGED <<abonnement, appareil, enFile, requete, travail, gestes, temoins>>

\* The first connection starts the calendar of what was assigned.
SeConnecter(s) ==
  /\ compte[s].existe /\ ~compte[s].disabled /\ compte[s].fin = Aucune /\ Inscrit(s)
  /\ \E d \in Empilees : compte' = [compte EXCEPT ![s].fin = d]
  /\ UNCHANGED <<abonnement, appareil, enFile, requete, travail, gestes, pannes, temoins>>

Tick ==
  /\ abonnement' = [s \in Abonnes |-> [abonnement[s] EXCEPT !.fin = Vieillir(@)]]
  /\ compte' = [s \in Abonnes |-> [compte[s] EXCEPT !.fin = Vieillir(@)]]
  /\ requete' = [q \in Requetes |->
       [requete[q] EXCEPT !.fin = Vieillir(@), !.du = Vieillir(@)]]
  /\ du' = [s \in Abonnes |-> Vieillir(du[s])]
  /\ UNCHANGED <<appareil, enFile, travail, gestes, pannes, trouble, perte>>

-----------------------------------------------------------------------------
Poursuivre(q) ==
  \/ CreerCompte(q) \/ Attribuer(q) \/ Creer(q)
  \/ Calculer(q) \/ Ouvrir(q) \/ Fermer(q) \/ Couper(q) \/ PousserAppareils(q)
  \/ AttributionEchouee(q) \/ EcrireRenouvellement(q) \/ EcrireSuspension(q) \/ EcrireReprise(q)
  \/ LireRouteur(q) \/ Aligner(q)
  \/ EcrireBinding(q) \/ Memoriser(q)

Travailler ==
  \/ Lister \/ (\E s \in Abonnes : Prendre(s))
  \/ FermerTravail \/ CouperTravail \/ SuspendreTravail

Next ==
  \/ \E q \in Requetes, s \in Abonnes :
       \/ Souscrire(q, s) \/ Renouveler(q, s) \/ Suspendre(q, s) \/ Reprendre(q, s)
       \/ Rapprocher(q, s) \/ Contourner(q, s) \/ Bloquer(q, s)
  \/ \E q \in Requetes : Poursuivre(q) \/ Echouer(q)
  \/ Travailler \/ Differer \/ EchouerTravail
  \/ \E s \in Abonnes : Rejouer(s) \/ RetirerCompte(s) \/ SeConnecter(s)
  \/ Tick \/ Redemarrer

Spec == Init /\ [][Next]_vars

\* The job of every minute goes on, and the router does not fail for ever (MaxPannes).
FairSpec == Spec /\ WF_vars(Travailler)

-----------------------------------------------------------------------------
\* What one purchase adds at most.
Rachat == Periode * (1 + MaxRetries)
Dates == Aucune..((MaxGestes + 1) * Rachat)
Etapes == {"repos", "compte", "attribution", "creation", "lu", "ouverture", "fermeture",
           "coupure", "appareils", "renouvellement", "suspension", "reprise", "lecture",
           "alignement", "contournement", "memorisation"}

\* Types; no end, of a row, of an account or of a reading, goes further than a period
\* for each time that the assignment of a gesture may have been sent.
TypeOK ==
  /\ abonnement \in [Abonnes ->
       [status : {"ABSENT", "ACTIVE", "GRACE", "SUSPENDED"}, fin : Dates \ {Aucune}]]
  /\ compte \in [Abonnes -> [existe : BOOLEAN, disabled : BOOLEAN, fin : Dates]]
  /\ appareil \in [Abonnes -> [type : {"aucun", "bypassed", "blocked"}, suivi : BOOLEAN]]
  /\ enFile \in [Abonnes -> BOOLEAN]
  /\ \A q \in Requetes : requete[q].etape \in Etapes /\ requete[q].fin \in Dates \ {Aucune}
  /\ travail.etape \in {"repos", "choix", "fermeture", "coupure", "suspension"}
  /\ travail.liste \subseteq Abonnes
  /\ (travail.s = Personne) = (travail.etape \in {"repos", "choix"})
  /\ gestes \in 0..MaxGestes /\ pannes \in 0..MaxPannes
  /\ \A s \in Abonnes :
       trouble[s] \subseteq {"coupe", "croise", "differe", "tard", "travail", "expres"}

AuCalme(s) == TravailSur(s) = FALSE /\ \A q \in Requetes : requete[q].s # s

\* When nobody is at work on a subscription, the router does what its row says: the
\* account is disabled if and only if the row is SUSPENDED, and the devices whose
\* binding is known are not left to pass beside a suspended account.  Excepted, until
\* an opening or a closing has ended with nobody else at work: one that was cut between
\* the router and the row, two that crossed, a deferred cut that was replayed on an
\* open subscription, a resumption that ended after the grace; and, for the devices,
\* a suspension by the job, which does not know of them, and a bypass asked for.
AccesSuitStatut ==
  \A s \in Abonnes :
    Inscrit(s) /\ AuCalme(s) /\ trouble[s] \intersect {"coupe", "croise", "differe", "tard"} = {} =>
      /\ compte[s].existe =>
           (compte[s].disabled <=> abonnement[s].status = "SUSPENDED")
      /\ abonnement[s].status = "SUSPENDED" /\ appareil[s].suivi /\ trouble[s] = {} =>
           appareil[s].type = "blocked"

\* A subscription never ends earlier than the renewals recorded so far add up to,
\* whatever is suspended, resumed, refused by the router or replayed in between;
\* unless an end was written over one that moved after it was read, or the
\* reconciliation took the router's earlier one.
PeriodesPayees ==
  \A s \in Abonnes : perte[s] \/ abonnement[s].fin >= du[s]

\* A subscription whose account is no longer on the router, to be suspended: the pass
\* ends on it, before those that the database gives after it.
FaitObstacle(s) == Ouvert(s) /\ Epuise(s) /\ ~compte[s].existe

\* A subscription whose grace is over is suspended, or prolonged, in the end, whoever
\* else is to be suspended in the same pass and whatever has failed in between; unless
\* one of those to be suspended, itself or another, has no account on the router.
ToleranceFinie ==
  \A s \in Abonnes :
    (Ouvert(s) /\ Epuise(s)) ~> (~Ouvert(s) \/ ~Epuise(s) \/ \E t \in Abonnes : FaitObstacle(t))

\* "Aucun acces expire ne fonctionne encore": one absent account does not keep the
\* others open.
AccesExpireCoupe ==
  \A s \in Abonnes :
    (Ouvert(s) /\ Epuise(s)) ~> (~Ouvert(s) \/ ~Epuise(s) \/ ~compte[s].existe \/ compte[s].disabled)
==============================================================================
