-------------------------- MODULE PlatformAccounts --------------------------
(***************************************************************************)
(* One operator of the platform: its account (sign-up, confirmation of the *)
(* address, password attempts) and its contract with the platform (trial,  *)
(* subscription, ceiling of routers).  AuthService, LoginThrottleService,  *)
(* AbonnementPlateformeService and the activation of TenantsController     *)
(* work on two rows and on counters in memory; between what a request      *)
(* reads and what it writes, others run.                                   *)
(*                                                                         *)
(* Dates are the time that is left before them.  All attempts come from    *)
(* one address: a counter of another address is another copy of this one.  *)
(***************************************************************************)
EXTENDS Integers, FiniteSets

CONSTANTS
  Requetes,      \* requests that may be in progress
  Titulaire,     \* the e-mail of the account
  Autres,        \* e-mails nobody has signed up with
  MaxParCompte, MaxParAdresse, Fenetre,  \* the ceilings of LoginThrottleService
  EssaiJours, PeriodeJours, Tolerance,   \* the catalogue, in ticks
  Validite,      \* VALIDITE_CODE_MS, in ticks; a tick is more than the minute
                 \* between two codes
  MaxGestes,     \* requests that begin (bound)
  MaxRouteurs    \* rows of routers (bound)

ASSUME ConstantesPlateforme ==
  /\ Titulaire \notin Autres
  /\ {MaxParCompte, MaxParAdresse, Fenetre, EssaiJours, PeriodeJours} \subseteq Nat \ {0}
  /\ {Tolerance, Validite, MaxGestes, MaxRouteurs} \subseteq Nat
  /\ IsFiniteSet(Requetes)

Adresse == "adresse"
ASSUME AdresseNEstPasUnCompte == Adresse \notin Autres \union {Titulaire}

Emails == Autres \union {Titulaire}
Cles == Emails \union {Adresse}
Plafond(cle) == IF cle = Adresse THEN MaxParAdresse ELSE MaxParCompte
Illimite == MaxRouteurs + 1

\* The time left stops counting when every tolerance is over; below, no date.
Fond == -Tolerance - 1
Aucune == Fond - 1
Vieillir(date) == IF date > Fond THEN date - 1 ELSE date

VARIABLES
  exploitant, \* statut, platformEndsAt (fin), whether platformGraceEndsAt is later
              \* (toleree), maxRouters (plafond)
  routeurs,   \* rows of routers
  compte,     \* emailCode (its number), time since it was sent, emailVerifiedAt
  compteur,   \* per key of the throttle: failures, time left of the window
  requete,    \* per request: which, how far, on which key, what it has read or is given,
              \* and, not in the code, the end it owes and whether it crossed another
  gestes,
  boite,      \* the last code that arrived in the mailbox
  doute,      \* whether a code was lost, or two crossed, since
  promis      \* time left of what was paid or set, whatever the row says
              \* (the last three are not in the code)

temoins == <<boite, doute, promis>>
vars == <<exploitant, routeurs, compte, compteur, requete, gestes, temoins>>

Repos == [geste |-> "aucun", etape |-> "repos", cle |-> Titulaire, lu |-> 0, du |-> Fond,
          croise |-> FALSE]
SansCompte == [code |-> 0, age |-> 0, verifie |-> FALSE]
Vierge == [echecs |-> 0, reste |-> 0]

\* Nobody, or an operator that signed up when accounts waited for their activation.
Init ==
  /\ exploitant \in [statut : {"ABSENT", "PENDING"}, fin : {Aucune}, toleree : {TRUE},
                     plafond : {Illimite}]
  /\ routeurs = 0
  /\ compte = SansCompte
  /\ compteur = [c \in Cles |-> Vierge]
  /\ requete = [r \in Requetes |-> Repos]
  /\ gestes = 0
  /\ boite = 0 /\ doute = FALSE /\ promis = Fond

En(r, geste, etape) == requete[r].geste = geste /\ requete[r].etape = etape
Existe == exploitant.statut # "ABSENT"

DuContrat == {"inscription", "activation", "souscription", "routeur"}
DuCode == {"inscription", "renvoi", "confirmation"}
SeCroisent(g, h) == {g, h} \subseteq DuContrat \/ {g, h} \subseteq DuCode
EnCours(famille) == {r \in Requetes : requete[r].geste \in famille}
Croiser(famille) ==
  [r \in Requetes |-> IF r \in EnCours(famille) THEN [requete[r] EXCEPT !.croise = TRUE]
                      ELSE requete[r]]

\* A request begins, beside those that work on the same row.
Debut(r, b) ==
  /\ requete[r] = Repos /\ gestes < MaxGestes
  /\ gestes' = gestes + 1
  /\ LET croises == {q \in Requetes : SeCroisent(requete[q].geste, b.geste)} IN
     requete' = [q \in Requetes |->
       IF q = r THEN [b EXCEPT !.croise = croises # {}]
       ELSE IF q \in croises THEN [requete[q] EXCEPT !.croise = TRUE]
       ELSE requete[q]]

Aller(r, etape) == requete' = [requete EXCEPT ![r].etape = etape]
Finir(r) == requete' = [requete EXCEPT ![r] = Repos]

-----------------------------------------------------------------------------
(* The login and its throttle.                                             *)

\* (Mutated form of Bloque: one failure more.)
BloqueApres(cle) == compteur[cle].reste > 0 /\ compteur[cle].echecs > Plafond(cle)

Bloque(cle) == compteur[cle].reste > 0 /\ compteur[cle].echecs >= Plafond(cle)
ClesDe(email) == {email, Adresse}

Mauvais == 0
Inactif == 1
Actif == 2

\* verifier, before anything is read; then the account and its operator are read, and
\* the password is compared with what was read.
Connexion(r, email, bon) ==
  /\ \A cle \in ClesDe(email) : ~Bloque(cle)
  /\ bon => email = Titulaire /\ Existe
  /\ Debut(r, [Repos EXCEPT !.geste = "connexion", !.etape = "comparaison", !.cle = email,
                 !.lu = IF ~bon THEN Mauvais
                        ELSE IF exploitant.statut = "ACTIVE" THEN Actif ELSE Inactif])
  /\ UNCHANGED <<exploitant, routeurs, compte, compteur, temoins>>

\* (Mutated form of Echec: a first failure opens no window.)
EchecSansFenetre(email) ==
  compteur' = [c \in Cles |-> IF c \in ClesDe(email) THEN [compteur[c] EXCEPT !.echecs = @ + 1]
                              ELSE compteur[c]]

Echec(email) ==
  compteur' = [c \in Cles |->
    IF c \notin ClesDe(email) THEN compteur[c]
    ELSE IF compteur[c].reste = 0 THEN [echecs |-> 1, reste |-> Fenetre]
    ELSE [compteur[c] EXCEPT !.echecs = @ + 1]]

\* The comparison ends.  A good password of an operator that was not active when it
\* was read clears nothing; of an active one, its key and not that of the address.
Comparer(r) ==
  /\ En(r, "connexion", "comparaison")
  /\ CASE requete[r].lu = Mauvais -> Echec(requete[r].cle)
       [] requete[r].lu = Actif -> compteur' = [compteur EXCEPT ![requete[r].cle] = Vierge]
       [] OTHER -> UNCHANGED compteur
  /\ Finir(r)
  /\ UNCHANGED <<exploitant, routeurs, compte, gestes, temoins>>

-----------------------------------------------------------------------------
(* Sign-up and confirmation of the address.                                *)

\* codeDeConfirmation: a code is numbered by the request that draws it.
Tirage == gestes + 1

\* The e-mail is looked up, then comes the transaction; its unique column decides.
Inscrire(r) ==
  /\ ~Existe
  /\ Debut(r, [Repos EXCEPT !.geste = "inscription", !.etape = "creation", !.lu = Tirage])
  /\ UNCHANGED <<exploitant, routeurs, compte, compteur, temoins>>

Creer(r) ==
  /\ En(r, "inscription", "creation")
  /\ IF Existe
     THEN Finir(r) /\ UNCHANGED <<exploitant, compte>>
     ELSE /\ exploitant' = [statut |-> "ACTIVE", fin |-> EssaiJours, toleree |-> FALSE,
                            plafond |-> 1]
          /\ compte' = [SansCompte EXCEPT !.code = requete[r].lu]
          /\ Aller(r, "envoi")
  /\ UNCHANGED <<routeurs, compteur, gestes, boite, doute, promis>>

\* renvoyerLeCode: at most one code per minute.
Renvoyer(r) ==
  /\ Existe /\ ~compte.verifie
  /\ compte.code # 0 => compte.age >= 1
  /\ Debut(r, [Repos EXCEPT !.geste = "renvoi", !.etape = "ecriture", !.lu = Tirage])
  /\ UNCHANGED <<exploitant, routeurs, compte, compteur, temoins>>

\* (Mutated form of EcrireCode: the date is written, the code that was there stays.)
EcrireDate(r) ==
  /\ En(r, "renvoi", "ecriture")
  /\ compte' = [compte EXCEPT !.age = 0]
  /\ Aller(r, "envoi")
  /\ UNCHANGED <<exploitant, routeurs, compteur, gestes, temoins>>

EcrireCode(r) ==
  /\ En(r, "renvoi", "ecriture")
  /\ compte' = [compte EXCEPT !.code = requete[r].lu, !.age = 0]
  /\ Aller(r, "envoi")
  /\ UNCHANGED <<exploitant, routeurs, compteur, gestes, temoins>>

\* envoyerLeCode: the mail arrives or not; the error is swallowed.
Envoyer(r) ==
  /\ requete[r].etape = "envoi"
  /\ \/ boite' = requete[r].lu /\ doute' = requete[r].croise
     \/ boite' = boite /\ doute' = TRUE
  /\ Finir(r)
  /\ UNCHANGED <<exploitant, routeurs, compte, compteur, gestes, promis>>

\* confirmerCourriel: what was read is judged, then written.
Confirmer(r, code) ==
  /\ Existe /\ ~compte.verifie
  /\ compte.code # 0 /\ code = compte.code /\ compte.age <= Validite
  /\ Debut(r, [Repos EXCEPT !.geste = "confirmation", !.etape = "ecriture"])
  /\ UNCHANGED <<exploitant, routeurs, compte, compteur, temoins>>

EcrireConfirmation(r) ==
  /\ En(r, "confirmation", "ecriture")
  /\ compte' = [SansCompte EXCEPT !.verifie = TRUE]
  /\ Finir(r)
  /\ UNCHANGED <<exploitant, routeurs, compteur, gestes, temoins>>

-----------------------------------------------------------------------------
(* The contract with the platform.                                         *)

\* activate: the status is written, then the trial is opened if no date is there.
Activer(r) ==
  /\ Existe
  /\ Debut(r, [Repos EXCEPT !.geste = "activation", !.etape = "lecture"])
  /\ exploitant' = [exploitant EXCEPT !.statut = "ACTIVE"]
  /\ UNCHANGED <<routeurs, compte, compteur, temoins>>

LireEssai(r) ==
  /\ En(r, "activation", "lecture")
  /\ IF exploitant.fin = Aucune THEN Aller(r, "ecriture") ELSE Finir(r)
  /\ UNCHANGED <<exploitant, routeurs, compte, compteur, gestes, temoins>>

EcrireEssai(r) ==
  /\ En(r, "activation", "ecriture")
  /\ exploitant' = [exploitant EXCEPT !.fin = EssaiJours, !.toleree = FALSE, !.plafond = 1]
  /\ promis' = IF requete[r].croise THEN Fond ELSE promis
  /\ Finir(r)
  /\ UNCHANGED <<routeurs, compte, compteur, gestes, boite, doute>>

Suspendre ==
  /\ Existe
  /\ exploitant' = [exploitant EXCEPT !.statut = "SUSPENDED"]
  /\ UNCHANGED <<routeurs, compte, compteur, requete, gestes, temoins>>

\* (Mutated form of Prochaine: the days that are left are lost.)
ProchaineDAujourdhui(fin) == PeriodeJours

\* prochaineEcheance: from the end of the period that runs, or from today.
Prochaine(fin) == PeriodeJours + (IF fin > 0 THEN fin ELSE 0)

\* souscrire: the end is read and the next one worked out, then written.
Souscrire(r) ==
  /\ Existe
  /\ Debut(r, [Repos EXCEPT !.geste = "souscription", !.etape = "ecriture",
                 !.lu = Prochaine(exploitant.fin),
                 !.du = PeriodeJours + (IF promis > 0 THEN promis ELSE 0)])
  /\ UNCHANGED <<exploitant, routeurs, compte, compteur, temoins>>

EcrireEcheance(r) ==
  /\ En(r, "souscription", "ecriture")
  /\ exploitant' = [exploitant EXCEPT !.fin = requete[r].lu, !.toleree = TRUE,
                                      !.plafond = Illimite]
  /\ promis' = IF requete[r].croise THEN requete[r].lu ELSE requete[r].du
  /\ Finir(r)
  /\ UNCHANGED <<routeurs, compte, compteur, gestes, boite, doute>>

\* definir: the SUPER_ADMIN sets offer, ceiling and end by hand.
Definir(fin, toleree, plafond) ==
  /\ Existe /\ gestes < MaxGestes
  /\ exploitant' = [exploitant EXCEPT !.fin = fin, !.toleree = toleree, !.plafond = plafond]
  /\ promis' = IF fin = Aucune THEN Fond ELSE fin
  /\ requete' = Croiser(DuContrat)
  /\ gestes' = gestes + 1
  /\ UNCHANGED <<routeurs, compte, compteur, boite, doute>>

\* (Mutated form of RouteurDisponible: the router to come is forgotten.)
RouteurDisponibleDeTrop == exploitant.plafond = Illimite \/ routeurs <= exploitant.plafond

\* exigerRouteurDisponible: counted before the creation.
RouteurDisponible == exploitant.plafond = Illimite \/ routeurs < exploitant.plafond

DemanderRouteur(r) ==
  /\ exploitant.statut = "ACTIVE" /\ RouteurDisponible
  /\ Debut(r, [Repos EXCEPT !.geste = "routeur", !.etape = "ecriture"])
  /\ UNCHANGED <<exploitant, routeurs, compte, compteur, temoins>>

CreerRouteur(r) ==
  /\ En(r, "routeur", "ecriture") /\ routeurs < MaxRouteurs
  /\ routeurs' = routeurs + 1
  /\ Finir(r)
  /\ UNCHANGED <<exploitant, compte, compteur, gestes, temoins>>

\* RouterEnrollmentService.consume: a router that calls back for the first time gets a
\* row, and nobody asks for the ceiling.
EnrolerRouteur ==
  /\ Existe /\ routeurs < MaxRouteurs
  /\ routeurs' = routeurs + 1
  /\ requete' = Croiser({"routeur"})
  /\ UNCHANGED <<exploitant, compte, compteur, gestes, temoins>>

SupprimerRouteur ==
  /\ routeurs > 0
  /\ routeurs' = routeurs - 1
  /\ UNCHANGED <<exploitant, compte, compteur, requete, gestes, temoins>>

-----------------------------------------------------------------------------
\* The process stops: the counters go, and what the requests had left to do.
Redemarrer ==
  /\ \E r \in Requetes : requete[r] # Repos
  /\ compteur' = [c \in Cles |-> Vierge]
  /\ requete' = [r \in Requetes |-> Repos]
  /\ doute' = (doute \/ \E r \in Requetes : requete[r].etape = "envoi")
  /\ UNCHANGED <<exploitant, routeurs, compte, gestes, boite, promis>>

\* A counter whose window is over counts for none, swept or not.  The end that a
\* subscription is about to write is a date too.
Tic ==
  /\ exploitant' = [exploitant EXCEPT !.fin = Vieillir(@)]
  /\ promis' = Vieillir(promis)
  /\ compte' = [compte EXCEPT !.age = IF compte.code = 0 \/ @ > Validite THEN @ ELSE @ + 1]
  /\ compteur' = [c \in Cles |-> IF compteur[c].reste <= 1 THEN Vierge
                                 ELSE [compteur[c] EXCEPT !.reste = @ - 1]]
  /\ requete' = [r \in Requetes |->
       IF requete[r].geste # "souscription" THEN requete[r]
       ELSE [requete[r] EXCEPT !.lu = Vieillir(@), !.du = Vieillir(@)]]
  /\ UNCHANGED <<routeurs, gestes, boite, doute>>

DuCompte(r) ==
  \/ \E email \in Emails, bon \in BOOLEAN : Connexion(r, email, bon)
  \/ Comparer(r) \/ Inscrire(r) \/ Creer(r) \/ Renvoyer(r) \/ EcrireCode(r) \/ Envoyer(r)
  \/ Confirmer(r, boite) \/ EcrireConfirmation(r)

DuContratAvec(r) ==
  \/ Activer(r) \/ LireEssai(r) \/ EcrireEssai(r) \/ Souscrire(r) \/ EcrireEcheance(r)
  \/ DemanderRouteur(r) \/ CreerRouteur(r)

Next ==
  \/ \E r \in Requetes : DuCompte(r) \/ DuContratAvec(r)
  \/ \E fin \in {Aucune, PeriodeJours}, toleree \in BOOLEAN, plafond \in {1, Illimite} :
       Definir(fin, toleree, plafond)
  \/ Suspendre \/ EnrolerRouteur \/ SupprimerRouteur \/ Redemarrer \/ Tic

Spec == Init /\ [][Next]_vars

-----------------------------------------------------------------------------
Dates == {d \in Int : d >= Aucune}
Actes ==
  [geste : {"aucun", "connexion"} \union DuContrat \union DuCode,
   etape : {"repos", "comparaison", "creation", "envoi", "ecriture", "lecture"},
   cle : Emails, lu : Dates, du : Dates, croise : BOOLEAN]

\* Types; an account is there with its operator, an end only with an operator, and a
\* key has a window as long as it has failures.
TypeOK ==
  /\ exploitant \in [statut : {"ABSENT", "PENDING", "ACTIVE", "SUSPENDED"}, fin : Dates,
                     toleree : BOOLEAN, plafond : {1, Illimite}]
  /\ routeurs \in 0..MaxRouteurs
  /\ compte \in [code : Nat, age : 0..(Validite + 1), verifie : BOOLEAN]
  /\ compteur \in [Cles -> [echecs : Nat, reste : 0..Fenetre]]
  /\ requete \in [Requetes -> Actes]
  /\ promis \in Dates /\ gestes \in 0..MaxGestes /\ boite \in Nat /\ doute \in BOOLEAN
  /\ ~Existe => exploitant.fin = Aucune /\ compte = SansCompte
  /\ \A c \in Cles : compteur[c].echecs = 0 <=> compteur[c].reste = 0

\* The throttle reads its count before the comparison and raises it after: within one
\* window a key never counts more failures than its ceiling allows plus the requests
\* that were let in together, and those still comparing are part of that number.
EssaisBornes ==
  \A c \in Cles :
    compteur[c].echecs + Cardinality({r \in EnCours({"connexion"}) : c \in ClesDe(requete[r].cle)})
      <= Plafond(c) - 1 + Cardinality(Requetes)

\* What was paid or set is never shorter in the row, whatever is activated, suspended or
\* renewed and whichever request is cut; unless two requests on the contract crossed.
PlateformePayee == exploitant.fin >= promis \/ promis = Fond

\* A router that the console creates (by hand or with the assistant) is over the ceiling
\* of the offer only beside another creation or an enrolment, or while the offer changes.
\* A router that calls back is never counted.
PlafondTenu ==
  [][\A r \in Requetes :
       En(r, "routeur", "ecriture") /\ ~requete[r].croise /\ routeurs' > routeurs
         /\ requete'[r] = Repos
       => exploitant.plafond = Illimite \/ routeurs' <= exploitant.plafond]_vars

\* The last code that arrived opens, unless a mail was lost since or two codes crossed:
\* the one in the row never changes without being sent.
CodeRecuVaut ==
  ~compte.verifie /\ boite # 0 /\ compte.code # boite =>
    doute \/ \E r \in Requetes : requete[r].etape = "envoi"
=============================================================================
