-------------------------- MODULE PlanProvisioning --------------------------
(***************************************************************************)
(* A plan projected on the User Manager of a router: PlansService writes   *)
(* the row and calls PlanProvisioningService.reconcile, which every sale   *)
(* and renewal calls again, while the User Manager screen works by hand on *)
(* the same profile, limitation and junction.  Each request goes through   *)
(* RouterOSRestClient: a request whose answer is lost is sent again, at    *)
(* most MaxRetries times, whether or not the router has done it.           *)
(*                                                                         *)
(* A write that first looks its target up (createProfile, updateProfile,   *)
(* ...) is one step: between the two, another call can only make RouterOS  *)
(* refuse what the lookup would have refused.                              *)
(***************************************************************************)
EXTENDS Integers, FiniteSets

CONSTANTS
  Demandes,       \* calls that may be in progress
  Versions,       \* values of validity, price and rates that a plan takes
  Partages,       \* whether a plan may have a number of shared users
  MaxRetries,     \* times that a request is sent again
  Jonctions,      \* identifiers of profile-limitation entries (bound)
  MaxChangements  \* times that the plan is written or deleted (bound)

ASSUME ConstantesOffre ==
  /\ Versions \subseteq Nat \ {0} /\ Partages \subseteq BOOLEAN
  /\ MaxRetries \in Nat /\ MaxChangements \in Nat
  /\ IsFiniteSet(Jonctions) /\ Jonctions # {}

Absent == 0

VARIABLES
  offre,   \* the row: does it exist, values (v), has it caps (p), shared users (u)
  routeur, \* profile and its shared users, limitation, junctions between the two
  appel,   \* per call: what for, how far, tries of the request, plan that was read, and
           \* how it went (cours, not in the code): alone and every answer received
           \* ("net"), beside others of the same plan or with answers lost ("mele"),
           \* beside others of another plan, or the plan was written ("croise")
  changements

varsOffre == <<offre, routeur, appel, changements>>

Offres == [existe : {TRUE}, v : Versions, p : BOOLEAN, u : Partages]
PasDOffre == [existe |-> FALSE, v |-> Absent, p |-> FALSE, u |-> FALSE]
Inactif == [pour |-> "rien", etape |-> "repos", essai |-> 0, lue |-> PasDOffre, cibles |-> {},
          cours |-> "net"]

InitOffre ==
  /\ offre = PasDOffre
  /\ routeur = [profil |-> Absent, u |-> FALSE, lim |-> Absent, jonctions |-> {}]
  /\ appel = [a \in Demandes |-> Inactif]
  /\ changements = 0

En(a, etape) == appel[a].etape = etape
Reconcilie(a) == appel[a].pour \in {"creer", "reconcilier"}

\* The next request of the call; its tries start again from none.
Aller(a, etape) == appel' = [appel EXCEPT ![a].etape = etape, ![a].essai = 0]
Finir(a) == appel' = [appel EXCEPT ![a] = Inactif]

\* What is left of a call that fails; what it has done on the router remains.
Rater(a) == Aller(a, "echec")

\* How a call goes once another has begun.
Cours(b, autre) == IF b.lue # autre.lue \/ b.cours = "croise" THEN "croise" ELSE "mele"

\* The calls that work on the router.
EnCours == {b \in Demandes : appel[b].etape \notin {"repos", "publication"}}

\* A call begins, beside those that are in progress.
Debut(a, r) ==
  LET autres == {b \in EnCours : appel[b].lue # r.lue} IN
  /\ En(a, "repos")
  /\ appel' = [b \in Demandes |->
       IF b = a THEN [r EXCEPT !.cours = IF EnCours = {} THEN "net" ELSE IF autres = {} THEN "mele"
                                         ELSE "croise"]
       ELSE IF b \in EnCours THEN [appel[b] EXCEPT !.cours = Cours(appel[b], r)]
       ELSE appel[b]]
  /\ UNCHANGED routeur

\* Calls in progress no longer work from the plan of the row.
Perimer == [b \in Demandes |-> IF b \in EnCours THEN [appel[b] EXCEPT !.cours = "croise"] ELSE appel[b]]

-----------------------------------------------------------------------------
(* The plan: PlansService, and the sales that reconcile before they sell.  *)

Changer == changements < MaxChangements /\ changements' = changements + 1

\* create: the row, then the router.
CreerOffre(a) ==
  /\ ~offre.existe /\ Changer
  /\ \E o \in Offres :
       /\ offre' = o
       /\ Debut(a, [Inactif EXCEPT !.pour = "creer", !.etape = "profil", !.lue = o])

\* update: the row is written first; the reconciliation reads it again.
ModifierOffre ==
  /\ offre.existe /\ Changer
  /\ \E o \in Offres \ {offre} : offre' = o
  /\ appel' = Perimer
  /\ UNCHANGED routeur

\* supprimer: nothing is attached to the plan; the router is not touched.  A creation
\* that goes on has no row left to take back.
SupprimerOffre ==
  /\ offre.existe /\ Changer
  /\ offre' = PasDOffre
  /\ appel' = [b \in Demandes |-> IF appel[b].pour = "creer" THEN [Perimer[b] EXCEPT !.pour = "reconcilier"]
                               ELSE Perimer[b]]
  /\ UNCHANGED routeur

\* publierAuTarif, creerOffreDepuisProfil: the profile is read on the router, without
\* its limitation, ...
LireAuTarif(a) ==
  /\ En(a, "repos") /\ routeur.profil # Absent
  /\ appel' = [appel EXCEPT ![a] =
       [Inactif EXCEPT !.pour = "publier", !.etape = "publication",
          !.lue = [existe |-> TRUE, v |-> routeur.profil, p |-> FALSE, u |-> routeur.u]]]
  /\ UNCHANGED <<offre, routeur, changements>>

\* ... then the plan is created with what was read, and nothing is written on the
\* router.  A plan that exists keeps its values, and its name is refused to a second.
Publier(a) ==
  /\ En(a, "publication")
  /\ IF offre.existe
     THEN Finir(a) /\ UNCHANGED <<offre, changements>>
     ELSE /\ Changer
          /\ offre' = appel[a].lue
          /\ appel' = [Perimer EXCEPT ![a] = Inactif]
  /\ UNCHANGED routeur

\* reconcile, from update, a sale, a renewal or the screen.
Reconcilier(a) ==
  /\ offre.existe
  /\ Debut(a, [Inactif EXCEPT !.pour = "reconcilier", !.etape = "profil", !.lue = offre])
  /\ UNCHANGED <<offre, changements>>

\* By hand, from the User Manager screen.
AlaMain(a, etape) ==
  /\ etape \in {"retirerProfil", "aDetacher", "supprimerLim", "jonction"}
  /\ Debut(a, [Inactif EXCEPT !.pour = "ecran", !.etape = etape])
  /\ UNCHANGED <<offre, changements>>

-----------------------------------------------------------------------------
(* What the reconciliation reads.                                          *)

ProfilAligne(o) == routeur.profil = o.v /\ routeur.u = o.u

LireProfil(a) ==
  /\ En(a, "profil")
  /\ Aller(a, CASE routeur.profil = Absent -> "creerProfil"
                [] ProfilAligne(appel[a].lue) -> "limitation"
                [] OTHER -> "majProfil")
  /\ UNCHANGED <<offre, routeur, changements>>

\* (Mutated form of ApresLimitation: a limitation in place is taken for attached.)
ApresLimitationEnPlace(o) ==
  CASE ~o.p -> IF routeur.lim = Absent THEN "fin" ELSE "aDetacher"
    [] o.p /\ routeur.lim = Absent -> "creerLim"
    [] OTHER -> IF routeur.lim = o.v THEN "fin" ELSE "majLim"

\* A plan that has no cap any more has its limitation removed.
ApresLimitation(o) ==
  CASE ~o.p -> IF routeur.lim = Absent THEN "fin" ELSE "aDetacher"
    [] o.p /\ routeur.lim = Absent -> "creerLim"
    [] OTHER -> IF routeur.lim = o.v THEN "jonction" ELSE "majLim"

LireLimitation(a) ==
  /\ En(a, "limitation")
  /\ Aller(a, ApresLimitation(appel[a].lue))
  /\ UNCHANGED <<offre, routeur, changements>>

\* attachLimitationToProfile: a junction that exists is returned.
LireJonction(a) ==
  /\ En(a, "jonction")
  /\ Aller(a, IF routeur.jonctions = {} THEN "rattacher" ELSE "fin")
  /\ UNCHANGED <<offre, routeur, changements>>

\* (Mutated form of ListerJonctions: the error is not swallowed.)
ListerSansAvaler(a) ==
  /\ En(a, "aDetacher")
  /\ IF routeur.jonctions # {}
     THEN appel' = [appel EXCEPT ![a].etape = "detacher", ![a].essai = 0,
                                 ![a].cibles = routeur.jonctions]
     ELSE Rater(a)
  /\ UNCHANGED <<offre, routeur, changements>>

\* detachLimitationFromProfile: every junction of the pair is listed; none is an
\* error, which the reconciliation swallows as it does every other one here.
ListerJonctions(a) ==
  /\ En(a, "aDetacher")
  /\ IF routeur.jonctions # {}
     THEN appel' = [appel EXCEPT ![a].etape = "detacher", ![a].essai = 0,
                                 ![a].cibles = routeur.jonctions]
     ELSE IF Reconcilie(a) THEN Aller(a, "supprimerLim") ELSE Rater(a)
  /\ UNCHANGED <<offre, routeur, changements>>

-----------------------------------------------------------------------------
(* What it writes.  r: the router, b: the call.                            *)

Ecritures == {"creerProfil", "majProfil", "retirerProfil", "creerLim", "majLim", "supprimerLim",
              "detacher", "rattacher"}

\* (Mutated form of Accepte: a limitation may go from under its junctions.)
AccepteSansAttaches(r, b) ==
  CASE b.etape = "creerProfil" -> r.profil = Absent
    [] b.etape = "majProfil" -> r.profil # Absent
    [] b.etape = "retirerProfil" -> r.profil # Absent /\ r.jonctions = {}
    [] b.etape = "creerLim" -> r.lim = Absent
    [] b.etape \in {"majLim", "supprimerLim"} -> r.lim # Absent
    [] b.etape = "detacher" -> \A j \in b.cibles : j \in r.jonctions
    [] OTHER -> r.profil # Absent /\ r.lim # Absent /\ r.jonctions # Jonctions

\* The package or RouterOS accepts the request: names are unique, a target exists,
\* what is still attached stays, a junction has two ends.
Accepte(r, b) ==
  CASE b.etape = "creerProfil" -> r.profil = Absent
    [] b.etape = "majProfil" -> r.profil # Absent
    [] b.etape = "retirerProfil" -> r.profil # Absent /\ r.jonctions = {}
    [] b.etape = "creerLim" -> r.lim = Absent
    [] b.etape = "majLim" -> r.lim # Absent
    [] b.etape = "supprimerLim" -> r.lim # Absent /\ r.jonctions = {}
    [] b.etape = "detacher" -> \A j \in b.cibles : j \in r.jonctions
    [] OTHER -> r.profil # Absent /\ r.lim # Absent /\ r.jonctions # Jonctions

Tete(s) == CHOOSE j \in s : TRUE

\* updateProfile sends no number of shared users when the plan has none.
PartageApres(r, o) == r.u \/ o.u

\* The router once the request is done.
Fait(r, b) ==
  CASE b.etape = "creerProfil" -> [r EXCEPT !.profil = b.lue.v, !.u = b.lue.u]
    [] b.etape = "majProfil" -> [r EXCEPT !.profil = b.lue.v, !.u = PartageApres(r, b.lue)]
    [] b.etape = "retirerProfil" -> [r EXCEPT !.profil = Absent, !.u = FALSE]
    [] b.etape \in {"creerLim", "majLim"} -> [r EXCEPT !.lim = b.lue.v]
    [] b.etape = "supprimerLim" -> [r EXCEPT !.lim = Absent]
    [] b.etape = "detacher" -> [r EXCEPT !.jonctions = @ \ {Tete(b.cibles)}]
    [] OTHER -> [r EXCEPT !.jonctions = @ \union {Tete(Jonctions \ r.jonctions)}]

\* Where the call goes after a write that was accepted.
Suite(b) ==
  CASE b.etape \in {"creerProfil", "majProfil"} -> "limitation"
    [] b.etape \in {"creerLim", "majLim"} -> "jonction"
    [] b.etape = "detacher" /\ b.cibles # {Tete(b.cibles)} -> "detacher"
    [] b.etape = "detacher" /\ b.cibles = {Tete(b.cibles)} /\ b.pour # "ecran" -> "supprimerLim"
    [] OTHER -> "fin"

Ecrire(a) ==
  /\ appel[a].etape \in Ecritures /\ Accepte(routeur, appel[a])
  /\ routeur' = Fait(routeur, appel[a])
  /\ appel' = [appel EXCEPT ![a].etape = Suite(appel[a]), ![a].essai = 0,
       ![a].cibles = IF En(a, "detacher") THEN @ \ {Tete(@)} ELSE {}]
  /\ UNCHANGED <<offre, changements>>

\* The failure of the detaching is swallowed, the limitation is tried all the same.
RaterRequete(a) ==
  IF appel[a].etape \in {"aDetacher", "detacher"} /\ Reconcilie(a)
  THEN Aller(a, "supprimerLim") ELSE Rater(a)

\* A conflict, a target that is not there: not retried.  An account may use the profile.
Refuser(a) ==
  /\ appel[a].etape \in Ecritures
  /\ ~Accepte(routeur, appel[a]) \/ En(a, "retirerProfil")
  /\ RaterRequete(a)
  /\ UNCHANGED <<offre, routeur, changements>>

Perturbe(cours) == IF cours = "net" THEN "mele" ELSE cours

\* withControlledRetry: a timeout or a broken connection is tried again.
EncoreUnEssai(a) ==
  appel' = [appel EXCEPT ![a].essai = @ + 1, ![a].cours = Perturbe(@)]

\* No answer: the router has done what was asked, or not.
PerdreReponse(a) ==
  /\ appel[a].etape \in Ecritures \union {"profil", "limitation", "jonction", "aDetacher"}
  /\ \/ UNCHANGED routeur
     \/ /\ appel[a].etape \in Ecritures /\ Accepte(routeur, appel[a])
        /\ routeur' = Fait(routeur, appel[a])
  /\ IF appel[a].essai < MaxRetries THEN EncoreUnEssai(a)
     ELSE appel' = [appel EXCEPT ![a].cours = Perturbe(@), ![a].essai = 0, ![a].cibles = {},
            ![a].etape = IF appel[a].etape \in {"aDetacher", "detacher"} /\ Reconcilie(a)
                         THEN "supprimerLim" ELSE "echec"]
  /\ UNCHANGED <<offre, changements>>

-----------------------------------------------------------------------------
\* The plan is written with the names on the router; a row that is gone is an error.
Enregistrer(a) ==
  /\ En(a, "fin")
  /\ IF Reconcilie(a) /\ ~offre.existe THEN Rater(a) ELSE Finir(a)
  /\ UNCHANGED <<offre, routeur, changements>>

\* The error goes back to the caller; create takes its row back, not the profile.
Rendre(a) ==
  /\ En(a, "echec")
  /\ offre' = IF appel[a].pour = "creer" THEN PasDOffre ELSE offre
  /\ IF offre' # offre
     THEN appel' = [Perimer EXCEPT ![a] = Inactif]
     ELSE Finir(a)
  /\ UNCHANGED <<routeur, changements>>

\* The process stops between two requests.
Interrompre(a) ==
  /\ ~En(a, "repos")
  /\ Finir(a)
  /\ UNCHANGED <<offre, routeur, changements>>

Avancer(a) ==
  \/ LireProfil(a) \/ LireLimitation(a) \/ LireJonction(a) \/ ListerJonctions(a)
  \/ Ecrire(a) \/ Refuser(a) \/ PerdreReponse(a) \/ Enregistrer(a) \/ Rendre(a)

NextOffre ==
  \/ \E a \in Demandes : CreerOffre(a) \/ LireAuTarif(a) \/ Publier(a)
  \/ \E a \in Demandes : Reconcilier(a) \/ Avancer(a) \/ Interrompre(a)
  \/ \E a \in Demandes, e \in {"retirerProfil", "aDetacher", "supprimerLim", "jonction"} : AlaMain(a, e)
  \/ ModifierOffre \/ SupprimerOffre

SpecOffre == InitOffre /\ [][NextOffre]_varsOffre

-----------------------------------------------------------------------------
Etapes == {"repos", "publication", "profil", "limitation", "jonction", "aDetacher", "fin", "echec"}
            \union Ecritures

\* Types; a limitation is never removed under a junction.
TypeOKOffre ==
  /\ offre \in Offres \union {PasDOffre}
  /\ routeur \in [profil : Versions \union {Absent}, u : BOOLEAN,
                  lim : Versions \union {Absent}, jonctions : SUBSET Jonctions]
  /\ appel \in [Demandes ->
       [pour : {"rien", "creer", "publier", "reconcilier", "ecran"}, etape : Etapes,
        essai : 0..MaxRetries, lue : Offres \union {PasDOffre}, cibles : SUBSET Jonctions,
        cours : {"net", "mele", "croise"}]]
  /\ changements \in 0..MaxChangements
  /\ routeur.jonctions # {} => routeur.lim # Absent /\ routeur.profil # Absent

Conforme(o) ==
  /\ routeur.profil = o.v
  /\ o.u => routeur.u
  /\ IF o.p THEN routeur.lim = o.v /\ routeur.jonctions # {} ELSE routeur.lim = Absent

\* A reconciliation that is about to be recorded has brought the router to the plan it
\* has read, whatever state earlier calls left it in, whatever answers were lost, and
\* beside any others of the same plan; unless the plan was written, or somebody worked
\* by hand, in the meantime.  (Not the number of shared users
\* that a plan no longer has: updateProfile cannot take it from the profile.)
ReconciliationTient ==
  \A a \in Demandes : En(a, "fin") /\ Reconcilie(a) /\ appel[a].cours # "croise" => Conforme(appel[a].lue)

\* No half-done state is a dead end: a reconciliation that is alone, whose plan stays
\* and whose answers arrive, never fails.
ReconciliationRejouable ==
  \A a \in Demandes :
    En(a, "echec") /\ Reconcilie(a) => appel[a].cours # "net"
=============================================================================
