------------------------ MODULE SubscriptionsProofs ------------------------
(***************************************************************************)
(* The subscriptions, for any number of them, of operators, of gestures    *)
(* and of failures: the types and the bound on every date, the periods     *)
(* that were paid, and the router that does what the row says.             *)
(*                                                                         *)
(* None of the three is inductive.  The bound needs the gestures that may  *)
(* still add a period; the periods paid, what a renewal in progress holds; *)
(* the router, what a gesture that nobody crossed knows of the account and *)
(* of the device between its steps, and that two openings or closings of   *)
(* one access both know that they are not alone.                           *)
(***************************************************************************)
EXTENDS Subscriptions, FiniteSetTheorems, TLAPS

(***************************************************************************)
(* Types.                                                                  *)
(***************************************************************************)
Motifs == {"coupe", "croise", "differe", "tard", "travail", "expres"}
Statuts == {"ABSENT", "ACTIVE", "GRACE", "SUSPENDED"}
Gestes == {"aucun", "souscrire", "renouveler", "suspendre", "reprendre", "rapprocher",
           "contourner", "bloquer"}

Lignes == [status : Statuts, fin : Int]
Comptes == [existe : BOOLEAN, disabled : BOOLEAN, fin : Int]
Appareils == [type : {"aucun", "bypassed", "blocked"}, suivi : BOOLEAN]
EtapesDuTravail == {"repos", "choix", "fermeture", "coupure", "suspension"}
EnTravail == [geste : Gestes, etape : Etapes, s : Abonnes \union {Personne}, lu : Statuts,
              fin : Int, du : Int, bouge : BOOLEAN, croise : BOOLEAN]
Passes == [etape : EtapesDuTravail, liste : SUBSET Abonnes, s : Abonnes \union {Personne},
           croise : BOOLEAN]

\* The steps of each gesture; the account is opened for a renewal only if the row that
\* was read is SUSPENDED.
Forme(r) ==
  \/ r.geste = "aucun" /\ r.etape = "repos" /\ r.s = Personne
  \/ /\ r.s \in Abonnes
     /\ \/ r.geste = "souscrire" /\ r.etape \in {"compte", "attribution", "creation"}
        \/ r.geste = "renouveler" /\ r.etape \in {"lu", "attribution", "renouvellement"}
        \/ r.geste = "renouveler" /\ r.lu = "SUSPENDED" /\ r.etape \in {"ouverture", "appareils"}
        \/ r.geste = "suspendre" /\ r.etape \in {"fermeture", "coupure", "appareils", "suspension"}
        \/ r.geste = "reprendre" /\ r.etape \in {"ouverture", "appareils", "reprise"}
        \/ r.geste = "rapprocher" /\ r.etape \in {"lecture", "alignement"}
        \/ r.geste \in {"contourner", "bloquer"} /\ r.etape \in {"contournement", "memorisation"}

FormePasse(t) ==
  \/ t.s = Personne /\ t.etape \in {"repos", "choix"}
  \/ t.s \in Abonnes /\ t.etape \in {"fermeture", "coupure", "suspension"}

TypesDuPartage ==
  /\ abonnement \in [Abonnes -> Lignes]
  /\ compte \in [Abonnes -> Comptes]
  /\ appareil \in [Abonnes -> Appareils]
  /\ enFile \in [Abonnes -> BOOLEAN]
  /\ pannes \in 0..MaxPannes
  /\ trouble \in [Abonnes -> SUBSET Motifs]
  /\ perte \in [Abonnes -> BOOLEAN]
  /\ du \in [Abonnes -> Int]

TypesDesRequetes ==
  /\ requete \in [Requetes -> EnTravail]
  /\ \A q \in Requetes : Forme(requete[q])

TypesDuTravail == travail \in Passes /\ FormePasse(travail)

Types == TypesDuPartage /\ TypesDesRequetes /\ TypesDuTravail /\ gestes \in 0..MaxGestes

(***************************************************************************)
(* Dates.                                                                  *)
(***************************************************************************)
\* The gestures that may still put a period after another one.
Avant == {"compte", "lu", "fermeture", "coupure", "ouverture", "appareils", "attribution"}
EnAttente == {q \in Requetes : requete[q].etape \in Avant}
Faits == gestes - Cardinality(EnAttente)
Plafond(n) == (n + 1) * Rachat

BorneDeRequete(r, borne) ==
  /\ r.fin \in Fond..(borne + Rachat)
  /\ r.etape \notin {"ouverture", "appareils", "attribution"} => r.fin <= borne

Bornes ==
  /\ IsFiniteSet(EnAttente) /\ Cardinality(EnAttente) <= gestes
  /\ \A s \in Abonnes : abonnement[s].fin \in Fond..Plafond(Faits)
  /\ \A s \in Abonnes : compte[s].fin \in Aucune..Plafond(Faits)
  /\ \A q \in Requetes : BorneDeRequete(requete[q], Plafond(Faits))

\* What a renewal will write and what it owes come from the same instant.
RenouvellementsTenus ==
  \A q \in Requetes :
    requete[q].geste = "renouveler" =>
      perte[requete[q].s] \/ requete[q].fin >= requete[q].du

(***************************************************************************)
(* The router and the row.                                                 *)
(***************************************************************************)
\* What a gesture that nobody crossed knows of the account c and of the device d.
AOuvert(r) ==
  \/ r.geste = "souscrire" /\ r.etape \in {"attribution", "creation"}
  \/ r.geste = "reprendre" /\ r.etape \in {"appareils", "reprise"}
  \/ /\ r.geste = "renouveler" /\ r.lu = "SUSPENDED"
     /\ r.etape \in {"appareils", "attribution", "renouvellement"}
AFerme(r) == r.geste = "suspendre" /\ r.etape \in {"coupure", "appareils", "suspension"}
ABloque(r) == r.geste = "bloquer" /\ r.etape = "memorisation"

Sait(r, c, d) ==
  r.croise \/
    /\ AOuvert(r) => ~c.existe \/ ~c.disabled
    /\ AFerme(r) => ~c.existe \/ c.disabled
    /\ AFerme(r) /\ r.etape = "suspension" /\ d.suivi => d.type = "blocked"
    /\ ABloque(r) => d.type = "blocked"

Savoir ==
  \A q \in Requetes :
    requete[q].s \in Abonnes => Sait(requete[q], compte[requete[q].s], appareil[requete[q].s])
JobSait ==
  TravailEntame /\ ~travail.croise => ~compte[travail.s].existe \/ compte[travail.s].disabled

\* Two openings or closings of the same access know that they are not alone.
Croisements ==
  /\ \A p, q \in Requetes :
       p # q /\ requete[p].s = requete[q].s /\ OuvreOuFerme(requete[p]) /\ OuvreOuFerme(requete[q])
         => requete[q].croise
  /\ \A q \in Requetes :
       OuvreOuFerme(requete[q]) /\ TravailSur(requete[q].s) => requete[q].croise /\ travail.croise

\* Only the gestures that work on the account, or on the device, keep the row from
\* saying what they are.
EntameCompte(r) == AOuvert(r) \/ AFerme(r)
EntameAppareil(r) == EntameCompte(r) \/ r.etape = "memorisation"

Graves == {"coupe", "croise", "differe", "tard"}

AccordCompte(ligne, c, motifs) ==
  ligne.status # "ABSENT" /\ motifs \intersect Graves = {} /\ c.existe =>
    (c.disabled <=> ligne.status = "SUSPENDED")
AccordAppareil(ligne, d, motifs) ==
  ligne.status = "SUSPENDED" /\ motifs = {} /\ d.suivi => d.type = "blocked"

JobEntame(s) == TravailSur(s) /\ TravailEntame
CompteLibre(s) ==
  ~JobEntame(s) /\ \A q \in Requetes : requete[q].s = s => ~EntameCompte(requete[q])
AppareilLibre(s) ==
  ~JobEntame(s) /\ \A q \in Requetes : requete[q].s = s => ~EntameAppareil(requete[q])

CompteSuit ==
  \A s \in Abonnes : CompteLibre(s) => AccordCompte(abonnement[s], compte[s], trouble[s])
AppareilSuit ==
  \A s \in Abonnes : AppareilLibre(s) => AccordAppareil(abonnement[s], appareil[s], trouble[s])

DejaInscrits ==
  \A q \in Requetes :
    requete[q].geste \notin {"aucun", "souscrire"} => Inscrit(requete[q].s)

IInv ==
  /\ Types /\ Bornes /\ RenouvellementsTenus /\ PeriodesPayees
  /\ Savoir /\ JobSait /\ Croisements /\ CompteSuit /\ AppareilSuit /\ DejaInscrits

-----------------------------------------------------------------------------
(***************************************************************************)
(* Dates and counts.                                                       *)
(***************************************************************************)
LEMMA Nombres ==
  /\ Periode \in Nat /\ Periode >= 1 /\ Grace \in Nat
  /\ Fond \in Int /\ Aucune \in Int /\ Fond <= 0 /\ Aucune = Fond - 1
  /\ MaxGestes \in Nat /\ MaxPannes \in Nat
  /\ Rachat \in Nat /\ Rachat >= Periode
<1>1. Periode \in Nat /\ Periode >= 1 /\ MaxRetries \in Nat
  BY ConstantesAbonnement
<1>2. Rachat = Periode + Periode * MaxRetries /\ Periode * MaxRetries \in Nat
  BY <1>1 DEF Rachat
<1>3. QED
  BY <1>1, <1>2, ConstantesAbonnement DEF Fond, Aucune

\* What one assignment puts on the account, and the ends that the router may return.
LEMMA LesEmpilees ==
  \A d \in Empilees : d \in Nat /\ d >= 1 /\ d <= Rachat
<1>1. Periode \in Nat /\ Periode >= 1 /\ MaxRetries \in Nat
  BY ConstantesAbonnement
<1>2. \A m, n \in Nat : m <= n => Periode * m \in Nat /\ Periode * n \in Nat /\ Periode * m <= Periode * n
  BY <1>1
<1>3. ASSUME NEW n \in 1..(1 + MaxRetries)
      PROVE  Periode * n \in Nat /\ Periode * n >= 1 /\ Periode * n <= Rachat
  <2>1. n \in Nat /\ 1 \in Nat /\ 1 + MaxRetries \in Nat /\ 1 <= n /\ n <= 1 + MaxRetries
    BY <1>1
  <2>2. Periode * 1 <= Periode * n /\ Periode * n <= Periode * (1 + MaxRetries) /\ Periode * n \in Nat
    BY <1>2, <2>1
  <2>3. QED
    BY <1>1, <2>2 DEF Rachat
<1>4. QED
  BY <1>3 DEF Empilees

LEMMA LesFinsRendues ==
  ASSUME NEW s, NEW h \in Nat, compte[s].fin \in Aucune..h
  PROVE  \A e \in FinsRendues(s) : e \in Aucune..(h + Rachat) /\ (e # Aucune => e >= Fond)
<1>1. CASE compte[s].fin = Aucune
  <2>1. FinsRendues(s) = {Aucune} \union Empilees
    BY <1>1 DEF FinsRendues
  <2>2. QED
    BY <2>1, LesEmpilees, Nombres
<1>2. CASE compte[s].fin # Aucune
  <2>1. PlusTard(compte[s].fin, 0) \in 0..h
    BY <1>2, Nombres DEF PlusTard
  <2>2. FinsRendues(s) = {Periode} \union {PlusTard(compte[s].fin, 0) + d : d \in Empilees}
    BY <1>2 DEF FinsRendues
  <2>3. \A d \in Empilees : PlusTard(compte[s].fin, 0) + d \in 0..(h + Rachat)
    BY <2>1, LesEmpilees, Nombres
  <2>4. QED
    BY <2>2, <2>3, Nombres
<1>3. QED
  BY <1>1, <1>2

\* Time passes for two dates at once, and stops at the end of the grace.
LEMMA VieillirDates ==
  ASSUME NEW d \in Int
  PROVE  /\ Vieillir(d) \in Int /\ Vieillir(d) <= d
         /\ d >= Fond => Vieillir(d) >= Fond
         /\ d >= Aucune => Vieillir(d) >= Aucune
         /\ \A e \in Int : d >= e => Vieillir(d) >= Vieillir(e)
BY Nombres DEF Vieillir

LEMMA PlafondCroit ==
  ASSUME NEW n \in Nat
  PROVE  /\ Plafond(n) \in Nat /\ Plafond(n) >= Rachat /\ Plafond(n) >= Periode
         /\ Plafond(n + 1) = Plafond(n) + Rachat
<1>1. Plafond(n) = n * Rachat + Rachat /\ n * Rachat \in Nat
  BY Nombres DEF Plafond
<1>2. Plafond(n + 1) = (n * Rachat + Rachat) + Rachat
  BY Nombres DEF Plafond
<1>3. QED
  BY <1>1, <1>2, Nombres

LEMMA PlafondMonotone ==
  ASSUME NEW n \in Nat, NEW m \in Nat, n <= m
  PROVE  Plafond(n) <= Plafond(m)
<1>1. (n + 1) * Rachat <= (n + 1) * Rachat + (m - n) * Rachat
  BY Nombres
<1>2. (n + 1) * Rachat + (m - n) * Rachat = (m + 1) * Rachat
  BY Nombres
<1>3. QED
  BY <1>1, <1>2 DEF Plafond

LEMMA ReposOK ==
  /\ Repos \in EnTravail /\ Forme(Repos)
  /\ Repos.geste = "aucun" /\ Repos.etape = "repos" /\ Repos.s = Personne
  /\ Repos.fin = Fond /\ Repos.du = Fond /\ ~OuvreOuFerme(Repos)
  /\ Repos.lu = "ABSENT" /\ Repos.croise = FALSE
BY Nombres DEF Repos, EnTravail, Forme, Gestes, Etapes, Statuts, OuvreOuFerme

LEMMA SansTravailOK ==
  /\ SansTravail \in Passes /\ FormePasse(SansTravail)
  /\ SansTravail.etape = "repos" /\ SansTravail.s = Personne /\ SansTravail.liste = {}
  /\ SansTravail.croise = FALSE
BY DEF SansTravail, Passes, FormePasse, EtapesDuTravail

LEMMA ReposNEntamePas ==
  ~EntameCompte(Repos) /\ ~EntameAppareil(Repos) /\ ~AOuvert(Repos) /\ ~AFerme(Repos)
  /\ ~ABloque(Repos)
BY ReposOK DEF EntameCompte, EntameAppareil, AOuvert, AFerme, ABloque

\* What IInv says of one gesture and of its subscription.
LEMMA FaitsDUnGeste ==
  ASSUME IInv, NEW q \in Requetes, NEW s, s = requete[q].s, requete[q].etape # "repos"
  PROVE  /\ s \in Abonnes /\ requete[q] \in EnTravail /\ Forme(requete[q])
         /\ abonnement[s] \in Lignes /\ compte[s] \in Comptes /\ appareil[s] \in Appareils
         /\ trouble[s] \in SUBSET Motifs /\ perte[s] \in BOOLEAN /\ du[s] \in Int
         /\ Sait(requete[q], compte[s], appareil[s])
         /\ CompteLibre(s) => AccordCompte(abonnement[s], compte[s], trouble[s])
         /\ AppareilLibre(s) => AccordAppareil(abonnement[s], appareil[s], trouble[s])
         /\ requete[q].geste \notin {"aucun", "souscrire"} => abonnement[s].status # "ABSENT"
         /\ requete[q].geste = "renouveler" => perte[s] \/ requete[q].fin >= requete[q].du
         /\ perte[s] \/ abonnement[s].fin >= du[s]
<1>1. requete[q] \in EnTravail /\ Forme(requete[q])
  BY DEF IInv, Types, TypesDesRequetes
<1>2. s \in Abonnes
  BY <1>1 DEF Forme
<1>3. /\ abonnement[s] \in Lignes /\ compte[s] \in Comptes /\ appareil[s] \in Appareils
      /\ trouble[s] \in SUBSET Motifs /\ perte[s] \in BOOLEAN /\ du[s] \in Int
  BY <1>2 DEF IInv, Types, TypesDuPartage
<1>4. Sait(requete[q], compte[s], appareil[s])
  BY <1>2 DEF IInv, Savoir
<1>5. /\ CompteLibre(s) => AccordCompte(abonnement[s], compte[s], trouble[s])
      /\ AppareilLibre(s) => AccordAppareil(abonnement[s], appareil[s], trouble[s])
  BY <1>2 DEF IInv, CompteSuit, AppareilSuit
<1>6. requete[q].geste \notin {"aucun", "souscrire"} => abonnement[s].status # "ABSENT"
  BY DEF IInv, DejaInscrits, Inscrit
<1>7. requete[q].geste = "renouveler" => perte[s] \/ requete[q].fin >= requete[q].du
  BY DEF IInv, RenouvellementsTenus
<1>8. perte[s] \/ abonnement[s].fin >= du[s]
  BY <1>2 DEF IInv, PeriodesPayees
<1>9. QED
  BY <1>1, <1>2, <1>3, <1>4, <1>5, <1>6, <1>7, <1>8

\* What IInv says of the dates.
LEMMA FaitsDesDates ==
  ASSUME IInv
  PROVE  /\ Faits \in Nat /\ Faits <= MaxGestes /\ gestes \in Nat
         /\ Plafond(Faits) \in Nat /\ Plafond(Faits) >= Periode /\ Plafond(Faits) >= Rachat
         /\ \A s \in Abonnes : /\ abonnement[s].fin \in Fond..Plafond(Faits)
                               /\ compte[s].fin \in Aucune..Plafond(Faits)
         /\ \A q \in Requetes : BorneDeRequete(requete[q], Plafond(Faits))
<1>1. Cardinality(EnAttente) \in Nat /\ Cardinality(EnAttente) <= gestes
  BY FS_CardinalityType DEF IInv, Bornes
<1>2. gestes \in Nat /\ gestes <= MaxGestes
  BY Nombres DEF IInv, Types
<1>3. Faits \in Nat /\ Faits <= MaxGestes
  BY <1>1, <1>2, Nombres DEF Faits
<1>4. Plafond(Faits) \in Nat /\ Plafond(Faits) >= Periode /\ Plafond(Faits) >= Rachat
  BY <1>3, PlafondCroit
<1>5. QED
  BY <1>2, <1>3, <1>4 DEF IInv, Bornes

-----------------------------------------------------------------------------
(***************************************************************************)
(* A step of one gesture.                                                  *)
(***************************************************************************)
\* Another gesture is told at most that it was crossed, or that the end has moved.
Meme(r, b) ==
  /\ r.geste = b.geste /\ r.etape = b.etape /\ r.s = b.s /\ r.lu = b.lu
  /\ r.fin = b.fin /\ r.du = b.du
  /\ b.croise => r.croise

LEMMA MemeOK ==
  ASSUME NEW r, NEW b, Meme(r, b)
  PROVE  /\ OuvreOuFerme(r) <=> OuvreOuFerme(b)
         /\ Forme(r) <=> Forme(b)
         /\ EntameCompte(r) <=> EntameCompte(b)
         /\ EntameAppareil(r) <=> EntameAppareil(b)
         /\ AOuvert(r) <=> AOuvert(b)
         /\ AFerme(r) <=> AFerme(b)
         /\ ABloque(r) <=> ABloque(b)
         /\ \A borne : BorneDeRequete(r, borne) <=> BorneDeRequete(b, borne)
         /\ \A c, d : Sait(b, c, d) => Sait(r, c, d)
<1>1. /\ OuvreOuFerme(r) <=> OuvreOuFerme(b)
      /\ Forme(r) <=> Forme(b)
      /\ AOuvert(r) <=> AOuvert(b)
      /\ AFerme(r) <=> AFerme(b)
      /\ ABloque(r) <=> ABloque(b)
      /\ \A borne : BorneDeRequete(r, borne) <=> BorneDeRequete(b, borne)
  BY DEF Meme, OuvreOuFerme, Forme, AOuvert, AFerme, ABloque, BorneDeRequete
<1>2. EntameCompte(r) <=> EntameCompte(b)
  BY <1>1 DEF EntameCompte
<1>3. EntameAppareil(r) <=> EntameAppareil(b)
  BY <1>2 DEF EntameAppareil, Meme
<1>4. \A c, d : Sait(b, c, d) => Sait(r, c, d)
  BY <1>1 DEF Sait, Meme
<1>5. QED
  BY <1>1, <1>2, <1>3, <1>4

\* Only an opening or a closing knows something of the router.
LEMMA SaitRien ==
  ASSUME NEW r, NEW c, NEW d, r.croise \/ ~OuvreOuFerme(r)
  PROVE  Sait(r, c, d)
BY DEF Sait, OuvreOuFerme, AOuvert, AFerme, ABloque

\* The gesture q goes on with the same subject, or ends.
Pas(q) ==
  /\ requete' \in [Requetes -> EnTravail]
  /\ Forme(requete'[q])
  /\ \A p \in Requetes \ {q} : Meme(requete'[p], requete[p])
  /\ \/ requete'[q] = Repos
     \/ /\ requete'[q].geste = requete[q].geste /\ requete'[q].s = requete[q].s
        /\ requete'[q].lu = requete[q].lu /\ requete'[q].croise = requete[q].croise
        /\ requete'[q].etape \in Avant => requete[q].etape \in Avant

\* Only the subscription s is touched.
SurUnSeul(s) ==
  \A t \in Abonnes \ {s} :
    /\ abonnement'[t] = abonnement[t] /\ compte'[t] = compte[t] /\ appareil'[t] = appareil[t]
    /\ trouble'[t] = trouble[t] /\ perte'[t] = perte[t] /\ du'[t] = du[t]

PlafondApres(q) ==
  IF requete[q].etape \in Avant /\ requete'[q].etape \notin Avant
  THEN Plafond(Faits) + Rachat ELSE Plafond(Faits)

\* The dates that the step leaves.
DatesDuPas(q, s) ==
  /\ abonnement'[s].fin \in Fond..PlafondApres(q)
  /\ compte'[s].fin \in Aucune..PlafondApres(q)
  /\ BorneDeRequete(requete'[q], PlafondApres(q))

PaiementDuPas(q, s) ==
  /\ requete'[q].geste = "renouveler" => perte'[s] \/ requete'[q].fin >= requete'[q].du
  /\ perte[s] => perte'[s]
  /\ perte'[s] \/ abonnement'[s].fin >= du'[s]

\* What is changed on the router is the affair of an opening or a closing, and what the
\* gesture knows of it afterwards is true.
RouteurDuPas(q, s) ==
  /\ \/ OuvreOuFerme(requete[q])
     \/ /\ compte'[s].existe = compte[s].existe /\ compte'[s].disabled = compte[s].disabled
        /\ appareil'[s] = appareil[s]
  /\ Sait(requete'[q], compte'[s], appareil'[s])

\* The step leaves the row and the router agreed, or leaves alone what was agreed.
AccordDuPas(q, s) ==
  /\ \/ EntameCompte(requete'[q])
     \/ AccordCompte(abonnement'[s], compte'[s], trouble'[s])
     \/ /\ ~EntameCompte(requete[q])
        /\ AccordCompte(abonnement[s], compte[s], trouble[s])
             => AccordCompte(abonnement'[s], compte'[s], trouble'[s])
  /\ \/ EntameAppareil(requete'[q])
     \/ AccordAppareil(abonnement'[s], appareil'[s], trouble'[s])
     \/ /\ ~EntameAppareil(requete[q])
        /\ AccordAppareil(abonnement[s], appareil[s], trouble[s])
             => AccordAppareil(abonnement'[s], appareil'[s], trouble'[s])
  /\ abonnement[s].status # "ABSENT" => abonnement'[s].status # "ABSENT"

LEMMA PasBornes ==
  ASSUME IInv, NEW q \in Requetes, NEW s \in Abonnes, Pas(q), SurUnSeul(s), DatesDuPas(q, s),
         gestes' = gestes
  PROVE  Bornes'
<1> DEFINE apres == requete'[q].etape \in Avant
           avant == requete[q].etape \in Avant
<1>1. IsFiniteSet(EnAttente) /\ Cardinality(EnAttente) \in Nat /\ Cardinality(EnAttente) <= gestes
  BY FS_CardinalityType DEF IInv, Bornes
<1>2. \A p \in Requetes \ {q} : requete'[p].etape = requete[p].etape
  BY DEF Pas, Meme
<1>3. EnAttente' = IF avant /\ ~apres THEN EnAttente \ {q} ELSE EnAttente
  <2>1. apres => avant
    BY ReposOK DEF Pas, Avant
  <2>2. QED
    BY <1>2, <2>1 DEF EnAttente
<1>4. /\ IsFiniteSet(EnAttente') /\ Cardinality(EnAttente') \in Nat
      /\ Cardinality(EnAttente') =
           IF avant /\ ~apres THEN Cardinality(EnAttente) - 1 ELSE Cardinality(EnAttente)
  <2>1. CASE avant /\ ~apres
    <3>1. q \in EnAttente
      BY <2>1 DEF EnAttente
    <3>2. QED
      BY <1>1, <1>3, <2>1, <3>1, FS_RemoveElement, FS_CardinalityType
  <2>2. CASE ~(avant /\ ~apres)
    BY <1>1, <1>3, <2>2
  <2>3. QED
    BY <2>1, <2>2
<1>5. /\ Faits \in Nat /\ Plafond(Faits) \in Nat
      /\ \A t \in Abonnes : /\ abonnement[t].fin \in Fond..Plafond(Faits)
                            /\ compte[t].fin \in Aucune..Plafond(Faits)
      /\ \A p \in Requetes : BorneDeRequete(requete[p], Plafond(Faits))
  BY FaitsDesDates
<1>6. Plafond(Faits)' = PlafondApres(q)
  <2>1. gestes \in Nat
    BY FaitsDesDates
  <2>2. CASE avant /\ ~apres
    <3>1. Faits' = Faits + 1
      BY <1>1, <1>4, <2>1, <2>2 DEF Faits
    <3>2. Plafond(Faits)' = Plafond(Faits + 1)
      BY <3>1 DEF Plafond
    <3>3. QED
      BY <1>5, <2>2, <3>2, PlafondCroit DEF PlafondApres
  <2>3. CASE ~(avant /\ ~apres)
    <3>1. Faits' = Faits
      BY <1>1, <1>4, <2>1, <2>3 DEF Faits
    <3>2. QED
      BY <2>3, <3>1 DEF PlafondApres, Plafond
  <2>4. QED
    BY <2>2, <2>3
<1>7. PlafondApres(q) \in Nat /\ PlafondApres(q) >= Plafond(Faits)
  BY <1>5, Nombres DEF PlafondApres
<1>8. \A t \in Abonnes : /\ abonnement'[t].fin \in Fond..PlafondApres(q)
                         /\ compte'[t].fin \in Aucune..PlafondApres(q)
  <2> SUFFICES ASSUME NEW t \in Abonnes
               PROVE  /\ abonnement'[t].fin \in Fond..PlafondApres(q)
                      /\ compte'[t].fin \in Aucune..PlafondApres(q)
    OBVIOUS
  <2>1. CASE t = s
    BY <2>1 DEF DatesDuPas
  <2>2. CASE t # s
    <3>1. abonnement'[t] = abonnement[t] /\ compte'[t] = compte[t]
      BY <2>2 DEF SurUnSeul
    <3>2. QED
      BY <1>5, <1>7, <3>1, Nombres
  <2>3. QED
    BY <2>1, <2>2
<1>9. \A p \in Requetes : BorneDeRequete(requete'[p], PlafondApres(q))
  <2> SUFFICES ASSUME NEW p \in Requetes
               PROVE  BorneDeRequete(requete'[p], PlafondApres(q))
    OBVIOUS
  <2>1. CASE p = q
    BY <2>1 DEF DatesDuPas
  <2>2. CASE p # q
    <3>1. Meme(requete'[p], requete[p])
      BY <2>2 DEF Pas
    <3>2. BorneDeRequete(requete'[p], Plafond(Faits))
      BY <1>5, <3>1, MemeOK
    <3>3. QED
      BY <1>5, <1>7, <3>2, Nombres DEF BorneDeRequete
  <2>3. QED
    BY <2>1, <2>2
<1>10. Cardinality(EnAttente') <= gestes'
  BY <1>1, <1>4, FaitsDesDates
<1>11. QED
  BY <1>4, <1>6, <1>8, <1>9, <1>10 DEF Bornes, BorneDeRequete

LEMMA PasPaiements ==
  ASSUME IInv, NEW q \in Requetes, NEW s \in Abonnes, s = requete[q].s, Pas(q), SurUnSeul(s),
         PaiementDuPas(q, s)
  PROVE  RenouvellementsTenus' /\ PeriodesPayees'
<1>1. \A t \in Abonnes : perte'[t] \/ abonnement'[t].fin >= du'[t]
  <2> SUFFICES ASSUME NEW t \in Abonnes
               PROVE  perte'[t] \/ abonnement'[t].fin >= du'[t]
    OBVIOUS
  <2>1. CASE t = s
    BY <2>1 DEF PaiementDuPas
  <2>2. CASE t # s
    BY <2>2 DEF SurUnSeul, IInv, PeriodesPayees
  <2>3. QED
    BY <2>1, <2>2
<1>2. ASSUME NEW p \in Requetes, requete'[p].geste = "renouveler"
      PROVE  perte'[requete'[p].s] \/ requete'[p].fin >= requete'[p].du
  <2>1. CASE p = q
    BY <1>2, <2>1, ReposOK DEF PaiementDuPas, Pas
  <2>2. CASE p # q
    <3>1. Meme(requete'[p], requete[p])
      BY <2>2 DEF Pas
    <3>2. perte[requete[p].s] \/ requete[p].fin >= requete[p].du
      BY <1>2, <3>1 DEF IInv, RenouvellementsTenus, Meme
    <3>3. perte[requete[p].s] => perte'[requete[p].s]
      <4>1. requete[p].s \in Abonnes
        BY <1>2, <3>1 DEF IInv, Types, TypesDesRequetes, Forme, Meme
      <4>2. QED
        BY <4>1 DEF SurUnSeul, PaiementDuPas
    <3>4. QED
      BY <3>1, <3>2, <3>3 DEF Meme
  <2>3. QED
    BY <2>1, <2>2
<1>3. QED
  BY <1>1, <1>2 DEF RenouvellementsTenus, PeriodesPayees

LEMMA PasAcces ==
  ASSUME IInv, NEW q \in Requetes, NEW s \in Abonnes, s = requete[q].s, Pas(q), SurUnSeul(s),
         travail' = travail, RouteurDuPas(q, s), AccordDuPas(q, s)
  PROVE  /\ Savoir' /\ JobSait' /\ Croisements' /\ CompteSuit' /\ AppareilSuit'
         /\ DejaInscrits'
<1>1. /\ \A p, r \in Requetes :
           p # r /\ requete[p].s = requete[r].s /\ OuvreOuFerme(requete[p])
             /\ OuvreOuFerme(requete[r]) => requete[r].croise
      /\ \A p \in Requetes :
           OuvreOuFerme(requete[p]) /\ TravailSur(requete[p].s)
             => requete[p].croise /\ travail.croise
  BY DEF IInv, Croisements
<1>2. \A p \in Requetes \ {q} : Meme(requete'[p], requete[p])
  BY DEF Pas
<1>3. \/ requete'[q] = Repos
      \/ /\ requete'[q].s = s /\ requete'[q].croise = requete[q].croise
         /\ requete'[q].geste = requete[q].geste
         /\ OuvreOuFerme(requete'[q]) <=> OuvreOuFerme(requete[q])
  BY DEF Pas, OuvreOuFerme
<1>4. TypesDuTravail /\ TypesDuPartage
  BY DEF IInv, Types
<1>5. Savoir'
  <2> SUFFICES ASSUME NEW p \in Requetes, requete'[p].s \in Abonnes
               PROVE  Sait(requete'[p], compte'[requete'[p].s], appareil'[requete'[p].s])
    BY DEF Savoir, Sait, AOuvert, AFerme, ABloque
  <2>1. CASE p = q
    BY <1>3, <2>1, ReposOK, PersonneNEstAbonne DEF RouteurDuPas
  <2>2. CASE p # q
    <3>1. Meme(requete'[p], requete[p]) /\ requete'[p].s = requete[p].s
      BY <1>2, <2>2 DEF Meme
    <3>2. Sait(requete[p], compte[requete[p].s], appareil[requete[p].s])
      BY <3>1 DEF IInv, Savoir
    <3>3. CASE requete[p].s # s
      BY <3>1, <3>2, <3>3, MemeOK DEF SurUnSeul
    <3>4. CASE requete[p].s = s /\ OuvreOuFerme(requete[q])
      <4>1. requete[p].croise \/ ~OuvreOuFerme(requete[p])
        BY <1>1, <2>2, <3>4
      <4>2. Sait(requete[p], compte'[s], appareil'[s])
        BY <4>1, SaitRien
      <4>3. QED
        BY <3>1, <3>4, <4>2, MemeOK
    <3>5. CASE requete[p].s = s /\ ~OuvreOuFerme(requete[q])
      <4>1. /\ compte'[s].existe = compte[s].existe /\ compte'[s].disabled = compte[s].disabled
            /\ appareil'[s] = appareil[s]
        BY <3>5 DEF RouteurDuPas
      <4>2. Sait(requete[p], compte'[s], appareil'[s])
        BY <3>2, <3>5, <4>1 DEF Sait
      <4>3. QED
        BY <3>1, <3>5, <4>2, MemeOK
    <3>6. QED
      BY <3>3, <3>4, <3>5
  <2>3. QED
    BY <2>1, <2>2
<1>6. JobSait'
  <2>1. SUFFICES ASSUME TravailEntame, ~travail.croise
                 PROVE  ~compte'[travail.s].existe \/ compte'[travail.s].disabled
    BY DEF JobSait, TravailEntame
  <2>2. ~compte[travail.s].existe \/ compte[travail.s].disabled
    BY <2>1 DEF IInv, JobSait
  <2>3. travail.s \in Abonnes
    BY <1>4, <2>1 DEF TypesDuTravail, FormePasse, TravailEntame
  <2>4. CASE travail.s # s
    BY <2>2, <2>3, <2>4 DEF SurUnSeul
  <2>5. CASE travail.s = s
    <3>1. ~OuvreOuFerme(requete[q])
      BY <1>1, <2>1, <2>5 DEF TravailSur
    <3>2. QED
      BY <2>2, <2>5, <3>1 DEF RouteurDuPas
  <2>6. QED
    BY <2>4, <2>5
<1>7. \A p \in Requetes :
        OuvreOuFerme(requete'[p]) =>
          /\ OuvreOuFerme(requete[p]) /\ requete'[p].s = requete[p].s
          /\ requete[p].croise => requete'[p].croise
  <2> SUFFICES ASSUME NEW p \in Requetes, OuvreOuFerme(requete'[p])
               PROVE  /\ OuvreOuFerme(requete[p]) /\ requete'[p].s = requete[p].s
                      /\ requete[p].croise => requete'[p].croise
    OBVIOUS
  <2>1. CASE p = q
    BY <1>3, <2>1, ReposOK
  <2>2. CASE p # q
    BY <1>2, <2>2, MemeOK DEF Meme
  <2>3. QED
    BY <2>1, <2>2
<1>8. Croisements'
  <2>1. ASSUME NEW p \in Requetes, NEW r \in Requetes, p # r, requete'[p].s = requete'[r].s,
               OuvreOuFerme(requete'[p]), OuvreOuFerme(requete'[r])
        PROVE  requete'[r].croise
    BY <1>1, <1>7, <2>1
  <2>2. ASSUME NEW p \in Requetes, OuvreOuFerme(requete'[p]), travail.s = requete'[p].s
        PROVE  requete'[p].croise /\ travail.croise
    BY <1>1, <1>7, <2>2 DEF TravailSur
  <2>3. QED
    BY <2>1, <2>2 DEF Croisements, TravailSur, OuvreOuFerme
<1>9. CompteSuit'
  <2> SUFFICES ASSUME NEW t \in Abonnes, CompteLibre(t)'
               PROVE  AccordCompte(abonnement'[t], compte'[t], trouble'[t])
    BY DEF CompteSuit, AccordCompte
  <2>1. /\ ~JobEntame(t)
        /\ \A p \in Requetes : requete'[p].s = t => ~EntameCompte(requete'[p])
    BY DEF CompteLibre, JobEntame, TravailSur, TravailEntame, EntameCompte, AOuvert, AFerme
  <2>2. \A p \in Requetes \ {q} : requete[p].s = t => ~EntameCompte(requete[p])
    BY <1>2, <2>1, MemeOK DEF Meme
  <2>3. CASE t # s
    <3>1. CompteLibre(t)
      BY <2>1, <2>2, <2>3 DEF CompteLibre
    <3>2. QED
      BY <2>3, <3>1 DEF IInv, CompteSuit, SurUnSeul
  <2>4. CASE t = s
    <3>1. ~EntameCompte(requete'[q])
      BY <1>3, <2>1, <2>4, ReposNEntamePas
    <3>2. CASE ~EntameCompte(requete[q])
      <4>1. CompteLibre(s)
        BY <2>1, <2>2, <2>4, <3>2 DEF CompteLibre
      <4>2. AccordCompte(abonnement[s], compte[s], trouble[s])
        BY <4>1 DEF IInv, CompteSuit
      <4>3. QED
        BY <2>4, <3>1, <4>2 DEF AccordDuPas
    <3>3. CASE EntameCompte(requete[q])
      BY <2>4, <3>1, <3>3 DEF AccordDuPas
    <3>4. QED
      BY <3>2, <3>3
  <2>5. QED
    BY <2>3, <2>4
<1>10. AppareilSuit'
  <2> SUFFICES ASSUME NEW t \in Abonnes, AppareilLibre(t)'
               PROVE  AccordAppareil(abonnement'[t], appareil'[t], trouble'[t])
    BY DEF AppareilSuit, AccordAppareil
  <2>1. /\ ~JobEntame(t)
        /\ \A p \in Requetes : requete'[p].s = t => ~EntameAppareil(requete'[p])
    BY DEF AppareilLibre, JobEntame, TravailSur, TravailEntame, EntameAppareil, EntameCompte,
           AOuvert, AFerme
  <2>2. \A p \in Requetes \ {q} : requete[p].s = t => ~EntameAppareil(requete[p])
    BY <1>2, <2>1, MemeOK DEF Meme
  <2>3. CASE t # s
    <3>1. AppareilLibre(t)
      BY <2>1, <2>2, <2>3 DEF AppareilLibre
    <3>2. QED
      BY <2>3, <3>1 DEF IInv, AppareilSuit, SurUnSeul
  <2>4. CASE t = s
    <3>1. ~EntameAppareil(requete'[q])
      BY <1>3, <2>1, <2>4, ReposNEntamePas
    <3>2. CASE ~EntameAppareil(requete[q])
      <4>1. AppareilLibre(s)
        BY <2>1, <2>2, <2>4, <3>2 DEF AppareilLibre
      <4>2. AccordAppareil(abonnement[s], appareil[s], trouble[s])
        BY <4>1 DEF IInv, AppareilSuit
      <4>3. QED
        BY <2>4, <3>1, <4>2 DEF AccordDuPas
    <3>3. CASE EntameAppareil(requete[q])
      BY <2>4, <3>1, <3>3 DEF AccordDuPas
    <3>4. QED
      BY <3>2, <3>3
  <2>5. QED
    BY <2>3, <2>4
<1>11. DejaInscrits'
  <2> SUFFICES ASSUME NEW p \in Requetes, requete'[p].geste \notin {"aucun", "souscrire"}
               PROVE  abonnement'[requete'[p].s].status # "ABSENT"
    BY DEF DejaInscrits, Inscrit
  <2>1. requete[p].geste = requete'[p].geste /\ requete[p].s = requete'[p].s
    BY <1>2, <1>3, ReposOK DEF Meme
  <2>2. abonnement[requete[p].s].status # "ABSENT"
    BY <2>1 DEF IInv, DejaInscrits, Inscrit
  <2>3. requete[p].s \in Abonnes
    BY <2>1 DEF IInv, Types, TypesDesRequetes, Forme
  <2>4. QED
    BY <2>1, <2>2, <2>3 DEF AccordDuPas, SurUnSeul
<1>12. QED
  BY <1>5, <1>6, <1>8, <1>9, <1>10, <1>11

\* One gesture takes one step on its subscription.
LEMMA PasIInv ==
  ASSUME IInv, NEW q \in Requetes, NEW s \in Abonnes, s = requete[q].s, Pas(q), SurUnSeul(s),
         TypesDuPartage', travail' = travail, gestes' = gestes,
         DatesDuPas(q, s), PaiementDuPas(q, s), RouteurDuPas(q, s), AccordDuPas(q, s)
  PROVE  IInv'
<1>1. TypesDesRequetes'
  <2>1. \A p \in Requetes : Forme(requete'[p])
    BY MemeOK DEF Pas, IInv, Types, TypesDesRequetes
  <2>2. QED
    BY <2>1 DEF TypesDesRequetes, Pas, Forme
<1>2. TypesDuTravail'
  BY DEF IInv, Types, TypesDuTravail, FormePasse
<1>3. gestes' \in 0..MaxGestes
  BY DEF IInv, Types
<1>4. Bornes'
  BY PasBornes
<1>5. RenouvellementsTenus' /\ PeriodesPayees'
  BY PasPaiements
<1>6. Savoir' /\ JobSait' /\ Croisements' /\ CompteSuit' /\ AppareilSuit' /\ DejaInscrits'
  BY PasAcces
<1>7. QED
  BY <1>1, <1>2, <1>3, <1>4, <1>5, <1>6 DEF IInv, Types

-----------------------------------------------------------------------------
(***************************************************************************)
(* The ways in which a gesture goes on, and what it leaves unchanged.      *)
(***************************************************************************)
LEMMA AllerPas ==
  ASSUME IInv, NEW q \in Requetes, NEW e \in Etapes, Aller(q, e), requete[q].etape # "repos",
         \A r : r.geste = requete[q].geste /\ r.lu = requete[q].lu /\ r.s = requete[q].s
                  /\ r.etape = e => Forme(r),
         e \in Avant => requete[q].etape \in Avant
  PROVE  /\ Pas(q) /\ requete'[q].etape = e
         /\ requete'[q].geste = requete[q].geste /\ requete'[q].s = requete[q].s
         /\ requete'[q].lu = requete[q].lu /\ requete'[q].croise = requete[q].croise
         /\ requete'[q].fin = requete[q].fin /\ requete'[q].du = requete[q].du
<1>1. requete \in [Requetes -> EnTravail]
  BY DEF IInv, Types, TypesDesRequetes
<1>2. requete' = [requete EXCEPT ![q].etape = e]
  BY DEF Aller
<1>3. requete' \in [Requetes -> EnTravail]
  BY <1>1, <1>2 DEF EnTravail
<1>4. /\ requete'[q].etape = e
      /\ requete'[q].geste = requete[q].geste /\ requete'[q].s = requete[q].s
      /\ requete'[q].lu = requete[q].lu /\ requete'[q].croise = requete[q].croise
      /\ requete'[q].fin = requete[q].fin /\ requete'[q].du = requete[q].du
  BY <1>1, <1>2 DEF EnTravail
<1>5. Forme(requete'[q])
  BY <1>4
<1>6. \A p \in Requetes \ {q} : Meme(requete'[p], requete[p])
  BY <1>1, <1>2 DEF Meme
<1>7. QED
  BY <1>3, <1>4, <1>5, <1>6 DEF Pas

LEMMA FinirPas ==
  ASSUME IInv, NEW q \in Requetes, Finir(q) \/ (\E fin : EcrireFin(q, fin))
  PROVE  Pas(q) /\ requete'[q] = Repos
<1>1. requete \in [Requetes -> EnTravail]
  BY DEF IInv, Types, TypesDesRequetes
<1>2. CASE Finir(q)
  <2>1. requete' = [requete EXCEPT ![q] = Repos]
    BY <1>2 DEF Finir
  <2>2. requete' \in [Requetes -> EnTravail] /\ requete'[q] = Repos
    BY <1>1, <2>1, ReposOK
  <2>3. \A p \in Requetes \ {q} : Meme(requete'[p], requete[p])
    BY <1>1, <2>1 DEF Meme
  <2>4. QED
    BY <2>2, <2>3, ReposOK DEF Pas
<1>3. CASE \E fin : EcrireFin(q, fin)
  <2>1. PICK fin : EcrireFin(q, fin)
    BY <1>3
  <2> DEFINE s == requete[q].s
             marque(p) == [requete[p] EXCEPT !.bouge = @ \/ fin # abonnement[s].fin]
  <2>2. requete' = [p \in Requetes |->
           IF p = q THEN Repos ELSE IF requete[p].s = s THEN marque(p) ELSE requete[p]]
    BY <2>1 DEF EcrireFin
  <2>3. ASSUME NEW p \in Requetes
        PROVE  marque(p) \in EnTravail /\ Meme(marque(p), requete[p])
    <3>1. requete[p] \in EnTravail
      BY <1>1
    <3>2. (requete[p].bouge \/ fin # abonnement[s].fin) \in BOOLEAN
      OBVIOUS
    <3>3. marque(p) \in EnTravail
      BY <3>1, <3>2 DEF EnTravail
    <3>4. Meme(marque(p), requete[p])
      BY <3>1 DEF EnTravail, Meme
    <3>5. QED
      BY <3>3, <3>4
  <2> HIDE DEF marque
  <2>4. requete' \in [Requetes -> EnTravail] /\ requete'[q] = Repos
    BY <1>1, <2>2, <2>3, ReposOK
  <2>5. \A p \in Requetes \ {q} : Meme(requete'[p], requete[p])
    BY <2>2, <2>3 DEF Meme
  <2>6. QED
    BY <2>4, <2>5, ReposOK DEF Pas
<1>4. QED
  BY <1>2, <1>3

LEMMA DatesGardees ==
  ASSUME IInv, NEW q \in Requetes, NEW s \in Abonnes, s = requete[q].s,
         abonnement'[s].fin = abonnement[s].fin, compte'[s].fin \in {compte[s].fin, Aucune},
         \/ requete'[q] = Repos
         \/ /\ requete'[q].fin = requete[q].fin
            /\ \/ requete[q].etape \notin {"ouverture", "appareils", "attribution"}
               \/ requete'[q].etape \in {"ouverture", "appareils", "attribution"}
               \/ requete'[q].etape \notin Avant
  PROVE  DatesDuPas(q, s)
<1> DEFINE h == Plafond(Faits)
           m == PlafondApres(q)
<1>1. /\ h \in Nat /\ h >= Periode
      /\ abonnement[s].fin \in Fond..h /\ compte[s].fin \in Aucune..h
      /\ BorneDeRequete(requete[q], h)
  BY FaitsDesDates
<1>2. m = h \/ (m = h + Rachat /\ requete[q].etape \in Avant)
  BY <1>1, Nombres DEF PlafondApres
<1>3. m = h + Rachat
        \/ requete[q].etape \notin {"ouverture", "appareils", "attribution"}
        \/ requete'[q].etape \in Avant
  BY DEF PlafondApres, Avant
<1> HIDE DEF h, m
<1>4. abonnement'[s].fin \in Fond..m /\ compte'[s].fin \in Aucune..m
  BY <1>1, <1>2, Nombres
<1>5. BorneDeRequete(requete'[q], m)
  <2>1. CASE requete'[q] = Repos
    BY <1>1, <1>2, <2>1, ReposOK, Nombres DEF BorneDeRequete
  <2>2. CASE requete'[q] # Repos
    BY <1>1, <1>2, <1>3, <2>2, Nombres DEF BorneDeRequete
  <2>3. QED
    BY <2>1, <2>2
<1>6. QED
  BY <1>4, <1>5 DEF DatesDuPas, m

LEMMA PaiementGarde ==
  ASSUME IInv, NEW q \in Requetes, NEW s \in Abonnes, s = requete[q].s,
         abonnement'[s].fin = abonnement[s].fin, perte'[s] = perte[s], du'[s] = du[s],
         \/ requete'[q] = Repos
         \/ /\ requete'[q].geste = requete[q].geste
            /\ requete'[q].fin = requete[q].fin /\ requete'[q].du = requete[q].du
         \/ requete[q].geste # "renouveler" /\ requete'[q].geste = requete[q].geste
  PROVE  PaiementDuPas(q, s)
<1>1. perte[s] \/ abonnement[s].fin >= du[s]
  BY DEF IInv, PeriodesPayees
<1>2. requete[q].geste = "renouveler" => perte[s] \/ requete[q].fin >= requete[q].du
  BY DEF IInv, RenouvellementsTenus
<1>3. QED
  BY <1>1, <1>2, ReposOK DEF PaiementDuPas

-----------------------------------------------------------------------------
(***************************************************************************)
(* The steps of a gesture.                                                 *)
(***************************************************************************)
LEMMA EntameCouvre ==
  ASSUME IInv, NEW q \in Requetes, EntameAppareil(requete[q])
  PROVE  Entame(q)
<1>1. Forme(requete[q])
  BY DEF IInv, Types, TypesDesRequetes
<1>2. requete[q].etape = "memorisation" => requete[q].geste \in {"contourner", "bloquer"}
  BY <1>1 DEF Forme
<1>3. QED
  BY <1>2 DEF EntameAppareil, EntameCompte, AOuvert, AFerme, Entame, OuvreOuFerme

\* A gesture that ends with nothing written: cut short, it says so.
LEMMA FinirIInv ==
  ASSUME IInv, NEW q \in Requetes, NEW s, s = requete[q].s, Finir(q), ~En(q, "repos"),
         TypesDuPartage', UNCHANGED <<abonnement, routeur, travail, gestes, perte, du>>,
         SurUnSeul(s), trouble[s] \subseteq trouble'[s],
         EntameAppareil(requete[q]) => "coupe" \in trouble'[s]
  PROVE  IInv'
<1>1. s \in Abonnes
  BY FaitsDUnGeste DEF En
<1>2. Pas(q) /\ requete'[q] = Repos
  BY FinirPas
<1>3. DatesDuPas(q, s) /\ PaiementDuPas(q, s)
  BY <1>1, <1>2, DatesGardees, PaiementGarde DEF routeur
<1>4. RouteurDuPas(q, s)
  BY <1>2, ReposOK, SaitRien DEF RouteurDuPas, routeur
<1>5. AccordDuPas(q, s)
  <2>1. EntameCompte(requete[q]) => EntameAppareil(requete[q])
    BY DEF EntameAppareil
  <2>2. AccordCompte(abonnement[s], compte[s], trouble[s])
          => AccordCompte(abonnement'[s], compte'[s], trouble'[s])
    BY DEF AccordCompte, routeur
  <2>3. AccordAppareil(abonnement[s], appareil[s], trouble[s])
          => AccordAppareil(abonnement'[s], appareil'[s], trouble'[s])
    BY DEF AccordAppareil, routeur
  <2>4. EntameAppareil(requete[q]) =>
          /\ AccordCompte(abonnement'[s], compte'[s], trouble'[s])
          /\ AccordAppareil(abonnement'[s], appareil'[s], trouble'[s])
    BY DEF AccordCompte, AccordAppareil, Graves
  <2>5. QED
    BY <2>1, <2>2, <2>3, <2>4 DEF AccordDuPas
<1>6. QED
  BY <1>1, <1>2, <1>3, <1>4, <1>5, PasIInv

LEMMA EchouerIInv ==
  ASSUME IInv, NEW q \in Requetes, Echouer(q)
  PROVE  IInv'
<1> DEFINE s == requete[q].s
<1>1. s \in Abonnes
  BY FaitsDUnGeste DEF Echouer, En
<1>2. TypesDuPartage
  BY DEF IInv, Types
<1>3. trouble' = [trouble EXCEPT ![s] = @ \union (IF Entame(q) THEN {"coupe"} ELSE {})]
  BY DEF Echouer
<1>4. trouble' \in [Abonnes -> SUBSET Motifs]
  BY <1>1, <1>2, <1>3 DEF TypesDuPartage, Motifs
<1>5. pannes' \in 0..MaxPannes
  BY <1>2, Nombres DEF Echouer, Compter, TypesDuPartage
<1>6. TypesDuPartage'
  BY <1>2, <1>4, <1>5 DEF Echouer, TypesDuPartage, routeur
<1>7. SurUnSeul(s) /\ trouble[s] \subseteq trouble'[s]
  BY <1>1, <1>2, <1>3 DEF Echouer, SurUnSeul, routeur, TypesDuPartage
<1>8. EntameAppareil(requete[q]) => "coupe" \in trouble'[s]
  BY <1>1, <1>2, <1>3, EntameCouvre DEF TypesDuPartage
<1>9. QED
  BY <1>6, <1>7, <1>8, FinirIInv DEF Echouer

LEMMA CreerCompteIInv ==
  ASSUME IInv, NEW q \in Requetes, CreerCompte(q)
  PROVE  IInv'
<1> DEFINE s == requete[q].s
           b == requete[q]
<1>1. s \in Abonnes /\ b.geste = "souscrire" /\ b.etape = "compte"
  BY FaitsDUnGeste DEF CreerCompte, En, Forme
<1>2. TypesDuPartage
  BY DEF IInv, Types
<1>3. CASE /\ compte' = [compte EXCEPT ![s] =
                           [existe |-> TRUE, disabled |-> FALSE, fin |-> Aucune]]
           /\ Aller(q, "attribution")
  <2>1. /\ Pas(q) /\ requete'[q].etape = "attribution" /\ requete'[q].geste = "souscrire"
        /\ requete'[q].fin = b.fin /\ requete'[q].du = b.du
    BY <1>1, <1>3, AllerPas DEF Forme, Etapes, Avant
  <2>2. /\ compte' \in [Abonnes -> Comptes] /\ compte'[s].existe
        /\ ~compte'[s].disabled /\ compte'[s].fin = Aucune
        /\ \A t \in Abonnes \ {s} : compte'[t] = compte[t]
    BY <1>1, <1>2, <1>3, Nombres DEF TypesDuPartage, Comptes
  <2>3. TypesDuPartage' /\ SurUnSeul(s)
    BY <1>2, <2>2 DEF CreerCompte, TypesDuPartage, SurUnSeul, temoins
  <2>4. DatesDuPas(q, s) /\ PaiementDuPas(q, s)
    BY <1>1, <2>1, <2>2, DatesGardees, PaiementGarde DEF CreerCompte, temoins
  <2>5. RouteurDuPas(q, s)
    BY <1>1, <2>1, <2>2 DEF RouteurDuPas, OuvreOuFerme, Sait, AFerme, ABloque
  <2>6. AccordDuPas(q, s)
    BY <2>1 DEF AccordDuPas, CreerCompte, EntameAppareil, EntameCompte, AOuvert
  <2>7. QED
    BY <1>1, <2>1, <2>3, <2>4, <2>5, <2>6, PasIInv DEF CreerCompte
<1>4. CASE Finir(q) /\ UNCHANGED compte
  <2>1. TypesDuPartage' /\ SurUnSeul(s)
    BY <1>2, <1>4 DEF CreerCompte, TypesDuPartage, SurUnSeul, temoins
  <2>2. ~EntameAppareil(b)
    BY <1>1 DEF EntameAppareil, EntameCompte, AOuvert, AFerme
  <2>3. QED
    BY <1>1, <1>4, <2>1, <2>2, FinirIInv DEF CreerCompte, En, routeur, temoins
<1>5. QED
  BY <1>3, <1>4 DEF CreerCompte

LEMMA AttribuerIInv ==
  ASSUME IInv, NEW q \in Requetes, Attribuer(q)
  PROVE  IInv'
<1> DEFINE s == requete[q].s
           b == requete[q]
           h == Plafond(Faits)
<1>1. /\ s \in Abonnes /\ b.etape = "attribution" /\ b.geste \in {"souscrire", "renouveler"}
      /\ b \in EnTravail /\ Sait(b, compte[s], appareil[s])
      /\ b.geste = "renouveler" => perte[s] \/ b.fin >= b.du
      /\ perte[s] \/ abonnement[s].fin >= du[s]
  BY FaitsDUnGeste DEF Attribuer, En, Forme
<1>2. TypesDuPartage /\ requete \in [Requetes -> EnTravail]
  BY DEF IInv, Types, TypesDesRequetes
<1>3. PICK e \in FinsRendues(s) :
        /\ compte' = [compte EXCEPT ![s].fin = PlusTard(@, e)]
        /\ requete' = [requete EXCEPT ![q].fin = Retenue(b, e),
             ![q].etape = IF b.geste = "souscrire" THEN "creation" ELSE "renouvellement"]
  BY DEF Attribuer
<1>4. /\ h \in Nat /\ h >= Periode /\ compte[s].fin \in Aucune..h
      /\ abonnement[s].fin \in Fond..h /\ b.fin \in Fond..(h + Rachat)
  BY <1>1, FaitsDesDates DEF BorneDeRequete
<1> HIDE DEF h
<1>5. e \in Aucune..(h + Rachat) /\ (e # Aucune => e >= Fond)
  BY <1>3, <1>4, LesFinsRendues
<1>6. PlusTard(compte[s].fin, e) \in Aucune..(h + Rachat)
  BY <1>4, <1>5, Nombres DEF PlusTard
<1>7. /\ Retenue(b, e) \in Fond..(h + Rachat)
      /\ b.geste = "renouveler" => Retenue(b, e) >= b.fin
  BY <1>4, <1>5, Nombres DEF Retenue
<1>8. /\ compte' \in [Abonnes -> Comptes] /\ compte'[s].existe = compte[s].existe
      /\ compte'[s].disabled = compte[s].disabled
      /\ compte'[s].fin = PlusTard(compte[s].fin, e)
      /\ \A t \in Abonnes \ {s} : compte'[t] = compte[t]
  <2>1. PlusTard(compte[s].fin, e) \in Int
    BY <1>4, <1>6, Nombres
  <2>2. QED
    BY <1>1, <1>2, <1>3, <2>1 DEF TypesDuPartage, Comptes
<1>9. /\ requete'[q].fin = Retenue(b, e) /\ requete'[q].geste = b.geste
      /\ requete'[q].etape = (IF b.geste = "souscrire" THEN "creation" ELSE "renouvellement")
      /\ requete'[q].s = s /\ requete'[q].lu = b.lu /\ requete'[q].croise = b.croise
      /\ requete'[q].du = b.du
      /\ \A p \in Requetes \ {q} : requete'[p] = requete[p]
  BY <1>2, <1>3 DEF EnTravail
<1>10. requete' \in [Requetes -> EnTravail]
  <2>1. Retenue(b, e) \in Int
    BY <1>4, <1>7, Nombres
  <2>2. (IF b.geste = "souscrire" THEN "creation" ELSE "renouvellement") \in Etapes
    BY DEF Etapes
  <2>3. QED
    BY <1>2, <1>3, <2>1, <2>2 DEF EnTravail
<1>11. Pas(q)
  BY <1>1, <1>9, <1>10 DEF Pas, Meme, Forme, Avant
<1>12. TypesDuPartage' /\ SurUnSeul(s)
  BY <1>2, <1>8 DEF Attribuer, TypesDuPartage, SurUnSeul, temoins
<1>13. DatesDuPas(q, s)
  <2>1. PlafondApres(q) = h + Rachat
    BY <1>1, <1>9 DEF PlafondApres, Avant, h
  <2>2. abonnement'[s].fin \in Fond..(h + Rachat) /\ compte'[s].fin \in Aucune..(h + Rachat)
    BY <1>4, <1>6, <1>8, Nombres DEF Attribuer
  <2>3. BorneDeRequete(requete'[q], h + Rachat)
    BY <1>4, <1>7, <1>9, Nombres DEF BorneDeRequete
  <2>4. QED
    BY <2>1, <2>2, <2>3 DEF DatesDuPas
<1>14. PaiementDuPas(q, s)
  <2>1. b.geste = "renouveler" => perte[s] \/ Retenue(b, e) >= b.du
    BY <1>1, <1>4, <1>7, Nombres DEF EnTravail
  <2>2. QED
    BY <1>1, <1>9, <2>1 DEF PaiementDuPas, Attribuer, temoins
<1>15. AOuvert(requete'[q]) <=> AOuvert(b)
  BY <1>1, <1>9 DEF AOuvert
<1>16. RouteurDuPas(q, s)
  BY <1>1, <1>8, <1>9, <1>15 DEF RouteurDuPas, Attribuer, Sait, AFerme, ABloque
<1>17. AccordDuPas(q, s)
  <2>1. AccordCompte(abonnement[s], compte[s], trouble[s])
          => AccordCompte(abonnement'[s], compte'[s], trouble'[s])
    BY <1>8 DEF AccordCompte, Attribuer, temoins
  <2>2. EntameCompte(requete'[q]) <=> EntameCompte(b)
    BY <1>1, <1>9, <1>15 DEF EntameCompte, AFerme
  <2>3. EntameAppareil(requete'[q]) <=> EntameAppareil(b)
    BY <1>1, <1>9, <2>2 DEF EntameAppareil
  <2>4. QED
    BY <2>1, <2>2, <2>3 DEF AccordDuPas, Attribuer, temoins
<1>18. QED
  BY <1>1, <1>11, <1>12, <1>13, <1>14, <1>16, <1>17, PasIInv DEF Attribuer

LEMMA CreerIInv ==
  ASSUME IInv, NEW q \in Requetes, Creer(q)
  PROVE  IInv'
<1> DEFINE s == requete[q].s
           b == requete[q]
           h == Plafond(Faits)
           fin == IF b.fin = Fond THEN Periode ELSE b.fin
<1>1. /\ s \in Abonnes /\ b.etape = "creation" /\ b.geste = "souscrire" /\ b \in EnTravail
      /\ Sait(b, compte[s], appareil[s])
  BY FaitsDUnGeste DEF Creer, En, Forme
<1>2. TypesDuPartage
  BY DEF IInv, Types
<1>3. Pas(q) /\ requete'[q] = Repos
  BY FinirPas DEF Creer
<1>4. /\ h \in Nat /\ h >= Periode /\ compte[s].fin \in Aucune..h
      /\ abonnement[s].fin \in Fond..h /\ b.fin \in Fond..h
  BY <1>1, FaitsDesDates, Nombres DEF BorneDeRequete
<1>5. PlafondApres(q) = h
  BY <1>1 DEF PlafondApres, Avant
<1> HIDE DEF h
<1>6. fin \in Fond..h
  BY <1>4, Nombres
<1> HIDE DEF fin
<1>7. Bilan(b.croise, {}) = IF b.croise THEN {"croise"} ELSE {}
  BY DEF Bilan
<1>8. CASE Inscrit(s)
  <2>1. trouble' = [trouble EXCEPT ![s] = @ \union {"croise"}] /\ UNCHANGED <<abonnement, du>>
    BY <1>8 DEF Creer
  <2>2. /\ trouble' \in [Abonnes -> SUBSET Motifs] /\ "croise" \in trouble'[s]
        /\ \A t \in Abonnes \ {s} : trouble'[t] = trouble[t]
    BY <1>1, <1>2, <2>1 DEF TypesDuPartage, Motifs
  <2>3. TypesDuPartage' /\ SurUnSeul(s)
    BY <1>2, <2>1, <2>2 DEF Creer, TypesDuPartage, SurUnSeul, routeur
  <2>4. DatesDuPas(q, s) /\ PaiementDuPas(q, s)
    BY <1>1, <1>3, <2>1, DatesGardees, PaiementGarde DEF Creer, routeur
  <2>5. RouteurDuPas(q, s)
    BY <1>3, ReposOK, SaitRien DEF RouteurDuPas, Creer, routeur
  <2>6. AccordDuPas(q, s)
    BY <2>1, <2>2 DEF AccordDuPas, AccordCompte, AccordAppareil, Graves
  <2>7. QED
    BY <1>1, <1>3, <2>3, <2>4, <2>5, <2>6, PasIInv DEF Creer
<1>9. CASE ~Inscrit(s)
  <2>1. /\ trouble' = [trouble EXCEPT ![s] = Bilan(b.croise, {})]
        /\ abonnement' = [abonnement EXCEPT ![s] = [status |-> "ACTIVE", fin |-> fin]]
        /\ du' = [du EXCEPT ![s] = fin]
    BY <1>9 DEF Creer, fin
  <2>2. fin \in Int
    BY <1>6, <1>4, Nombres
  <2>3. /\ trouble' \in [Abonnes -> SUBSET Motifs]
        /\ trouble'[s] = IF b.croise THEN {"croise"} ELSE {}
        /\ \A t \in Abonnes \ {s} : trouble'[t] = trouble[t]
    BY <1>1, <1>2, <1>7, <2>1 DEF TypesDuPartage, Motifs
  <2>4. /\ abonnement' \in [Abonnes -> Lignes] /\ abonnement'[s].fin = fin
        /\ abonnement'[s].status = "ACTIVE"
        /\ \A t \in Abonnes \ {s} : abonnement'[t] = abonnement[t]
    BY <1>1, <1>2, <2>1, <2>2 DEF TypesDuPartage, Lignes, Statuts
  <2>5. /\ du' \in [Abonnes -> Int] /\ du'[s] = fin
        /\ \A t \in Abonnes \ {s} : du'[t] = du[t]
    BY <1>1, <1>2, <2>1, <2>2 DEF TypesDuPartage
  <2>6. TypesDuPartage' /\ SurUnSeul(s)
    BY <1>2, <2>3, <2>4, <2>5 DEF Creer, TypesDuPartage, SurUnSeul, routeur
  <2>7. DatesDuPas(q, s)
    BY <1>3, <1>4, <1>5, <1>6, <2>4, ReposOK, Nombres
       DEF DatesDuPas, BorneDeRequete, Creer, routeur
  <2>8. PaiementDuPas(q, s)
    BY <1>3, <2>2, <2>4, <2>5, ReposOK DEF PaiementDuPas, Creer
  <2>9. RouteurDuPas(q, s)
    BY <1>3, ReposOK, SaitRien DEF RouteurDuPas, Creer, routeur
  <2>10. AccordDuPas(q, s)
    <3>1. AccordCompte(abonnement'[s], compte'[s], trouble'[s])
      <4>1. CASE b.croise
        BY <2>3, <4>1 DEF AccordCompte, Graves
      <4>2. CASE ~b.croise
        <5>1. ~compte[s].existe \/ ~compte[s].disabled
          BY <1>1, <4>2 DEF Sait, AOuvert
        <5>2. QED
          BY <2>4, <5>1 DEF AccordCompte, Creer, routeur
      <4>3. QED
        BY <4>1, <4>2
    <3>2. QED
      BY <2>4, <3>1 DEF AccordDuPas, AccordAppareil
  <2>11. QED
    BY <1>1, <1>3, <2>6, <2>7, <2>8, <2>9, <2>10, PasIInv DEF Creer
<1>10. QED
  BY <1>8, <1>9

LEMMA CalculerIInv ==
  ASSUME IInv, NEW q \in Requetes, Calculer(q)
  PROVE  IInv'
<1> DEFINE s == requete[q].s
           b == requete[q]
           h == Plafond(Faits)
           fin == Prolongee(b.fin)
           paye == PlusTard(b.du, 0) + Periode
           suite == IF b.lu = "SUSPENDED" THEN "ouverture" ELSE "attribution"
<1>1. /\ s \in Abonnes /\ b.etape = "lu" /\ b.geste = "renouveler" /\ b \in EnTravail
      /\ perte[s] \/ b.fin >= b.du
      /\ perte[s] \/ abonnement[s].fin >= du[s]
  BY FaitsDUnGeste DEF Calculer, En, Forme
<1>2. TypesDuPartage /\ requete \in [Requetes -> EnTravail]
  BY DEF IInv, Types, TypesDesRequetes
<1>3. /\ h \in Nat /\ h >= Periode /\ compte[s].fin \in Aucune..h
      /\ abonnement[s].fin \in Fond..h /\ b.fin \in Fond..h
  BY <1>1, FaitsDesDates, Nombres DEF BorneDeRequete
<1>4. requete' = [requete EXCEPT ![q].fin = fin, ![q].du = paye, ![q].etape = suite]
  BY DEF Calculer
<1> HIDE DEF h
<1>5. /\ fin \in Fond..(h + Rachat) /\ fin \in Int /\ paye \in Int
      /\ b.fin >= b.du => fin >= paye
  BY <1>1, <1>3, Nombres DEF Prolongee, PlusTard, EnTravail
<1>6. suite \in Etapes
  BY DEF Etapes
<1>7. /\ suite \in {"ouverture", "attribution"}
      /\ suite = "ouverture" <=> b.lu = "SUSPENDED"
  OBVIOUS
<1> HIDE DEF fin, paye, suite
<1>8. /\ requete' \in [Requetes -> EnTravail]
      /\ requete'[q].fin = fin /\ requete'[q].du = paye /\ requete'[q].etape = suite
      /\ requete'[q].geste = b.geste /\ requete'[q].s = s /\ requete'[q].lu = b.lu
      /\ requete'[q].croise = b.croise
      /\ \A p \in Requetes \ {q} : requete'[p] = requete[p]
  BY <1>2, <1>4, <1>5, <1>6 DEF EnTravail
<1>9. Pas(q)
  BY <1>1, <1>7, <1>8 DEF Pas, Meme, Forme, Avant
<1>10. TypesDuPartage' /\ SurUnSeul(s)
  BY <1>2 DEF Calculer, TypesDuPartage, SurUnSeul, routeur, temoins
<1>11. DatesDuPas(q, s)
  <2>1. PlafondApres(q) = h
    BY <1>1, <1>7, <1>8 DEF PlafondApres, Avant, h
  <2>2. BorneDeRequete(requete'[q], h)
    BY <1>5, <1>7, <1>8 DEF BorneDeRequete
  <2>3. QED
    BY <1>3, <2>1, <2>2 DEF DatesDuPas, Calculer, routeur
<1>12. PaiementDuPas(q, s)
  BY <1>1, <1>5, <1>8 DEF PaiementDuPas, Calculer, temoins
<1>13. RouteurDuPas(q, s)
  BY <1>1, <1>7, <1>8 DEF RouteurDuPas, Calculer, routeur, Sait, AOuvert, AFerme, ABloque
<1>14. AccordDuPas(q, s)
  BY <1>1 DEF AccordDuPas, Calculer, routeur, temoins, EntameAppareil, EntameCompte, AOuvert,
              AFerme
<1>15. QED
  BY <1>1, <1>9, <1>10, <1>11, <1>12, <1>13, <1>14, PasIInv DEF Calculer

LEMMA OuvrirIInv ==
  ASSUME IInv, NEW q \in Requetes, Ouvrir(q)
  PROVE  IInv'
<1> DEFINE s == requete[q].s
           b == requete[q]
<1>1. /\ s \in Abonnes /\ b.etape = "ouverture"
      /\ b.geste = "reprendre" \/ (b.geste = "renouveler" /\ b.lu = "SUSPENDED")
  BY FaitsDUnGeste DEF Ouvrir, En, Forme
<1>2. TypesDuPartage
  BY DEF IInv, Types
<1>3. /\ Pas(q) /\ requete'[q].etape = "appareils" /\ requete'[q].geste = b.geste
      /\ requete'[q].fin = b.fin /\ requete'[q].du = b.du /\ requete'[q].lu = b.lu
  BY <1>1, AllerPas DEF Ouvrir, Forme, Etapes, Avant
<1>4. compte' = [compte EXCEPT ![s].disabled = @ /\ ~compte[s].existe]
  BY DEF Ouvrir
<1>5. /\ compte' \in [Abonnes -> Comptes] /\ compte'[s].existe = compte[s].existe
      /\ ~compte'[s].existe \/ ~compte'[s].disabled
      /\ compte'[s].fin = compte[s].fin
      /\ \A t \in Abonnes \ {s} : compte'[t] = compte[t]
  BY <1>1, <1>2, <1>4 DEF TypesDuPartage, Comptes
<1>6. TypesDuPartage' /\ SurUnSeul(s)
  BY <1>2, <1>5 DEF Ouvrir, TypesDuPartage, SurUnSeul, temoins
<1>7. DatesDuPas(q, s) /\ PaiementDuPas(q, s)
  BY <1>1, <1>3, <1>5, DatesGardees, PaiementGarde DEF Ouvrir, temoins
<1>8. RouteurDuPas(q, s)
  BY <1>1, <1>3, <1>5 DEF RouteurDuPas, OuvreOuFerme, Sait, AFerme, ABloque
<1>9. AccordDuPas(q, s)
  BY <1>1, <1>3 DEF AccordDuPas, Ouvrir, EntameAppareil, EntameCompte, AOuvert
<1>10. QED
  BY <1>1, <1>3, <1>6, <1>7, <1>8, <1>9, PasIInv DEF Ouvrir

LEMMA FermerIInv ==
  ASSUME IInv, NEW q \in Requetes, Fermer(q)
  PROVE  IInv'
<1> DEFINE s == requete[q].s
           b == requete[q]
           suite == IF compte[s].existe THEN "coupure" ELSE "appareils"
<1>1. s \in Abonnes /\ b.etape = "fermeture" /\ b.geste = "suspendre"
  BY FaitsDUnGeste DEF Fermer, En, Forme
<1>2. TypesDuPartage
  BY DEF IInv, Types
<1>3. Aller(q, suite) /\ suite \in {"coupure", "appareils"}
  BY DEF Fermer
<1> HIDE DEF suite
<1>4. /\ Pas(q) /\ requete'[q].etape \in {"coupure", "appareils"} /\ requete'[q].geste = b.geste
      /\ requete'[q].fin = b.fin /\ requete'[q].du = b.du
  BY <1>1, <1>3, AllerPas DEF Forme, Etapes, Avant
<1>5. compte' = [compte EXCEPT ![s].disabled = @ \/ compte[s].existe]
  BY DEF Fermer
<1>6. /\ compte' \in [Abonnes -> Comptes] /\ compte'[s].existe = compte[s].existe
      /\ ~compte'[s].existe \/ compte'[s].disabled
      /\ compte'[s].fin = compte[s].fin
      /\ \A t \in Abonnes \ {s} : compte'[t] = compte[t]
  BY <1>1, <1>2, <1>5 DEF TypesDuPartage, Comptes
<1>7. TypesDuPartage' /\ SurUnSeul(s)
  BY <1>2, <1>6 DEF Fermer, TypesDuPartage, SurUnSeul, temoins
<1>8. DatesDuPas(q, s) /\ PaiementDuPas(q, s)
  BY <1>1, <1>4, <1>6, DatesGardees, PaiementGarde DEF Fermer, temoins
<1>9. RouteurDuPas(q, s)
  BY <1>1, <1>4, <1>6 DEF RouteurDuPas, OuvreOuFerme, Sait, AOuvert, ABloque
<1>10. AccordDuPas(q, s)
  BY <1>1, <1>4 DEF AccordDuPas, Fermer, EntameAppareil, EntameCompte, AFerme
<1>11. QED
  BY <1>1, <1>4, <1>7, <1>8, <1>9, <1>10, PasIInv DEF Fermer

\* The steps that touch neither the router nor the row.
LEMMA CouperIInv ==
  ASSUME IInv, NEW q \in Requetes, Couper(q)
  PROVE  IInv'
<1> DEFINE s == requete[q].s
           b == requete[q]
<1>1. /\ s \in Abonnes /\ b.etape = "coupure" /\ b.geste = "suspendre"
      /\ Sait(b, compte[s], appareil[s])
  BY FaitsDUnGeste DEF Couper, En, Forme
<1>2. /\ Pas(q) /\ requete'[q].etape = "appareils" /\ requete'[q].geste = b.geste
      /\ requete'[q].fin = b.fin /\ requete'[q].du = b.du /\ requete'[q].croise = b.croise
  BY <1>1, AllerPas DEF Couper, Forme, Etapes, Avant
<1>3. TypesDuPartage' /\ SurUnSeul(s)
  BY DEF IInv, Types, Couper, TypesDuPartage, SurUnSeul, routeur, temoins
<1>4. DatesDuPas(q, s) /\ PaiementDuPas(q, s)
  BY <1>1, <1>2, DatesGardees, PaiementGarde DEF Couper, routeur, temoins
<1>5. RouteurDuPas(q, s)
  BY <1>1, <1>2 DEF RouteurDuPas, OuvreOuFerme, Sait, AOuvert, AFerme, ABloque, Couper, routeur
<1>6. AccordDuPas(q, s)
  BY <1>1, <1>2 DEF AccordDuPas, Couper, EntameAppareil, EntameCompte, AFerme
<1>7. QED
  BY <1>1, <1>2, <1>3, <1>4, <1>5, <1>6, PasIInv DEF Couper

LEMMA AttributionEchoueeIInv ==
  ASSUME IInv, NEW q \in Requetes, AttributionEchouee(q)
  PROVE  IInv'
<1> DEFINE s == requete[q].s
           b == requete[q]
<1>1. /\ s \in Abonnes /\ b.etape = "attribution" /\ b.geste = "renouveler"
      /\ Sait(b, compte[s], appareil[s])
  BY FaitsDUnGeste DEF AttributionEchouee, En, Forme
<1>2. /\ Pas(q) /\ requete'[q].etape = "renouvellement" /\ requete'[q].geste = b.geste
      /\ requete'[q].fin = b.fin /\ requete'[q].du = b.du /\ requete'[q].croise = b.croise
      /\ requete'[q].lu = b.lu
  BY <1>1, AllerPas DEF AttributionEchouee, Forme, Etapes, Avant
<1>3. pannes' \in 0..MaxPannes
  BY Nombres DEF IInv, Types, TypesDuPartage, AttributionEchouee, Compter
<1>4. /\ compte \in [Abonnes -> Comptes] /\ Plafond(Faits) \in Nat
      /\ compte[s].fin \in Aucune..Plafond(Faits) /\ abonnement[s].fin \in Fond..Plafond(Faits)
      /\ BorneDeRequete(b, Plafond(Faits))
  BY <1>1, FaitsDesDates DEF IInv, Types, TypesDuPartage
\* The assignment may have been made: only the end of the account has moved.
<1>5. /\ compte' \in [Abonnes -> Comptes] /\ compte'[s].existe = compte[s].existe
      /\ compte'[s].disabled = compte[s].disabled
      /\ compte'[s].fin \in Aucune..(Plafond(Faits) + Rachat)
      /\ \A t \in Abonnes \ {s} : compte'[t] = compte[t]
  <2>1. CASE UNCHANGED compte
    BY <1>4, <2>1, Nombres
  <2>2. CASE \E e \in FinsRendues(s) : compte' = [compte EXCEPT ![s].fin = PlusTard(@, e)]
    <3>1. PICK e \in FinsRendues(s) : compte' = [compte EXCEPT ![s].fin = PlusTard(@, e)]
      BY <2>2
    <3>2. e \in Aucune..(Plafond(Faits) + Rachat)
      BY <1>4, LesFinsRendues
    <3>3. PlusTard(compte[s].fin, e) \in Aucune..(Plafond(Faits) + Rachat)
      BY <1>4, <3>2, Nombres DEF PlusTard
    <3>4. PlusTard(compte[s].fin, e) \in Int
      BY <3>3, Nombres
    <3>5. QED
      BY <1>1, <1>4, <3>1, <3>3, <3>4 DEF Comptes
  <2>3. QED
    BY <2>1, <2>2 DEF AttributionEchouee
<1>6. TypesDuPartage' /\ SurUnSeul(s)
  BY <1>3, <1>5 DEF IInv, Types, AttributionEchouee, TypesDuPartage, SurUnSeul, temoins
<1>7. DatesDuPas(q, s) /\ PaiementDuPas(q, s)
  <2>1. PlafondApres(q) = Plafond(Faits) + Rachat
    BY <1>1, <1>2 DEF PlafondApres, Avant
  <2>2. BorneDeRequete(requete'[q], Plafond(Faits) + Rachat)
    BY <1>2, <1>4, Nombres DEF BorneDeRequete
  <2>3. abonnement'[s].fin \in Fond..(Plafond(Faits) + Rachat)
    BY <1>4, Nombres DEF AttributionEchouee
  <2>4. PaiementDuPas(q, s)
    BY <1>1, <1>2, PaiementGarde DEF AttributionEchouee, temoins
  <2>5. QED
    BY <1>5, <2>1, <2>2, <2>3, <2>4 DEF DatesDuPas
<1>8. AOuvert(requete'[q]) <=> AOuvert(b)
  BY <1>1, <1>2 DEF AOuvert
<1>9. RouteurDuPas(q, s)
  BY <1>1, <1>2, <1>5, <1>8 DEF RouteurDuPas, Sait, AFerme, ABloque, AttributionEchouee
<1>10. AccordDuPas(q, s)
  <2>1. EntameCompte(requete'[q]) <=> EntameCompte(b)
    BY <1>1, <1>2, <1>8 DEF EntameCompte, AFerme
  <2>2. EntameAppareil(requete'[q]) <=> EntameAppareil(b)
    BY <1>1, <1>2, <2>1 DEF EntameAppareil
  <2>3. AccordCompte(abonnement[s], compte[s], trouble[s])
          => AccordCompte(abonnement'[s], compte'[s], trouble'[s])
    BY <1>5 DEF AccordCompte, AttributionEchouee, temoins
  <2>4. QED
    BY <2>1, <2>2, <2>3 DEF AccordDuPas, AttributionEchouee, temoins
<1>11. QED
  BY <1>1, <1>2, <1>6, <1>7, <1>9, <1>10, PasIInv DEF AttributionEchouee

LEMMA PousserAppareilsIInv ==
  ASSUME IInv, NEW q \in Requetes, PousserAppareils(q)
  PROVE  IInv'
<1> DEFINE s == requete[q].s
           b == requete[q]
           suite == CASE b.geste = "suspendre" -> "suspension"
                      [] b.geste = "reprendre" -> "reprise"
                      [] OTHER -> "attribution"
           type == IF ~BasculerAppareil(q, s) THEN appareil[s].type
                   ELSE IF b.geste = "suspendre" THEN "blocked" ELSE "bypassed"
<1>1. /\ s \in Abonnes /\ b.etape = "appareils" /\ Sait(b, compte[s], appareil[s])
      /\ \/ b.geste \in {"suspendre", "reprendre"}
         \/ b.geste = "renouveler" /\ b.lu = "SUSPENDED"
  BY FaitsDUnGeste DEF PousserAppareils, En, Forme
<1>2. TypesDuPartage
  BY DEF IInv, Types
<1>3. /\ Aller(q, suite)
      /\ appareil' = [appareil EXCEPT ![s].type =
           IF ~BasculerAppareil(q, s) THEN @
           ELSE IF b.geste = "suspendre" THEN "blocked" ELSE "bypassed"]
  BY DEF PousserAppareils
<1>4. /\ b.geste = "suspendre" => suite = "suspension"
      /\ b.geste = "reprendre" => suite = "reprise"
      /\ b.geste = "renouveler" => suite = "attribution"
  OBVIOUS
<1> HIDE DEF suite
<1>5. /\ Pas(q) /\ requete'[q].etape = suite /\ requete'[q].geste = b.geste
      /\ requete'[q].fin = b.fin /\ requete'[q].du = b.du /\ requete'[q].lu = b.lu
      /\ requete'[q].croise = b.croise
  <2>1. suite \in Etapes
    BY <1>1, <1>4 DEF Etapes
  <2>2. \A r : r.geste = b.geste /\ r.lu = b.lu /\ r.s = b.s /\ r.etape = suite => Forme(r)
    BY <1>1, <1>4 DEF Forme
  <2>3. suite \in Avant => b.etape \in Avant
    BY <1>1 DEF Avant
  <2>4. QED
    BY <1>1, <1>3, <2>1, <2>2, <2>3, AllerPas
<1>6. /\ appareil' \in [Abonnes -> Appareils] /\ appareil'[s].suivi = appareil[s].suivi
      /\ b.geste = "suspendre" /\ appareil[s].suivi => appareil'[s].type = "blocked"
      /\ \A t \in Abonnes \ {s} : appareil'[t] = appareil[t]
  <2>1. appareil[s] \in Appareils
    BY <1>1, <1>2 DEF TypesDuPartage
  <2>2. type \in {"aucun", "bypassed", "blocked"}
    BY <2>1 DEF Appareils
  <2>3. appareil' = [appareil EXCEPT ![s].type = type]
    BY <1>3
  <2>4. b.geste = "suspendre" /\ appareil[s].suivi => type = "blocked"
    BY DEF BasculerAppareil
  <2> HIDE DEF type
  <2>5. QED
    BY <1>1, <1>2, <2>2, <2>3, <2>4 DEF TypesDuPartage, Appareils
<1>7. TypesDuPartage' /\ SurUnSeul(s)
  BY <1>2, <1>6 DEF PousserAppareils, TypesDuPartage, SurUnSeul, temoins
<1>8. DatesDuPas(q, s) /\ PaiementDuPas(q, s)
  BY <1>1, <1>4, <1>5, DatesGardees, PaiementGarde DEF PousserAppareils, temoins, Avant
<1>9. /\ AOuvert(requete'[q]) => AOuvert(b)
      /\ AFerme(requete'[q]) => AFerme(b) /\ b.geste = "suspendre"
      /\ ~ABloque(requete'[q])
      /\ AOuvert(requete'[q]) \/ AFerme(requete'[q])
      /\ OuvreOuFerme(b)
  BY <1>1, <1>4, <1>5 DEF AOuvert, AFerme, ABloque, OuvreOuFerme
<1>10. RouteurDuPas(q, s)
  <2>1. Sait(requete'[q], compte'[s], appareil'[s])
    BY <1>1, <1>5, <1>6, <1>9 DEF Sait, PousserAppareils
  <2>2. QED
    BY <1>9, <2>1 DEF RouteurDuPas
<1>11. AccordDuPas(q, s)
  BY <1>9 DEF AccordDuPas, PousserAppareils, EntameAppareil, EntameCompte
<1>12. QED
  BY <1>1, <1>5, <1>7, <1>8, <1>10, <1>11, PasIInv DEF PousserAppareils

LEMMA EcrireRenouvellementIInv ==
  ASSUME IInv, NEW q \in Requetes, EcrireRenouvellement(q)
  PROVE  IInv'
<1> DEFINE s == requete[q].s
           b == requete[q]
           h == Plafond(Faits)
           motifs == IF b.lu = "SUSPENDED" THEN Bilan(b.croise, {})
                     ELSE IF b.croise \/ abonnement[s].status = "SUSPENDED"
                          THEN trouble[s] \union {"croise"} ELSE trouble[s]
<1>1. /\ s \in Abonnes /\ b.etape = "renouvellement" /\ b.geste = "renouveler"
      /\ b \in EnTravail /\ Sait(b, compte[s], appareil[s])
      /\ abonnement[s].status # "ABSENT"
      /\ perte[s] \/ b.fin >= b.du
  BY FaitsDUnGeste DEF EcrireRenouvellement, En, Forme
<1>2. TypesDuPartage
  BY DEF IInv, Types
<1>3. /\ abonnement' = [abonnement EXCEPT ![s] = [status |-> "ACTIVE", fin |-> b.fin]]
      /\ perte' = [perte EXCEPT ![s] = @ \/ b.bouge]
      /\ du' = [du EXCEPT ![s] = b.du]
      /\ trouble' = [trouble EXCEPT ![s] = motifs]
  BY DEF EcrireRenouvellement
<1>4. Pas(q) /\ requete'[q] = Repos
  BY FinirPas DEF EcrireRenouvellement
<1>5. /\ h \in Nat /\ h >= Periode /\ compte[s].fin \in Aucune..h /\ b.fin \in Fond..h
  BY <1>1, FaitsDesDates, Nombres DEF BorneDeRequete
<1>6. PlafondApres(q) = h
  BY <1>1 DEF PlafondApres, Avant
<1> HIDE DEF h
<1>7. motifs \in SUBSET Motifs
  BY <1>1, <1>2 DEF TypesDuPartage, Motifs, Bilan
<1>8. CASE /\ trouble'[s] = motifs /\ trouble' \in [Abonnes -> SUBSET Motifs]
           /\ \A t \in Abonnes \ {s} : trouble'[t] = trouble[t]
  <2>1. /\ abonnement' \in [Abonnes -> Lignes] /\ abonnement'[s].fin = b.fin
        /\ abonnement'[s].status = "ACTIVE"
        /\ \A t \in Abonnes \ {s} : abonnement'[t] = abonnement[t]
    BY <1>1, <1>2, <1>3 DEF TypesDuPartage, Lignes, Statuts, EnTravail
  <2>2. /\ perte' \in [Abonnes -> BOOLEAN]
        /\ perte[s] => perte'[s]
        /\ \A t \in Abonnes \ {s} : perte'[t] = perte[t]
    BY <1>1, <1>2, <1>3 DEF TypesDuPartage
  <2>3. /\ du' \in [Abonnes -> Int] /\ du'[s] = b.du
        /\ \A t \in Abonnes \ {s} : du'[t] = du[t]
    BY <1>1, <1>2, <1>3 DEF TypesDuPartage, EnTravail
  <2>4. TypesDuPartage' /\ SurUnSeul(s)
    BY <1>2, <1>8, <2>1, <2>2, <2>3 DEF EcrireRenouvellement, TypesDuPartage, SurUnSeul, routeur
  <2>5. DatesDuPas(q, s)
    BY <1>4, <1>5, <1>6, <2>1, ReposOK, Nombres
       DEF DatesDuPas, BorneDeRequete, EcrireRenouvellement, routeur
  <2>6. PaiementDuPas(q, s)
    <3>1. perte'[s] \/ b.fin >= b.du
      BY <1>1, <2>2
    <3>2. perte'[s] \/ abonnement'[s].fin >= du'[s]
      BY <2>1, <2>3, <3>1
    <3>3. requete'[q].geste # "renouveler"
      BY <1>4, ReposOK
    <3>4. QED
      BY <2>2, <3>2, <3>3 DEF PaiementDuPas
  <2>7. RouteurDuPas(q, s)
    BY <1>4, ReposOK, SaitRien DEF RouteurDuPas, EcrireRenouvellement, routeur
  <2>8. AccordDuPas(q, s)
    <3>1. CASE b.lu = "SUSPENDED"
      <4>1. trouble'[s] = IF b.croise THEN {"croise"} ELSE {}
        BY <1>8, <3>1 DEF Bilan
      <4>2. ~b.croise => ~compte[s].existe \/ ~compte[s].disabled
        BY <1>1, <3>1 DEF Sait, AOuvert
      <4>3. AccordCompte(abonnement'[s], compte'[s], trouble'[s])
        BY <2>1, <4>1, <4>2 DEF AccordCompte, Graves, EcrireRenouvellement, routeur
      <4>4. QED
        BY <2>1, <4>3 DEF AccordDuPas, AccordAppareil
    <3>2. CASE b.lu # "SUSPENDED"
      <4>1. ~EntameCompte(b)
        BY <1>1, <3>2 DEF EntameCompte, AOuvert, AFerme
      <4>2. CASE b.croise \/ abonnement[s].status = "SUSPENDED"
        <5>1. "croise" \in trouble'[s]
          BY <1>8, <3>2, <4>2
        <5>2. AccordCompte(abonnement'[s], compte'[s], trouble'[s])
          BY <5>1 DEF AccordCompte, Graves
        <5>3. QED
          BY <2>1, <5>2 DEF AccordDuPas, AccordAppareil
      <4>3. CASE ~(b.croise \/ abonnement[s].status = "SUSPENDED")
        <5>1. trouble'[s] = trouble[s]
          BY <1>8, <3>2, <4>3
        <5>2. AccordCompte(abonnement[s], compte[s], trouble[s])
                => AccordCompte(abonnement'[s], compte'[s], trouble'[s])
          BY <1>1, <2>1, <4>3, <5>1 DEF AccordCompte, EcrireRenouvellement, routeur
        <5>3. QED
          BY <2>1, <4>1, <5>2 DEF AccordDuPas, AccordAppareil
      <4>4. QED
        BY <4>2, <4>3
    <3>3. QED
      BY <3>1, <3>2
  <2>9. QED
    BY <1>1, <1>4, <2>4, <2>5, <2>6, <2>7, <2>8, PasIInv DEF EcrireRenouvellement
<1>9. /\ trouble'[s] = motifs /\ trouble' \in [Abonnes -> SUBSET Motifs]
      /\ \A t \in Abonnes \ {s} : trouble'[t] = trouble[t]
  <2> HIDE DEF motifs
  <2>1. QED
    BY <1>1, <1>2, <1>3, <1>7 DEF TypesDuPartage
<1>10. QED
  BY <1>8, <1>9

\* The status is written and the account of the gesture is closed.
LEMMA EcrireStatutIInv ==
  ASSUME IInv, NEW q \in Requetes, NEW s \in Abonnes, s = requete[q].s, NEW statut \in Statuts,
         NEW motifs \in SUBSET Motifs, Finir(q), statut # "ABSENT",
         abonnement' = [abonnement EXCEPT ![s].status = statut],
         trouble' = [trouble EXCEPT ![s] = motifs],
         UNCHANGED <<routeur, enFile, travail, gestes, pannes, perte, du>>,
         \/ motifs \intersect Graves # {}
         \/ /\ ~compte[s].existe \/ (compte[s].disabled <=> statut = "SUSPENDED")
            /\ statut = "SUSPENDED" /\ appareil[s].suivi => appareil[s].type = "blocked"
  PROVE  IInv'
<1>1. TypesDuPartage
  BY DEF IInv, Types
<1>2. Pas(q) /\ requete'[q] = Repos
  BY FinirPas
<1>3. /\ abonnement' \in [Abonnes -> Lignes] /\ abonnement'[s].fin = abonnement[s].fin
      /\ abonnement'[s].status = statut
      /\ \A t \in Abonnes \ {s} : abonnement'[t] = abonnement[t]
  BY <1>1 DEF TypesDuPartage, Lignes
<1>4. /\ trouble' \in [Abonnes -> SUBSET Motifs] /\ trouble'[s] = motifs
      /\ \A t \in Abonnes \ {s} : trouble'[t] = trouble[t]
  BY <1>1 DEF TypesDuPartage
<1>5. TypesDuPartage' /\ SurUnSeul(s)
  BY <1>1, <1>3, <1>4 DEF TypesDuPartage, SurUnSeul, routeur
<1>6. DatesDuPas(q, s) /\ PaiementDuPas(q, s)
  BY <1>2, <1>3, DatesGardees, PaiementGarde DEF routeur
<1>7. RouteurDuPas(q, s)
  BY <1>2, ReposOK, SaitRien DEF RouteurDuPas, routeur
<1>8. AccordDuPas(q, s)
  <2>1. AccordCompte(abonnement'[s], compte'[s], trouble'[s])
    BY <1>3, <1>4 DEF AccordCompte, routeur
  <2>2. AccordAppareil(abonnement'[s], appareil'[s], trouble'[s])
    BY <1>3, <1>4 DEF AccordAppareil, routeur
  <2>3. QED
    BY <1>3, <2>1, <2>2 DEF AccordDuPas
<1>9. QED
  BY <1>2, <1>5, <1>6, <1>7, <1>8, PasIInv

LEMMA EcrireSuspensionIInv ==
  ASSUME IInv, NEW q \in Requetes, EcrireSuspension(q)
  PROVE  IInv'
<1> DEFINE s == requete[q].s
           b == requete[q]
           motifs == Bilan(b.croise, {})
<1>1. /\ s \in Abonnes /\ b.etape = "suspension" /\ b.geste = "suspendre"
      /\ Sait(b, compte[s], appareil[s])
  BY FaitsDUnGeste DEF EcrireSuspension, En, Forme
<1>2. motifs = IF b.croise THEN {"croise"} ELSE {}
  BY DEF Bilan
<1>3. ~b.croise => /\ ~compte[s].existe \/ compte[s].disabled
                   /\ appareil[s].suivi => appareil[s].type = "blocked"
  BY <1>1 DEF Sait, AFerme
<1>4. motifs \in SUBSET Motifs /\ (b.croise => motifs \intersect Graves # {})
  BY <1>2 DEF Motifs, Graves
<1>5. /\ abonnement' = [abonnement EXCEPT ![s].status = "SUSPENDED"]
      /\ trouble' = [trouble EXCEPT ![s] = motifs] /\ Finir(q)
      /\ UNCHANGED <<routeur, enFile, travail, gestes, pannes, perte, du>>
  BY DEF EcrireSuspension
<1> HIDE DEF motifs
<1>6. "SUSPENDED" \in Statuts
  BY DEF Statuts
<1>7. QED
  BY <1>1, <1>3, <1>4, <1>5, <1>6, EcrireStatutIInv

LEMMA EcrireRepriseIInv ==
  ASSUME IInv, NEW q \in Requetes, EcrireReprise(q)
  PROVE  IInv'
<1> DEFINE s == requete[q].s
           b == requete[q]
           statut == Derive(b.fin)
           motifs == Bilan(b.croise, IF statut = "SUSPENDED" THEN {"tard"} ELSE {})
<1>1. /\ s \in Abonnes /\ b.etape = "reprise" /\ b.geste = "reprendre"
      /\ Sait(b, compte[s], appareil[s])
  BY FaitsDUnGeste DEF EcrireReprise, En, Forme
<1>2. motifs = IF b.croise THEN {"croise"} ELSE IF statut = "SUSPENDED" THEN {"tard"} ELSE {}
  BY DEF Bilan
<1>3. ~b.croise => ~compte[s].existe \/ ~compte[s].disabled
  BY <1>1 DEF Sait, AOuvert
<1>4. /\ motifs \in SUBSET Motifs
      /\ b.croise \/ statut = "SUSPENDED" => motifs \intersect Graves # {}
  BY <1>2 DEF Motifs, Graves
<1>5. /\ abonnement' = [abonnement EXCEPT ![s].status = statut]
      /\ trouble' = [trouble EXCEPT ![s] = motifs] /\ Finir(q)
      /\ UNCHANGED <<routeur, enFile, travail, gestes, pannes, perte, du>>
  BY DEF EcrireReprise
<1>6. statut \in Statuts /\ statut # "ABSENT"
  BY DEF Statuts, Derive
<1> HIDE DEF motifs, statut
<1>7. QED
  BY <1>1, <1>3, <1>4, <1>5, <1>6, EcrireStatutIInv

LEMMA LireRouteurIInv ==
  ASSUME IInv, NEW q \in Requetes, LireRouteur(q)
  PROVE  IInv'
<1> DEFINE s == requete[q].s
           b == requete[q]
           h == Plafond(Faits)
           e == IF compte[s].existe THEN compte[s].fin ELSE Aucune
<1>1. s \in Abonnes /\ b.etape = "lecture" /\ b.geste = "rapprocher"
  BY FaitsDUnGeste DEF LireRouteur, En, Forme
<1>2. TypesDuPartage /\ requete \in [Requetes -> EnTravail]
  BY DEF IInv, Types, TypesDesRequetes
<1>3. TypesDuPartage' /\ SurUnSeul(s)
  BY <1>2 DEF LireRouteur, TypesDuPartage, SurUnSeul, routeur, temoins
<1>4. ~EntameAppareil(b) /\ ~EntameCompte(b)
  BY <1>1 DEF EntameAppareil, EntameCompte, AOuvert, AFerme
<1>5. CASE Finir(q)
  BY <1>1, <1>3, <1>4, <1>5, FinirIInv DEF LireRouteur, En, routeur, temoins
<1>6. CASE ~Finir(q)
  <2>1. /\ e \notin {Aucune, b.fin}
        /\ requete' = [requete EXCEPT ![q].fin = e, ![q].etape = "alignement"]
    BY <1>6 DEF LireRouteur
  <2>2. /\ h \in Nat /\ h >= Periode /\ compte[s].fin \in Aucune..h
        /\ abonnement[s].fin \in Fond..h
    BY <1>1, FaitsDesDates, Nombres
  <2>3. PlafondApres(q) = h
    BY <1>1 DEF PlafondApres, Avant
  <2> HIDE DEF h
  <2>4. e \in Fond..h /\ e \in Int
    BY <2>1, <2>2, Nombres
  <2> HIDE DEF e
  <2>5. /\ requete' \in [Requetes -> EnTravail]
        /\ requete'[q].fin = e /\ requete'[q].etape = "alignement"
        /\ requete'[q].geste = b.geste /\ requete'[q].s = s /\ requete'[q].lu = b.lu
        /\ requete'[q].croise = b.croise
        /\ \A p \in Requetes \ {q} : requete'[p] = requete[p]
    BY <1>2, <2>1, <2>4 DEF EnTravail, Etapes
  <2>6. Pas(q)
    BY <1>1, <2>5 DEF Pas, Meme, Forme, Avant
  <2>7. DatesDuPas(q, s)
    BY <2>2, <2>3, <2>4, <2>5, Nombres DEF DatesDuPas, BorneDeRequete, LireRouteur, routeur
  <2>8. PaiementDuPas(q, s)
    BY <1>1, <2>5, PaiementGarde DEF LireRouteur, temoins
  <2>9. RouteurDuPas(q, s)
    BY <1>1, <2>5, SaitRien DEF RouteurDuPas, LireRouteur, routeur, OuvreOuFerme
  <2>10. AccordDuPas(q, s)
    BY <1>4 DEF AccordDuPas, LireRouteur, routeur, temoins
  <2>11. QED
    BY <1>1, <1>3, <2>6, <2>7, <2>8, <2>9, <2>10, PasIInv DEF LireRouteur
<1>7. QED
  BY <1>5, <1>6

LEMMA AlignerIInv ==
  ASSUME IInv, NEW q \in Requetes, Aligner(q)
  PROVE  IInv'
<1> DEFINE s == requete[q].s
           b == requete[q]
           h == Plafond(Faits)
<1>1. /\ s \in Abonnes /\ b.etape = "alignement" /\ b.geste = "rapprocher" /\ b \in EnTravail
      /\ perte[s] \/ abonnement[s].fin >= du[s]
  BY FaitsDUnGeste DEF Aligner, En, Forme
<1>2. TypesDuPartage
  BY DEF IInv, Types
<1>3. Pas(q) /\ requete'[q] = Repos
  BY FinirPas DEF Aligner
<1>4. /\ h \in Nat /\ h >= Periode /\ compte[s].fin \in Aucune..h /\ b.fin \in Fond..h
  BY <1>1, FaitsDesDates, Nombres DEF BorneDeRequete
<1>5. PlafondApres(q) = h
  BY <1>1 DEF PlafondApres, Avant
<1> HIDE DEF h
<1>6. /\ abonnement' = [abonnement EXCEPT ![s].fin = b.fin]
      /\ perte' = [perte EXCEPT ![s] = @ \/ b.bouge \/ b.fin < abonnement[s].fin]
  BY DEF Aligner
<1>7. /\ abonnement' \in [Abonnes -> Lignes] /\ abonnement'[s].fin = b.fin
      /\ abonnement'[s].status = abonnement[s].status
      /\ \A t \in Abonnes \ {s} : abonnement'[t] = abonnement[t]
  BY <1>1, <1>2, <1>6 DEF TypesDuPartage, Lignes, EnTravail
<1>8. /\ perte' \in [Abonnes -> BOOLEAN]
      /\ perte[s] => perte'[s]
      /\ b.fin < abonnement[s].fin => perte'[s]
      /\ \A t \in Abonnes \ {s} : perte'[t] = perte[t]
  BY <1>1, <1>2, <1>6 DEF TypesDuPartage
<1>9. TypesDuPartage' /\ SurUnSeul(s)
  BY <1>2, <1>7, <1>8 DEF Aligner, TypesDuPartage, SurUnSeul, routeur
<1>10. DatesDuPas(q, s)
  BY <1>3, <1>4, <1>5, <1>7, ReposOK, Nombres DEF DatesDuPas, BorneDeRequete, Aligner, routeur
<1>11. PaiementDuPas(q, s)
  <2>1. abonnement[s].fin \in Int /\ du[s] \in Int /\ b.fin \in Int
    BY <1>1, <1>2 DEF TypesDuPartage, Lignes, EnTravail
  <2>2. CASE b.fin < abonnement[s].fin
    BY <1>3, <1>8, <2>2, ReposOK DEF PaiementDuPas
  <2>3. CASE b.fin >= abonnement[s].fin
    <3>1. perte[s] \/ b.fin >= du[s]
      BY <1>1, <2>1, <2>3
    <3>2. perte'[s] \/ abonnement'[s].fin >= du'[s]
      BY <1>7, <1>8, <3>1 DEF Aligner
    <3>3. requete'[q].geste # "renouveler"
      BY <1>3, ReposOK
    <3>4. QED
      BY <1>8, <3>2, <3>3 DEF PaiementDuPas
  <2>4. QED
    BY <2>1, <2>2, <2>3
<1>12. RouteurDuPas(q, s)
  BY <1>3, ReposOK, SaitRien DEF RouteurDuPas, Aligner, routeur
<1>13. AccordDuPas(q, s)
  <2>1. ~EntameAppareil(b) /\ ~EntameCompte(b)
    BY <1>1 DEF EntameAppareil, EntameCompte, AOuvert, AFerme
  <2>2. QED
    BY <1>7, <2>1 DEF AccordDuPas, AccordCompte, AccordAppareil, Aligner, routeur
<1>14. QED
  BY <1>1, <1>3, <1>9, <1>10, <1>11, <1>12, <1>13, PasIInv DEF Aligner

LEMMA EcrireBindingIInv ==
  ASSUME IInv, NEW q \in Requetes, EcrireBinding(q)
  PROVE  IInv'
<1> DEFINE s == requete[q].s
           b == requete[q]
           type == IF b.geste = "contourner" THEN "bypassed" ELSE "blocked"
<1>1. s \in Abonnes /\ b.etape = "contournement" /\ b.geste \in {"contourner", "bloquer"}
  BY FaitsDUnGeste DEF EcrireBinding, En, Forme
<1>2. TypesDuPartage
  BY DEF IInv, Types
<1>3. /\ Pas(q) /\ requete'[q].etape = "memorisation" /\ requete'[q].geste = b.geste
      /\ requete'[q].fin = b.fin /\ requete'[q].du = b.du
  BY <1>1, AllerPas DEF EcrireBinding, Forme, Etapes, Avant
<1>4. appareil' = [appareil EXCEPT ![s].type = type]
  BY DEF EcrireBinding
<1>5. type \in {"bypassed", "blocked"} /\ (b.geste = "bloquer" => type = "blocked")
  BY <1>1
<1> HIDE DEF type
<1>6. /\ appareil' \in [Abonnes -> Appareils] /\ appareil'[s].type = type
      /\ \A t \in Abonnes \ {s} : appareil'[t] = appareil[t]
  BY <1>1, <1>2, <1>4, <1>5 DEF TypesDuPartage, Appareils
<1>7. TypesDuPartage' /\ SurUnSeul(s)
  BY <1>2, <1>6 DEF EcrireBinding, TypesDuPartage, SurUnSeul, temoins
<1>8. DatesDuPas(q, s) /\ PaiementDuPas(q, s)
  BY <1>1, <1>3, DatesGardees, PaiementGarde DEF EcrireBinding, temoins
<1>9. ~EntameCompte(b) /\ EntameAppareil(requete'[q])
  BY <1>1, <1>3 DEF EntameCompte, AOuvert, AFerme, EntameAppareil
<1>10. RouteurDuPas(q, s)
  BY <1>1, <1>3, <1>5, <1>6 DEF RouteurDuPas, OuvreOuFerme, Sait, AOuvert, AFerme, ABloque
<1>11. AccordDuPas(q, s)
  BY <1>9 DEF AccordDuPas, EcrireBinding, temoins
<1>12. QED
  BY <1>1, <1>3, <1>7, <1>8, <1>10, <1>11, PasIInv DEF EcrireBinding

LEMMA MemoriserIInv ==
  ASSUME IInv, NEW q \in Requetes, Memoriser(q)
  PROVE  IInv'
<1> DEFINE s == requete[q].s
           b == requete[q]
           ajout == IF b.croise THEN {"croise"}
                    ELSE IF b.geste = "contourner" THEN {"expres"} ELSE {}
<1>1. /\ s \in Abonnes /\ b.etape = "memorisation" /\ b.geste \in {"contourner", "bloquer"}
      /\ Sait(b, compte[s], appareil[s])
  BY FaitsDUnGeste DEF Memoriser, En, Forme
<1>2. TypesDuPartage
  BY DEF IInv, Types
<1>3. Pas(q) /\ requete'[q] = Repos
  BY FinirPas DEF Memoriser
<1>4. /\ appareil' = [appareil EXCEPT ![s].suivi = TRUE]
      /\ trouble' = [trouble EXCEPT ![s] = @ \union ajout]
  BY DEF Memoriser
<1>5. /\ ajout \in SUBSET Motifs
      /\ ajout = {} => ~b.croise /\ b.geste = "bloquer"
  BY <1>1 DEF Motifs
<1> HIDE DEF ajout
<1>6. /\ appareil' \in [Abonnes -> Appareils] /\ appareil'[s].type = appareil[s].type
      /\ \A t \in Abonnes \ {s} : appareil'[t] = appareil[t]
  BY <1>1, <1>2, <1>4 DEF TypesDuPartage, Appareils
<1>7. /\ trouble' \in [Abonnes -> SUBSET Motifs] /\ trouble'[s] = trouble[s] \union ajout
      /\ \A t \in Abonnes \ {s} : trouble'[t] = trouble[t]
  BY <1>1, <1>2, <1>4, <1>5 DEF TypesDuPartage
<1>8. TypesDuPartage' /\ SurUnSeul(s)
  BY <1>2, <1>6, <1>7 DEF Memoriser, TypesDuPartage, SurUnSeul
<1>9. DatesDuPas(q, s) /\ PaiementDuPas(q, s)
  BY <1>1, <1>3, DatesGardees, PaiementGarde DEF Memoriser
<1>10. RouteurDuPas(q, s)
  BY <1>1, <1>3, ReposOK, SaitRien DEF RouteurDuPas, OuvreOuFerme
<1>11. AccordDuPas(q, s)
  <2>1. ~EntameCompte(b)
    BY <1>1 DEF EntameCompte, AOuvert, AFerme
  <2>2. AccordCompte(abonnement[s], compte[s], trouble[s])
          => AccordCompte(abonnement'[s], compte'[s], trouble'[s])
    BY <1>7 DEF AccordCompte, Memoriser
  <2>3. ajout = {} => appareil[s].type = "blocked"
    BY <1>1, <1>5 DEF Sait, ABloque
  <2>4. AccordAppareil(abonnement'[s], appareil'[s], trouble'[s])
    BY <1>6, <1>7, <2>3 DEF AccordAppareil
  <2>5. QED
    BY <2>1, <2>2, <2>4 DEF AccordDuPas, Memoriser
<1>12. QED
  BY <1>1, <1>3, <1>8, <1>9, <1>10, <1>11, PasIInv DEF Memoriser

-----------------------------------------------------------------------------
(***************************************************************************)
(* A step of the job, of the replay or of the router on one subscription.  *)
(***************************************************************************)
\* The gestures stay where they are; the subscription s is touched.
PasDAutrui(s) ==
  /\ requete' \in [Requetes -> EnTravail]
  /\ \A p \in Requetes : Meme(requete'[p], requete[p])
  /\ TypesDuPartage' /\ TypesDuTravail' /\ SurUnSeul(s)
  /\ abonnement'[s].fin = abonnement[s].fin
  /\ compte'[s].fin \in Aucune..Plafond(Faits)
  /\ perte' = perte /\ du' = du /\ gestes' = gestes
  /\ abonnement[s].status # "ABSENT" => abonnement'[s].status # "ABSENT"
  /\ travail' = travail \/ (travail.s \in {s, Personne} /\ travail'.s \in {s, Personne})

SavoirApres(s) ==
  /\ \A p \in Requetes : requete[p].s = s => Sait(requete'[p], compte'[s], appareil'[s])
  /\ TravailEntame' /\ ~travail'.croise =>
       ~compte'[travail'.s].existe \/ compte'[travail'.s].disabled
  /\ \A p \in Requetes :
       OuvreOuFerme(requete[p]) /\ travail'.s = requete[p].s =>
         requete'[p].croise /\ travail'.croise

AccordApres(s) ==
  /\ \/ JobEntame(s)'
     \/ AccordCompte(abonnement'[s], compte'[s], trouble'[s])
     \/ /\ ~JobEntame(s)
        /\ AccordCompte(abonnement[s], compte[s], trouble[s])
             => AccordCompte(abonnement'[s], compte'[s], trouble'[s])
  /\ \/ JobEntame(s)'
     \/ AccordAppareil(abonnement'[s], appareil'[s], trouble'[s])
     \/ /\ ~JobEntame(s)
        /\ AccordAppareil(abonnement[s], appareil[s], trouble[s])
             => AccordAppareil(abonnement'[s], appareil'[s], trouble'[s])

LEMMA MemesBornes ==
  ASSUME IInv, \A p \in Requetes : Meme(requete'[p], requete[p]), gestes' = gestes,
         \A t \in Abonnes : abonnement'[t].fin = abonnement[t].fin,
         \A t \in Abonnes : compte'[t].fin \in Aucune..Plafond(Faits)
  PROVE  Bornes'
<1>1. EnAttente' = EnAttente
  BY DEF EnAttente, Meme
<1>2. Faits' = Faits /\ Plafond(Faits)' = Plafond(Faits)
  BY <1>1 DEF Faits, Plafond
<1>3. \A p \in Requetes : BorneDeRequete(requete'[p], Plafond(Faits))
  BY MemeOK, FaitsDesDates
<1>4. \A t \in Abonnes : abonnement'[t].fin \in Fond..Plafond(Faits)
  BY FaitsDesDates
<1>5. IsFiniteSet(EnAttente) /\ Cardinality(EnAttente) <= gestes
  BY DEF IInv, Bornes
<1>6. QED
  BY <1>1, <1>2, <1>3, <1>4, <1>5 DEF Bornes, BorneDeRequete

LEMMA PasDAutruiIInv ==
  ASSUME IInv, NEW s \in Abonnes, PasDAutrui(s), SavoirApres(s), AccordApres(s)
  PROVE  IInv'
<1>1. \A p \in Requetes : Meme(requete'[p], requete[p])
  BY DEF PasDAutrui
<1>2. TypesDesRequetes /\ TypesDuTravail /\ TypesDuPartage
  BY DEF IInv, Types
<1>3. Types'
  <2>1. \A p \in Requetes : Forme(requete'[p])
    BY <1>1, <1>2, MemeOK DEF TypesDesRequetes
  <2>2. TypesDesRequetes'
    BY <2>1 DEF PasDAutrui, TypesDesRequetes, Forme
  <2>3. QED
    BY <2>2 DEF Types, PasDAutrui, IInv
<1>4. Bornes'
  <2>1. \A t \in Abonnes : abonnement'[t].fin = abonnement[t].fin
    BY DEF PasDAutrui, SurUnSeul
  <2>2. \A t \in Abonnes : compte'[t].fin \in Aucune..Plafond(Faits)
    BY FaitsDesDates DEF PasDAutrui, SurUnSeul
  <2>3. QED
    BY <1>1, <2>1, <2>2, MemesBornes DEF PasDAutrui
<1>5. RenouvellementsTenus' /\ PeriodesPayees'
  <2>1. \A t \in Abonnes : abonnement'[t].fin = abonnement[t].fin
    BY DEF PasDAutrui, SurUnSeul
  <2>2. PeriodesPayees'
    BY <2>1 DEF PasDAutrui, IInv, PeriodesPayees
  <2>3. RenouvellementsTenus'
    BY <1>1 DEF PasDAutrui, IInv, RenouvellementsTenus, Meme
  <2>4. QED
    BY <2>2, <2>3
<1>6. Savoir' /\ JobSait'
  <2>1. ASSUME NEW p \in Requetes, requete'[p].s \in Abonnes
        PROVE  Sait(requete'[p], compte'[requete'[p].s], appareil'[requete'[p].s])
    <3>1. Meme(requete'[p], requete[p]) /\ requete'[p].s = requete[p].s
      BY <1>1 DEF Meme
    <3>2. CASE requete[p].s = s
      BY <3>1, <3>2 DEF SavoirApres
    <3>3. CASE requete[p].s # s
      <4>1. Sait(requete[p], compte[requete[p].s], appareil[requete[p].s])
        BY <2>1, <3>1 DEF IInv, Savoir
      <4>2. compte'[requete[p].s] = compte[requete[p].s]
              /\ appareil'[requete[p].s] = appareil[requete[p].s]
        BY <2>1, <3>1, <3>3 DEF PasDAutrui, SurUnSeul
      <4>3. QED
        BY <3>1, <4>1, <4>2, MemeOK
    <3>4. QED
      BY <3>2, <3>3
  <2>2. QED
    BY <2>1 DEF Savoir, JobSait, SavoirApres, Sait, AOuvert, AFerme, ABloque
<1>7. Croisements'
  <2>1. \A p \in Requetes : /\ OuvreOuFerme(requete'[p]) <=> OuvreOuFerme(requete[p])
                            /\ requete'[p].s = requete[p].s
                            /\ requete[p].croise => requete'[p].croise
    BY <1>1, MemeOK DEF Meme
  <2>2. ASSUME NEW p \in Requetes, NEW r \in Requetes, p # r, requete'[p].s = requete'[r].s,
               OuvreOuFerme(requete'[p]), OuvreOuFerme(requete'[r])
        PROVE  requete'[r].croise
    BY <2>1, <2>2 DEF IInv, Croisements
  <2>3. ASSUME NEW p \in Requetes, OuvreOuFerme(requete'[p]), travail'.s = requete'[p].s
        PROVE  requete'[p].croise /\ travail'.croise
    BY <2>1, <2>3 DEF SavoirApres
  <2>4. QED
    BY <2>2, <2>3 DEF Croisements, TravailSur, OuvreOuFerme
<1>8. \A t \in Abonnes \ {s} : JobEntame(t)' <=> JobEntame(t)
  BY PersonneNEstAbonne DEF PasDAutrui, JobEntame, TravailSur, TravailEntame
<1>9. CompteSuit'
  <2> SUFFICES ASSUME NEW t \in Abonnes, CompteLibre(t)'
               PROVE  AccordCompte(abonnement'[t], compte'[t], trouble'[t])
    BY DEF CompteSuit, AccordCompte
  <2>1. /\ ~JobEntame(t)'
        /\ \A p \in Requetes : requete'[p].s = t => ~EntameCompte(requete'[p])
    BY DEF CompteLibre, EntameCompte, AOuvert, AFerme
  <2>2. \A p \in Requetes : requete[p].s = t => ~EntameCompte(requete[p])
    BY <1>1, <2>1, MemeOK DEF Meme
  <2>3. ~JobEntame(t) => AccordCompte(abonnement[t], compte[t], trouble[t])
    BY <2>2 DEF CompteLibre, IInv, CompteSuit
  <2>4. CASE t # s
    BY <1>8, <2>1, <2>3, <2>4 DEF PasDAutrui, SurUnSeul
  <2>5. CASE t = s
    BY <2>1, <2>3, <2>5 DEF AccordApres
  <2>6. QED
    BY <2>4, <2>5
<1>10. AppareilSuit'
  <2> SUFFICES ASSUME NEW t \in Abonnes, AppareilLibre(t)'
               PROVE  AccordAppareil(abonnement'[t], appareil'[t], trouble'[t])
    BY DEF AppareilSuit, AccordAppareil
  <2>1. /\ ~JobEntame(t)'
        /\ \A p \in Requetes : requete'[p].s = t => ~EntameAppareil(requete'[p])
    BY DEF AppareilLibre, EntameAppareil, EntameCompte, AOuvert, AFerme
  <2>2. \A p \in Requetes : requete[p].s = t => ~EntameAppareil(requete[p])
    BY <1>1, <2>1, MemeOK DEF Meme
  <2>3. ~JobEntame(t) => AccordAppareil(abonnement[t], appareil[t], trouble[t])
    BY <2>2 DEF AppareilLibre, IInv, AppareilSuit
  <2>4. CASE t # s
    BY <1>8, <2>1, <2>3, <2>4 DEF PasDAutrui, SurUnSeul
  <2>5. CASE t = s
    BY <2>1, <2>3, <2>5 DEF AccordApres
  <2>6. QED
    BY <2>4, <2>5
<1>11. DejaInscrits'
  <2> SUFFICES ASSUME NEW p \in Requetes, requete'[p].geste \notin {"aucun", "souscrire"}
               PROVE  abonnement'[requete'[p].s].status # "ABSENT"
    BY DEF DejaInscrits, Inscrit
  <2>1. requete[p].geste = requete'[p].geste /\ requete[p].s = requete'[p].s
    BY <1>1 DEF Meme
  <2>2. abonnement[requete[p].s].status # "ABSENT" /\ requete[p].s \in Abonnes
    BY <1>2, <2>1 DEF IInv, DejaInscrits, Inscrit, TypesDesRequetes, Forme
  <2>3. QED
    BY <2>1, <2>2 DEF PasDAutrui, SurUnSeul
<1>12. QED
  BY <1>3, <1>4, <1>5, <1>6, <1>7, <1>9, <1>10, <1>11 DEF IInv

LEMMA MemeSoi == \A r : Meme(r, r)
BY DEF Meme

\* Nothing of the gestures changes.
LEMMA GestesIntacts ==
  ASSUME IInv, requete' = requete
  PROVE  requete' \in [Requetes -> EnTravail] /\ \A p \in Requetes : Meme(requete'[p], requete[p])
BY MemeSoi DEF IInv, Types, TypesDesRequetes

\* The gestures on a subscription that the job works on are all crossed.
LEMMA SousLeJob ==
  ASSUME IInv, NEW p \in Requetes, NEW c, NEW d, requete[p].s = travail.s
  PROVE  Sait(requete[p], c, d)
<1>1. requete[p].croise \/ ~OuvreOuFerme(requete[p])
  BY DEF IInv, Croisements, TravailSur
<1>2. QED
  BY <1>1, SaitRien

-----------------------------------------------------------------------------
(***************************************************************************)
(* The steps of the job.                                                   *)
(***************************************************************************)
LEMMA SuivantOK ==
  ASSUME IInv, Suivant \/ travail' = SansTravail
  PROVE  TypesDuTravail' /\ travail'.s = Personne /\ travail'.etape \in {"repos", "choix"}
<1>1. travail.liste \ {travail.s} \in SUBSET Abonnes
  BY DEF IInv, Types, TypesDuTravail, Passes
<1>2. CASE travail' = SansTravail
  BY <1>2, SansTravailOK DEF TypesDuTravail, FormePasse
<1>3. CASE travail' = [SansTravail EXCEPT !.etape = "choix", !.liste = travail.liste \ {travail.s}]
  <2>1. /\ travail' \in Passes /\ travail'.s = Personne /\ travail'.etape = "choix"
    BY <1>1, <1>3 DEF SansTravail, Passes, EtapesDuTravail
  <2>2. QED
    BY <2>1 DEF TypesDuTravail, FormePasse
<1>4. QED
  BY <1>2, <1>3 DEF Suivant

\* The job leaves its subscription, or goes one step further on it.
LEMMA JobIInv ==
  ASSUME IInv, NEW s, s = travail.s, s \in Abonnes,
         requete' = requete, appareil' = appareil, perte' = perte, du' = du, gestes' = gestes,
         TypesDuPartage', TypesDuTravail', SurUnSeul(s),
         abonnement'[s].fin = abonnement[s].fin, compte'[s].fin = compte[s].fin,
         abonnement[s].status # "ABSENT" => abonnement'[s].status # "ABSENT",
         \/ travail'.s = Personne /\ travail'.etape \in {"repos", "choix"}
         \/ /\ travail'.s = s /\ travail'.croise = travail.croise
            /\ travail.croise \/ ~compte'[s].existe \/ compte'[s].disabled,
         AccordApres(s)
  PROVE  IInv'
<1>1. PasDAutrui(s)
  BY GestesIntacts, FaitsDesDates DEF PasDAutrui
<1>2. SavoirApres(s)
  <2>1. \A p \in Requetes : requete[p].s = s => Sait(requete'[p], compte'[s], appareil'[s])
    BY SousLeJob
  <2>2. TravailEntame' /\ ~travail'.croise =>
          ~compte'[travail'.s].existe \/ compte'[travail'.s].disabled
    BY DEF TravailEntame
  <2>3. \A p \in Requetes :
          OuvreOuFerme(requete[p]) /\ travail'.s = requete[p].s =>
            requete'[p].croise /\ travail'.croise
    <3>1. ASSUME NEW p \in Requetes, OuvreOuFerme(requete[p]), travail'.s = requete[p].s
          PROVE  requete[p].croise /\ travail'.croise
      <4>1. requete[p].s # Personne
        BY <3>1, PersonneNEstAbonne DEF IInv, Types, TypesDesRequetes, Forme, OuvreOuFerme
      <4>2. QED
        BY <3>1, <4>1 DEF IInv, Croisements, TravailSur
    <3>2. QED
      BY <3>1
  <2>4. QED
    BY <2>1, <2>2, <2>3 DEF SavoirApres
<1>3. QED
  BY <1>1, <1>2, PasDAutruiIInv

LEMMA FermerTravailIInv ==
  ASSUME IInv, FermerTravail
  PROVE  IInv'
<1> DEFINE s == travail.s
<1>1. s \in Abonnes /\ travail \in Passes
  BY DEF FermerTravail, IInv, Types, TypesDuTravail, FormePasse
<1>2. TypesDuPartage
  BY DEF IInv, Types
<1>3. compte' = [compte EXCEPT ![s].disabled = @ \/ compte[s].existe]
  BY DEF FermerTravail
<1>4. /\ compte' \in [Abonnes -> Comptes] /\ compte'[s].existe = compte[s].existe
      /\ compte'[s].disabled = (compte[s].disabled \/ compte[s].existe)
      /\ compte'[s].fin = compte[s].fin
      /\ \A t \in Abonnes \ {s} : compte'[t] = compte[t]
  BY <1>1, <1>2, <1>3 DEF TypesDuPartage, Comptes
<1>5. TypesDuPartage' /\ SurUnSeul(s)
  BY <1>2, <1>4 DEF FermerTravail, TypesDuPartage, SurUnSeul, temoins
<1>6. CASE compte[s].existe
  <2>1. travail' = [travail EXCEPT !.etape = "coupure"]
    BY <1>6 DEF FermerTravail
  <2>2. /\ travail' \in Passes /\ travail'.s = s /\ travail'.croise = travail.croise
        /\ travail'.etape = "coupure"
    BY <1>1, <2>1 DEF Passes, EtapesDuTravail
  <2>3. TypesDuTravail' /\ JobEntame(s)'
    BY <1>1, <2>2 DEF TypesDuTravail, FormePasse, JobEntame, TravailSur, TravailEntame
  <2>4. QED
    BY <1>1, <1>4, <1>5, <1>6, <2>2, <2>3, JobIInv DEF FermerTravail, temoins, AccordApres
<1>7. CASE ~compte[s].existe
  <2>1. TypesDuTravail' /\ travail'.s = Personne /\ travail'.etape \in {"repos", "choix"}
    BY <1>7, SuivantOK DEF FermerTravail
  <2>2. AccordApres(s)
    <3>1. ~JobEntame(s)
      BY DEF JobEntame, TravailEntame, FermerTravail
    <3>2. AccordCompte(abonnement'[s], compte'[s], trouble'[s])
      BY <1>4, <1>7 DEF AccordCompte
    <3>3. QED
      BY <3>1, <3>2 DEF AccordApres, FermerTravail, temoins
  <2>3. QED
    BY <1>1, <1>4, <1>5, <2>1, <2>2, JobIInv DEF FermerTravail, temoins
<1>8. QED
  BY <1>6, <1>7

LEMMA CouperTravailIInv ==
  ASSUME IInv, CouperTravail
  PROVE  IInv'
<1> DEFINE s == travail.s
<1>1. s \in Abonnes /\ travail \in Passes
  BY DEF CouperTravail, IInv, Types, TypesDuTravail, FormePasse
<1>2. travail' = [travail EXCEPT !.etape = "suspension"]
  BY DEF CouperTravail
<1>3. /\ travail' \in Passes /\ travail'.s = s /\ travail'.croise = travail.croise
      /\ travail'.etape = "suspension"
  BY <1>1, <1>2 DEF Passes, EtapesDuTravail
<1>4. TypesDuTravail' /\ JobEntame(s)'
  BY <1>1, <1>3 DEF TypesDuTravail, FormePasse, JobEntame, TravailSur, TravailEntame
<1>5. travail.croise \/ ~compte[s].existe \/ compte[s].disabled
  BY DEF IInv, JobSait, TravailEntame, CouperTravail
<1>6. TypesDuPartage' /\ SurUnSeul(s)
  BY DEF IInv, Types, CouperTravail, TypesDuPartage, SurUnSeul, routeur, temoins
<1>7. QED
  BY <1>1, <1>3, <1>4, <1>5, <1>6, JobIInv DEF CouperTravail, routeur, temoins, AccordApres

LEMMA SuspendreTravailIInv ==
  ASSUME IInv, SuspendreTravail
  PROVE  IInv'
<1> DEFINE s == travail.s
           motifs == Bilan(travail.croise \/ ~Epuise(s), {"travail"})
<1>1. s \in Abonnes
  BY DEF SuspendreTravail, IInv, Types, TypesDuTravail, FormePasse
<1>2. TypesDuPartage
  BY DEF IInv, Types
<1>3. /\ motifs \in SUBSET Motifs /\ motifs # {}
      /\ travail.croise => motifs \intersect Graves # {}
  BY DEF Bilan, Motifs, Graves
<1>4. /\ abonnement' = [abonnement EXCEPT ![s].status = "SUSPENDED"]
      /\ trouble' = [trouble EXCEPT ![s] = motifs]
  BY DEF SuspendreTravail
<1> HIDE DEF motifs
<1>5. /\ abonnement' \in [Abonnes -> Lignes] /\ abonnement'[s].fin = abonnement[s].fin
      /\ abonnement'[s].status = "SUSPENDED"
      /\ \A t \in Abonnes \ {s} : abonnement'[t] = abonnement[t]
  BY <1>1, <1>2, <1>4 DEF TypesDuPartage, Lignes, Statuts
<1>6. /\ trouble' \in [Abonnes -> SUBSET Motifs] /\ trouble'[s] = motifs
      /\ \A t \in Abonnes \ {s} : trouble'[t] = trouble[t]
  BY <1>1, <1>2, <1>3, <1>4 DEF TypesDuPartage
<1>7. TypesDuPartage' /\ SurUnSeul(s)
  BY <1>2, <1>5, <1>6 DEF SuspendreTravail, TypesDuPartage, SurUnSeul, routeur
<1>8. TypesDuTravail' /\ travail'.s = Personne /\ travail'.etape \in {"repos", "choix"}
  BY SuivantOK DEF SuspendreTravail
<1>9. AccordApres(s)
  <2>1. travail.croise \/ ~compte[s].existe \/ compte[s].disabled
    BY DEF IInv, JobSait, TravailEntame, SuspendreTravail
  <2>2. AccordCompte(abonnement'[s], compte'[s], trouble'[s])
    BY <1>3, <1>5, <1>6, <2>1 DEF AccordCompte, SuspendreTravail, routeur
  <2>3. AccordAppareil(abonnement'[s], appareil'[s], trouble'[s])
    BY <1>3, <1>6 DEF AccordAppareil
  <2>4. QED
    BY <2>2, <2>3 DEF AccordApres
<1>10. QED
  BY <1>1, <1>5, <1>7, <1>8, <1>9, JobIInv DEF SuspendreTravail, routeur

\* The job leaves the row before it is written: cut short, it says so.
LEMMA LaisserIInv ==
  ASSUME IInv, NEW s, s = travail.s, s \in Abonnes, Suivant \/ travail' = SansTravail, Compter,
         enFile' \in [Abonnes -> BOOLEAN],
         trouble' = [trouble EXCEPT ![s] = @ \union Coupes(s)],
         UNCHANGED <<abonnement, routeur, requete, gestes, perte, du>>
  PROVE  IInv'
<1>1. TypesDuPartage
  BY DEF IInv, Types
<1>2. Coupes(s) \in SUBSET Motifs /\ (TravailEntame => Coupes(s) = {"coupe"})
  BY DEF Coupes, TravailSur, Motifs
<1>3. /\ trouble' \in [Abonnes -> SUBSET Motifs] /\ trouble'[s] = trouble[s] \union Coupes(s)
      /\ \A t \in Abonnes \ {s} : trouble'[t] = trouble[t]
  BY <1>1, <1>2 DEF TypesDuPartage
<1>4. pannes' \in 0..MaxPannes
  BY <1>1, Nombres DEF Compter, TypesDuPartage
<1>5. TypesDuPartage' /\ SurUnSeul(s)
  BY <1>1, <1>3, <1>4 DEF TypesDuPartage, SurUnSeul, routeur
<1>6. TypesDuTravail' /\ travail'.s = Personne /\ travail'.etape \in {"repos", "choix"}
  BY SuivantOK
<1>7. AccordApres(s)
  <2>1. CASE TravailEntame
    <3>1. "coupe" \in trouble'[s]
      BY <1>2, <1>3, <2>1
    <3>2. /\ AccordCompte(abonnement'[s], compte'[s], trouble'[s])
          /\ AccordAppareil(abonnement'[s], appareil'[s], trouble'[s])
      BY <3>1 DEF AccordCompte, AccordAppareil, Graves
    <3>3. QED
      BY <3>2 DEF AccordApres
  <2>2. CASE ~TravailEntame
    <3>1. ~JobEntame(s)
      BY <2>2 DEF JobEntame
    <3>2. AccordCompte(abonnement[s], compte[s], trouble[s])
            => AccordCompte(abonnement'[s], compte'[s], trouble'[s])
      BY <1>3 DEF AccordCompte, routeur
    <3>3. AccordAppareil(abonnement[s], appareil[s], trouble[s])
            => AccordAppareil(abonnement'[s], appareil'[s], trouble'[s])
      BY <1>3 DEF AccordAppareil, routeur
    <3>4. QED
      BY <3>1, <3>2, <3>3 DEF AccordApres
  <2>3. QED
    BY <2>1, <2>2
<1>8. QED
  BY <1>5, <1>6, <1>7, JobIInv DEF routeur

LEMMA DiffererIInv ==
  ASSUME IInv, Differer \/ EchouerTravail
  PROVE  IInv'
<1>1. travail.s \in Abonnes
  BY DEF Differer, EchouerTravail, IInv, Types, TypesDuTravail, FormePasse
<1>2. enFile' \in [Abonnes -> BOOLEAN]
  BY DEF Differer, EchouerTravail, IInv, Types, TypesDuPartage
<1>3. QED
  BY <1>1, <1>2, LaisserIInv DEF Differer, EchouerTravail

LEMMA MarquerOK ==
  ASSUME IInv, NEW S,
         requete' = [p \in Requetes |->
           IF p \in S THEN [requete[p] EXCEPT !.croise = TRUE] ELSE requete[p]]
  PROVE  /\ requete' \in [Requetes -> EnTravail]
         /\ \A p \in Requetes : Meme(requete'[p], requete[p])
         /\ \A p \in Requetes : p \in S => requete'[p].croise
<1> DEFINE marque(p) == [requete[p] EXCEPT !.croise = TRUE]
<1>1. requete \in [Requetes -> EnTravail]
  BY DEF IInv, Types, TypesDesRequetes
<1>2. ASSUME NEW p \in Requetes
      PROVE  marque(p) \in EnTravail /\ Meme(marque(p), requete[p]) /\ marque(p).croise
  <2>1. requete[p] \in EnTravail
    BY <1>1
  <2>2. marque(p) \in EnTravail /\ marque(p).croise
    BY <2>1 DEF EnTravail
  <2>3. Meme(marque(p), requete[p])
    BY <2>1 DEF EnTravail, Meme
  <2>4. QED
    BY <2>2, <2>3
<1> HIDE DEF marque
<1>3. requete' = [p \in Requetes |-> IF p \in S THEN marque(p) ELSE requete[p]]
  BY DEF marque
<1>4. QED
  BY <1>1, <1>2, <1>3, MemeSoi

LEMMA ListerIInv ==
  ASSUME IInv, Lister
  PROVE  IInv'
<1> DEFINE liste == {s \in Abonnes : ASuspendre(s)}
<1>1. PICK s : s \in liste
  BY DEF Lister
<1>2. s \in Abonnes
  BY <1>1
<1>3. travail' = [SansTravail EXCEPT !.etape = "choix", !.liste = liste]
  BY DEF Lister
<1>4. liste \in SUBSET Abonnes
  OBVIOUS
<1> HIDE DEF liste
<1>5. /\ travail' \in Passes /\ travail'.s = Personne /\ travail'.etape = "choix"
  BY <1>3, <1>4 DEF SansTravail, Passes, EtapesDuTravail
<1>6. travail.s = Personne
  BY DEF Lister, IInv, Types, TypesDuTravail, FormePasse
<1>7. TypesDuPartage' /\ SurUnSeul(s) /\ TypesDuTravail'
  BY <1>5 DEF IInv, Types, Lister, TypesDuPartage, SurUnSeul, routeur, temoins, TypesDuTravail,
              FormePasse
<1>8. PasDAutrui(s)
  BY <1>2, <1>5, <1>6, <1>7, GestesIntacts, FaitsDesDates DEF PasDAutrui, Lister, routeur, temoins
<1>9. SavoirApres(s)
  <2>1. \A p \in Requetes : requete[p].s = s => Sait(requete[p], compte[s], appareil[s])
    BY <1>2 DEF IInv, Savoir
  <2>2. ASSUME NEW p \in Requetes, OuvreOuFerme(requete[p]), requete[p].s = Personne
        PROVE  FALSE
    BY <2>2, PersonneNEstAbonne DEF IInv, Types, TypesDesRequetes, Forme, OuvreOuFerme
  <2>3. ~TravailEntame'
    BY <1>5 DEF TravailEntame
  <2>4. QED
    BY <1>5, <2>1, <2>2, <2>3 DEF SavoirApres, Lister, routeur
<1>10. AccordApres(s)
  <2>1. ~JobEntame(s)
    BY DEF JobEntame, TravailEntame, Lister
  <2>2. QED
    BY <2>1 DEF AccordApres, Lister, routeur, temoins
<1>11. QED
  BY <1>2, <1>8, <1>9, <1>10, PasDAutruiIInv

LEMMA PrendreIInv ==
  ASSUME IInv, NEW s \in Abonnes, Prendre(s)
  PROVE  IInv'
<1> DEFINE autres == {q \in Requetes : SurAcces(q, s)}
<1>1. /\ travail' = [travail EXCEPT !.etape = "fermeture", !.s = s, !.croise = autres # {}]
      /\ requete' = [p \in Requetes |->
           IF p \in autres THEN [requete[p] EXCEPT !.croise = TRUE] ELSE requete[p]]
  BY DEF Prendre
<1>2. /\ requete' \in [Requetes -> EnTravail]
      /\ \A p \in Requetes : Meme(requete'[p], requete[p])
      /\ \A p \in Requetes : p \in autres => requete'[p].croise
  BY <1>1, MarquerOK
<1>3. \A p \in Requetes :
        requete[p].s = s /\ OuvreOuFerme(requete[p]) => p \in autres /\ autres # {}
  BY DEF SurAcces
<1>4. (autres # {}) \in BOOLEAN
  OBVIOUS
<1> HIDE DEF autres
<1>5. travail \in Passes /\ travail.s = Personne
  BY DEF Prendre, IInv, Types, TypesDuTravail, FormePasse
<1>6. /\ travail' \in Passes /\ travail'.s = s /\ travail'.etape = "fermeture"
      /\ travail'.croise = (autres # {})
  BY <1>1, <1>4, <1>5 DEF Passes, EtapesDuTravail
<1>7. TypesDuPartage' /\ SurUnSeul(s) /\ TypesDuTravail'
  BY <1>6 DEF IInv, Types, Prendre, TypesDuPartage, SurUnSeul, routeur, temoins, TypesDuTravail,
              FormePasse
<1>8. PasDAutrui(s)
  BY <1>2, <1>5, <1>6, <1>7, FaitsDesDates DEF PasDAutrui, Prendre, routeur, temoins
<1>9. SavoirApres(s)
  <2>1. ASSUME NEW p \in Requetes, requete[p].s = s
        PROVE  Sait(requete'[p], compte'[s], appareil'[s])
    <3>1. Sait(requete[p], compte[s], appareil[s])
      BY <2>1 DEF IInv, Savoir
    <3>2. QED
      BY <1>2, <3>1, MemeOK DEF Prendre, routeur
  <2>2. ~TravailEntame'
    BY <1>6 DEF TravailEntame
  <2>3. \A p \in Requetes :
          OuvreOuFerme(requete[p]) /\ travail'.s = requete[p].s =>
            requete'[p].croise /\ travail'.croise
    BY <1>2, <1>3, <1>6
  <2>4. QED
    BY <2>1, <2>2, <2>3 DEF SavoirApres
<1>10. AccordApres(s)
  <2>1. ~JobEntame(s)
    BY DEF JobEntame, TravailEntame, Prendre
  <2>2. QED
    BY <2>1 DEF AccordApres, Prendre, routeur, temoins
<1>11. QED
  BY <1>8, <1>9, <1>10, PasDAutruiIInv

-----------------------------------------------------------------------------
(***************************************************************************)
(* The replay, and what happens on the router.                             *)
(***************************************************************************)
LEMMA RejouerIInv ==
  ASSUME IInv, NEW s \in Abonnes, Rejouer(s)
  PROVE  IInv'
<1> DEFINE S == {q \in Requetes : SurAcces(q, s)}
<1>1. TypesDuPartage
  BY DEF IInv, Types
<1>2. /\ requete' \in [Requetes -> EnTravail]
      /\ \A p \in Requetes : Meme(requete'[p], requete[p])
      /\ \A p \in Requetes : p \in S => requete'[p].croise
  <2>1. requete' = [p \in Requetes |->
           IF p \in S THEN [requete[p] EXCEPT !.croise = TRUE] ELSE requete[p]]
    BY DEF Rejouer
  <2>2. QED
    BY <2>1, MarquerOK
<1>3. compte' = [compte EXCEPT ![s].disabled = @ \/ compte[s].existe]
  BY DEF Rejouer
<1>4. /\ compte' \in [Abonnes -> Comptes] /\ compte'[s].existe = compte[s].existe
      /\ compte'[s].existe => compte'[s].disabled
      /\ compte'[s].fin = compte[s].fin
      /\ \A t \in Abonnes \ {s} : compte'[t] = compte[t]
  BY <1>1, <1>3 DEF TypesDuPartage, Comptes
<1>5. trouble' = [trouble EXCEPT ![s] = IF Ouvert(s) THEN @ \union {"differe"} ELSE @]
  BY DEF Rejouer
<1>6. /\ trouble' \in [Abonnes -> SUBSET Motifs]
      /\ Ouvert(s) => "differe" \in trouble'[s]
      /\ trouble[s] \subseteq trouble'[s]
      /\ \A t \in Abonnes \ {s} : trouble'[t] = trouble[t]
  BY <1>1, <1>5 DEF TypesDuPartage, Motifs
<1>7. enFile' \in [Abonnes -> BOOLEAN]
  BY <1>1 DEF Rejouer, TypesDuPartage
<1>8. TypesDuPartage' /\ SurUnSeul(s) /\ TypesDuTravail'
  BY <1>1, <1>4, <1>6, <1>7 DEF IInv, Types, Rejouer, TypesDuPartage, SurUnSeul, TypesDuTravail,
                                 FormePasse
<1>9. PasDAutrui(s)
  BY <1>2, <1>4, <1>8, FaitsDesDates DEF PasDAutrui, Rejouer
<1>10. SavoirApres(s)
  <2>1. ASSUME NEW p \in Requetes, requete[p].s = s
        PROVE  Sait(requete'[p], compte'[s], appareil'[s])
    <3>1. requete'[p].croise \/ ~OuvreOuFerme(requete'[p])
      BY <1>2, <2>1, MemeOK DEF SurAcces
    <3>2. QED
      BY <3>1, SaitRien
  <2>2. TravailEntame /\ ~travail.croise => ~compte'[travail.s].existe \/ compte'[travail.s].disabled
    <3>1. SUFFICES ASSUME TravailEntame, ~travail.croise
                   PROVE  ~compte'[travail.s].existe \/ compte'[travail.s].disabled
      OBVIOUS
    <3>2. travail.s \in Abonnes
      BY <3>1 DEF TravailEntame, IInv, Types, TypesDuTravail, FormePasse
    <3>3. CASE travail.s = s
      BY <1>4, <3>3
    <3>4. CASE travail.s # s
      BY <1>4, <3>1, <3>2, <3>4 DEF IInv, JobSait
    <3>5. QED
      BY <3>3, <3>4
  <2>3. ASSUME NEW p \in Requetes, OuvreOuFerme(requete[p]), travail.s = requete[p].s
        PROVE  requete'[p].croise /\ travail.croise
    BY <1>2, <2>3 DEF IInv, Croisements, TravailSur, Meme
  <2>4. travail' = travail /\ (TravailEntame' <=> TravailEntame)
    BY DEF Rejouer, TravailEntame
  <2>5. QED
    BY <2>1, <2>2, <2>3, <2>4 DEF SavoirApres
<1>11. AccordApres(s)
  <2>1. AccordCompte(abonnement'[s], compte'[s], trouble'[s])
    <3>1. abonnement[s].status \in Statuts
      BY <1>1 DEF TypesDuPartage, Lignes
    <3>2. CASE Ouvert(s)
      BY <1>6, <3>2 DEF AccordCompte, Graves
    <3>3. CASE ~Ouvert(s)
      BY <1>4, <3>1, <3>3 DEF AccordCompte, Ouvert, Statuts, Rejouer
    <3>4. QED
      BY <3>2, <3>3
  <2>2. AccordAppareil(abonnement[s], appareil[s], trouble[s])
          => AccordAppareil(abonnement'[s], appareil'[s], trouble'[s])
    BY <1>6 DEF AccordAppareil, Rejouer
  <2>3. JobEntame(s)' <=> JobEntame(s)
    BY DEF JobEntame, TravailEntame, TravailSur, Rejouer
  <2>4. QED
    BY <2>1, <2>2, <2>3 DEF AccordApres
<1>12. QED
  BY <1>9, <1>10, <1>11, PasDAutruiIInv

\* The router changes by itself: an account that goes, or whose calendar starts.
LEMMA RouteurBougeIInv ==
  ASSUME IInv, NEW s \in Abonnes, NEW c \in Comptes, compte' = [compte EXCEPT ![s] = c],
         c.existe => compte[s].existe /\ c.disabled = compte[s].disabled,
         c.fin \in Aucune..Plafond(Faits), pannes' \in 0..MaxPannes,
         UNCHANGED <<abonnement, appareil, enFile, requete, travail, gestes, temoins>>
  PROVE  IInv'
<1>1. TypesDuPartage
  BY DEF IInv, Types
<1>2. /\ compte' \in [Abonnes -> Comptes] /\ compte'[s] = c
      /\ \A t \in Abonnes \ {s} : compte'[t] = compte[t]
  BY <1>1 DEF TypesDuPartage
<1>3. TypesDuPartage' /\ SurUnSeul(s) /\ TypesDuTravail'
  BY <1>1, <1>2 DEF IInv, Types, TypesDuPartage, SurUnSeul, TypesDuTravail, FormePasse, temoins
<1>4. PasDAutrui(s)
  BY <1>2, <1>3, GestesIntacts DEF PasDAutrui, temoins
<1>5. SavoirApres(s)
  <2>1. ASSUME NEW p \in Requetes, requete[p].s = s
        PROVE  Sait(requete[p], compte'[s], appareil[s])
    <3>1. Sait(requete[p], compte[s], appareil[s])
      BY <2>1 DEF IInv, Savoir
    <3>2. QED
      BY <1>2, <3>1 DEF Sait
  <2>2. TravailEntame /\ ~travail.croise => ~compte'[travail.s].existe \/ compte'[travail.s].disabled
    <3>1. SUFFICES ASSUME TravailEntame, ~travail.croise
                   PROVE  ~compte'[travail.s].existe \/ compte'[travail.s].disabled
      OBVIOUS
    <3>2. travail.s \in Abonnes
      BY <3>1 DEF TravailEntame, IInv, Types, TypesDuTravail, FormePasse
    <3>3. ~compte[travail.s].existe \/ compte[travail.s].disabled
      BY <3>1 DEF IInv, JobSait
    <3>4. QED
      BY <1>2, <3>2, <3>3
  <2>3. ASSUME NEW p \in Requetes, OuvreOuFerme(requete[p]), travail.s = requete[p].s
        PROVE  requete[p].croise /\ travail.croise
    BY <2>3 DEF IInv, Croisements, TravailSur
  <2>4. TravailEntame' <=> TravailEntame
    BY DEF TravailEntame
  <2>5. QED
    BY <2>1, <2>2, <2>3, <2>4 DEF SavoirApres
<1>6. AccordApres(s)
  <2>1. AccordCompte(abonnement[s], compte[s], trouble[s])
          => AccordCompte(abonnement'[s], compte'[s], trouble'[s])
    BY <1>2 DEF AccordCompte, temoins
  <2>2. JobEntame(s)' <=> JobEntame(s)
    BY DEF JobEntame, TravailEntame, TravailSur
  <2>3. QED
    BY <2>1, <2>2 DEF AccordApres, temoins
<1>7. QED
  BY <1>4, <1>5, <1>6, PasDAutruiIInv

LEMMA RetirerCompteIInv ==
  ASSUME IInv, NEW s \in Abonnes, RetirerCompte(s)
  PROVE  IInv'
<1> DEFINE c == [existe |-> FALSE, disabled |-> FALSE, fin |-> Aucune]
<1>1. c \in Comptes /\ ~c.existe /\ c.fin = Aucune
  BY Nombres DEF Comptes
<1>2. c.fin \in Aucune..Plafond(Faits)
  BY <1>1, FaitsDesDates, Nombres
<1>3. compte' = [compte EXCEPT ![s] = c]
  BY DEF RetirerCompte
<1> HIDE DEF c
<1>4. pannes' \in 0..MaxPannes
  BY Nombres DEF RetirerCompte, Compter, IInv, Types, TypesDuPartage
<1>5. QED
  BY <1>1, <1>2, <1>3, <1>4, RouteurBougeIInv DEF RetirerCompte

LEMMA SeConnecterIInv ==
  ASSUME IInv, NEW s \in Abonnes, SeConnecter(s)
  PROVE  IInv'
<1> PICK d \in Empilees : compte' = [compte EXCEPT ![s].fin = d]
  BY DEF SeConnecter
<1> DEFINE c == [compte[s] EXCEPT !.fin = d]
<1>1. compte \in [Abonnes -> Comptes] /\ pannes \in 0..MaxPannes
  BY DEF IInv, Types, TypesDuPartage
<1>2. /\ c \in Comptes /\ c.fin = d /\ c.existe = compte[s].existe
      /\ c.disabled = compte[s].disabled
  BY <1>1, LesEmpilees DEF Comptes
<1>3. d \in Aucune..Plafond(Faits)
  BY FaitsDesDates, LesEmpilees, Nombres
<1>4. compte' = [compte EXCEPT ![s] = c]
  BY <1>1
<1> HIDE DEF c
<1>5. QED
  BY <1>1, <1>2, <1>3, <1>4, RouteurBougeIInv DEF SeConnecter

-----------------------------------------------------------------------------
(***************************************************************************)
(* A gesture that begins, time, and the restart.                           *)
(***************************************************************************)
PremierPas(geste, etape, s) ==
  \/ geste = "souscrire" /\ etape = "compte"
  \/ /\ Inscrit(s)
     /\ \/ geste = "renouveler" /\ etape = "lu"
        \/ geste = "suspendre" /\ etape = "fermeture"
        \/ geste = "reprendre" /\ etape = "ouverture"
        \/ geste = "rapprocher" /\ etape = "lecture"
        \/ geste \in {"contourner", "bloquer"} /\ etape = "contournement"

LEMMA CommencerIInv ==
  ASSUME IInv, NEW q \in Requetes, NEW s \in Abonnes, NEW geste, NEW etape,
         PremierPas(geste, etape, s), Commencer(q, geste, etape, s)
  PROVE  IInv'
<1> DEFINE l == abonnement[s].status
           f == abonnement[s].fin
           autres == {p \in Requetes : SurAcces(p, s)}
           r == [Repos EXCEPT !.geste = geste, !.etape = etape, !.s = s, !.lu = l, !.fin = f,
                   !.du = du[s]]
           seul == autres # {} \/ TravailSur(s)
           c == [r EXCEPT !.croise = seul]
           marque(p) == [requete[p] EXCEPT !.croise = TRUE]
           acces == OuvreOuFerme(r)
<1>1. /\ requete' = [p \in Requetes |->
           IF p = q THEN c ELSE IF p \in autres /\ acces THEN marque(p) ELSE requete[p]]
      /\ travail' = [travail EXCEPT !.croise = @ \/ (TravailSur(s) /\ acces)]
      /\ gestes' = gestes + 1 /\ gestes < MaxGestes /\ requete[q].etape = "repos"
      /\ UNCHANGED <<abonnement, routeur, enFile, pannes, temoins>>
  BY DEF Commencer, En
<1>2. /\ TypesDuPartage /\ TypesDuTravail /\ requete \in [Requetes -> EnTravail]
      /\ gestes \in 0..MaxGestes /\ (\A p \in Requetes : Forme(requete[p]))
  BY DEF IInv, Types, TypesDesRequetes
<1>3. l \in Statuts /\ f \in Int /\ du[s] \in Int
  BY <1>2 DEF TypesDuPartage, Lignes
<1>4. geste \in Gestes /\ etape \in Etapes
  BY DEF PremierPas, Gestes, Etapes
<1>5. seul \in BOOLEAN /\ acces \in BOOLEAN
  BY DEF TravailSur, OuvreOuFerme
<1>6. /\ r \in EnTravail /\ r.geste = geste /\ r.etape = etape /\ r.s = s /\ r.lu = l
      /\ r.fin = f /\ r.du = du[s]
  <2>1. Repos \in EnTravail /\ s \in Abonnes \union {Personne}
    BY ReposOK
  <2> HIDE DEF l, f
  <2>2. r \in EnTravail
    BY <1>3, <1>4, <2>1 DEF EnTravail
  <2>3. QED
    BY <2>1, <2>2 DEF EnTravail
<1> HIDE DEF r
<1>7. /\ c \in EnTravail /\ c.geste = geste /\ c.etape = etape /\ c.s = s /\ c.lu = l
      /\ c.fin = f /\ c.du = du[s] /\ c.croise = seul
  BY <1>5, <1>6 DEF EnTravail
<1>8. OuvreOuFerme(c) <=> acces
  BY <1>6, <1>7 DEF OuvreOuFerme
<1>9. ASSUME NEW p \in Requetes
      PROVE  marque(p) \in EnTravail /\ Meme(marque(p), requete[p]) /\ marque(p).croise
  <2>1. requete[p] \in EnTravail
    BY <1>2
  <2>2. marque(p) \in EnTravail /\ marque(p).croise
    BY <2>1 DEF EnTravail
  <2>3. Meme(marque(p), requete[p])
    BY <2>1 DEF EnTravail, Meme
  <2>4. QED
    BY <2>2, <2>3
<1>10. \A p \in Requetes : requete[p].s = s /\ OuvreOuFerme(requete[p]) <=> p \in autres
  BY DEF SurAcces
<1>11. (autres # {} => seul) /\ (TravailSur(s) => seul)
  OBVIOUS
<1> HIDE DEF marque, c, autres, seul, acces, l, f
<1>12. /\ requete' \in [Requetes -> EnTravail] /\ requete'[q] = c
       /\ \A p \in Requetes \ {q} : Meme(requete'[p], requete[p])
       /\ acces => \A p \in Requetes \ {q} : p \in autres => requete'[p].croise
  BY <1>1, <1>2, <1>7, <1>9, MemeSoi
<1>13. /\ requete[q].geste = "aucun" /\ requete[q].s = Personne /\ ~OuvreOuFerme(requete[q])
       /\ ~EntameCompte(requete[q]) /\ ~EntameAppareil(requete[q])
  <2>1. requete[q].geste = "aucun" /\ requete[q].s = Personne
    BY <1>1, <1>2 DEF Forme
  <2>2. QED
    BY <1>1, <2>1 DEF OuvreOuFerme, EntameAppareil, EntameCompte, AOuvert, AFerme
<1>14. /\ ~EntameCompte(c) /\ ~EntameAppareil(c) /\ ~AOuvert(c) /\ ~AFerme(c) /\ ~ABloque(c)
       /\ Forme(c) /\ c.geste # "aucun" /\ (geste # "souscrire" => Inscrit(s))
  BY <1>7 DEF PremierPas, Forme, EntameAppareil, EntameCompte, AOuvert, AFerme, ABloque
<1>15. /\ travail' \in Passes /\ travail'.etape = travail.etape /\ travail'.s = travail.s
       /\ travail.croise => travail'.croise
       /\ TravailSur(s) /\ acces => travail'.croise
  <2>1. travail \in Passes /\ (travail.croise \/ (TravailSur(s) /\ acces)) \in BOOLEAN
    BY <1>2, <1>5 DEF TypesDuTravail, Passes, TravailSur
  <2>2. QED
    BY <1>1, <2>1 DEF Passes
<1>16. Types'
  <2>1. TypesDuPartage'
    BY <1>1, <1>2 DEF TypesDuPartage, routeur, temoins
  <2>2. \A p \in Requetes : Forme(requete'[p])
    BY <1>2, <1>12, <1>14, MemeOK
  <2>3. TypesDuTravail'
    BY <1>2, <1>15 DEF TypesDuTravail, FormePasse
  <2>4. gestes' \in 0..MaxGestes
    BY <1>1, <1>2, Nombres
  <2>5. QED
    BY <1>12, <2>1, <2>2, <2>3, <2>4 DEF Types, TypesDesRequetes, Forme
<1>17. Bornes'
  <2>1. IsFiniteSet(EnAttente) /\ Cardinality(EnAttente) \in Nat /\ Cardinality(EnAttente) <= gestes
    BY FS_CardinalityType DEF IInv, Bornes
  <2>2. q \notin EnAttente
    BY <1>1 DEF EnAttente, Avant
  <2>3. EnAttente' = IF etape \in Avant THEN EnAttente \union {q} ELSE EnAttente
    BY <1>7, <1>12, <2>2 DEF EnAttente, Meme
  <2>4. /\ IsFiniteSet(EnAttente') /\ Cardinality(EnAttente') \in Nat
        /\ Cardinality(EnAttente') \in {Cardinality(EnAttente), Cardinality(EnAttente) + 1}
    <3>1. CASE etape \in Avant
      BY <2>1, <2>2, <2>3, <3>1, FS_AddElement, FS_CardinalityType
    <3>2. CASE etape \notin Avant
      BY <2>1, <2>3, <3>2
    <3>3. QED
      BY <3>1, <3>2
  <2>5. gestes \in Nat /\ gestes' = gestes + 1
    BY <1>1, FaitsDesDates
  <2>6. Faits \in Nat /\ Faits' \in Nat /\ Faits <= Faits' /\ Cardinality(EnAttente') <= gestes'
    BY <2>1, <2>4, <2>5, FaitsDesDates DEF Faits
  <2>7. Plafond(Faits)' = Plafond(Faits')
    BY DEF Plafond
  <2>8. /\ Plafond(Faits) \in Nat /\ Plafond(Faits') \in Nat /\ Plafond(Faits) <= Plafond(Faits')
    BY <2>6, PlafondCroit, PlafondMonotone
  <2>9. /\ \A t \in Abonnes : /\ abonnement'[t].fin \in Fond..Plafond(Faits')
                              /\ compte'[t].fin \in Aucune..Plafond(Faits')
    BY <1>1, <2>8, FaitsDesDates, Nombres DEF routeur
  <2>10. BorneDeRequete(c, Plafond(Faits'))
    <3>1. f \in Fond..Plafond(Faits)
      BY FaitsDesDates DEF f
    <3>2. QED
      BY <1>7, <2>8, <3>1, Nombres DEF BorneDeRequete
  <2>11. ASSUME NEW p \in Requetes \ {q}
         PROVE  BorneDeRequete(requete'[p], Plafond(Faits'))
    <3>1. BorneDeRequete(requete'[p], Plafond(Faits))
      BY <1>12, MemeOK, FaitsDesDates
    <3>2. QED
      BY <2>8, <3>1, Nombres DEF BorneDeRequete
  <2>12. \A p \in Requetes : BorneDeRequete(requete'[p], Plafond(Faits'))
    BY <1>12, <2>10, <2>11
  <2>13. QED
    BY <2>4, <2>6, <2>7, <2>9, <2>12 DEF Bornes, BorneDeRequete
<1>18. RenouvellementsTenus' /\ PeriodesPayees'
  <2>1. PeriodesPayees'
    BY <1>1 DEF IInv, PeriodesPayees, temoins
  <2>2. perte[s] \/ f >= du[s]
    BY DEF IInv, PeriodesPayees, f
  <2>3. ASSUME NEW p \in Requetes, requete'[p].geste = "renouveler"
        PROVE  perte'[requete'[p].s] \/ requete'[p].fin >= requete'[p].du
    <3>1. CASE p = q
      BY <1>1, <1>7, <1>12, <2>2, <3>1 DEF temoins
    <3>2. CASE p # q
      BY <1>1, <1>12, <2>3, <3>2 DEF temoins, Meme, IInv, RenouvellementsTenus
    <3>3. QED
      BY <3>1, <3>2
  <2>4. QED
    BY <2>1, <2>3 DEF RenouvellementsTenus
<1>19. Savoir' /\ JobSait'
  <2>1. ASSUME NEW p \in Requetes, requete'[p].s \in Abonnes
        PROVE  Sait(requete'[p], compte[requete'[p].s], appareil[requete'[p].s])
    <3>1. CASE p = q
      BY <1>12, <1>14, <3>1 DEF Sait
    <3>2. CASE p # q
      BY <1>12, <2>1, <3>2, MemeOK DEF Meme, IInv, Savoir
    <3>3. QED
      BY <3>1, <3>2
  <2>2. Savoir'
    BY <1>1, <2>1 DEF routeur, Savoir, Sait, AOuvert, AFerme, ABloque
  <2>3. JobSait'
    BY <1>1, <1>15 DEF routeur, IInv, JobSait, TravailEntame
  <2>4. QED
    BY <2>2, <2>3
<1>20. Croisements'
  <2>1. \A p \in Requetes \ {q} : /\ OuvreOuFerme(requete'[p]) <=> OuvreOuFerme(requete[p])
                                  /\ requete'[p].s = requete[p].s
                                  /\ requete[p].croise => requete'[p].croise
    BY <1>12, MemeOK DEF Meme
  <2>2. ASSUME NEW p \in Requetes, NEW t \in Requetes, p # t, requete'[p].s = requete'[t].s,
               OuvreOuFerme(requete'[p]), OuvreOuFerme(requete'[t])
        PROVE  requete'[t].croise
    <3>1. CASE t = q
      <4>1. p \in autres
        BY <1>7, <1>10, <1>12, <2>1, <2>2, <3>1
      <4>2. QED
        BY <1>7, <1>11, <1>12, <3>1, <4>1
    <3>2. CASE p = q
      <4>1. t \in autres /\ acces
        BY <1>7, <1>8, <1>10, <1>12, <2>1, <2>2, <3>2
      <4>2. QED
        BY <1>12, <2>2, <3>2, <4>1
    <3>3. CASE p # q /\ t # q
      BY <2>1, <2>2, <3>3 DEF IInv, Croisements
    <3>4. QED
      BY <3>1, <3>2, <3>3
  <2>3. ASSUME NEW p \in Requetes, OuvreOuFerme(requete'[p]), travail'.s = requete'[p].s
        PROVE  requete'[p].croise /\ travail'.croise
    <3>1. CASE p = q
      BY <1>7, <1>8, <1>11, <1>12, <1>15, <2>3, <3>1 DEF TravailSur
    <3>2. CASE p # q
      BY <1>15, <2>1, <2>3, <3>2 DEF TravailSur, IInv, Croisements
    <3>3. QED
      BY <3>1, <3>2
  <2>4. QED
    BY <2>2, <2>3 DEF Croisements, TravailSur, OuvreOuFerme
<1>21. CompteSuit' /\ AppareilSuit'
  <2>1. \A t \in Abonnes : JobEntame(t)' <=> JobEntame(t)
    BY <1>15 DEF JobEntame, TravailSur, TravailEntame
  <2>2. ASSUME NEW t \in Abonnes, ~JobEntame(t)',
               \A p \in Requetes : requete'[p].s = t => ~EntameCompte(requete'[p])
        PROVE  AccordCompte(abonnement[t], compte[t], trouble[t])
    <3>1. \A p \in Requetes : requete[p].s = t => ~EntameCompte(requete[p])
      BY <1>12, <1>13, <2>2, MemeOK DEF Meme
    <3>2. QED
      BY <2>1, <2>2, <3>1 DEF CompteLibre, IInv, CompteSuit
  <2>3. ASSUME NEW t \in Abonnes, ~JobEntame(t)',
               \A p \in Requetes : requete'[p].s = t => ~EntameAppareil(requete'[p])
        PROVE  AccordAppareil(abonnement[t], appareil[t], trouble[t])
    <3>1. \A p \in Requetes : requete[p].s = t => ~EntameAppareil(requete[p])
      BY <1>12, <1>13, <2>3, MemeOK DEF Meme
    <3>2. QED
      BY <2>1, <2>3, <3>1 DEF AppareilLibre, IInv, AppareilSuit
  <2>4. CompteSuit'
    BY <1>1, <2>2 DEF CompteSuit, CompteLibre, AccordCompte, EntameCompte, AOuvert, AFerme,
                      routeur, temoins
  <2>5. AppareilSuit'
    BY <1>1, <2>3 DEF AppareilSuit, AppareilLibre, AccordAppareil, EntameAppareil, EntameCompte,
                      AOuvert, AFerme, routeur, temoins
  <2>6. QED
    BY <2>4, <2>5
<1>22. DejaInscrits'
  <2>1. ASSUME NEW p \in Requetes, requete'[p].geste \notin {"aucun", "souscrire"}
        PROVE  abonnement[requete'[p].s].status # "ABSENT"
    <3>1. CASE p = q
      BY <1>7, <1>12, <1>14, <2>1, <3>1 DEF Inscrit
    <3>2. CASE p # q
      BY <1>12, <2>1, <3>2 DEF Meme, IInv, DejaInscrits, Inscrit
    <3>3. QED
      BY <3>1, <3>2
  <2>2. QED
    BY <1>1, <2>1 DEF DejaInscrits, Inscrit
<1>23. QED
  BY <1>16, <1>17, <1>18, <1>19, <1>20, <1>21, <1>22 DEF IInv

LEMMA TickIInv ==
  ASSUME IInv, Tick
  PROVE  IInv'
<1> DEFINE h == Plafond(Faits)
           ligne(s) == [abonnement[s] EXCEPT !.fin = Vieillir(@)]
           cpt(s) == [compte[s] EXCEPT !.fin = Vieillir(@)]
           req(q) == [requete[q] EXCEPT !.fin = Vieillir(@), !.du = Vieillir(@)]
<1>1. /\ TypesDuPartage /\ TypesDuTravail /\ requete \in [Requetes -> EnTravail]
      /\ \A q \in Requetes : Forme(requete[q])
  BY DEF IInv, Types, TypesDesRequetes
<1>2. /\ abonnement' = [s \in Abonnes |-> ligne(s)]
      /\ compte' = [s \in Abonnes |-> cpt(s)]
      /\ requete' = [q \in Requetes |-> req(q)]
      /\ du' = [s \in Abonnes |-> Vieillir(du[s])]
      /\ UNCHANGED <<appareil, enFile, travail, gestes, pannes, trouble, perte>>
  BY DEF Tick
<1>3. ASSUME NEW s \in Abonnes
      PROVE  /\ ligne(s) \in Lignes /\ ligne(s).status = abonnement[s].status
             /\ ligne(s).fin = Vieillir(abonnement[s].fin)
             /\ cpt(s) \in Comptes /\ cpt(s).existe = compte[s].existe
             /\ cpt(s).disabled = compte[s].disabled /\ cpt(s).fin = Vieillir(compte[s].fin)
  <2>1. abonnement[s] \in Lignes /\ compte[s] \in Comptes
    BY <1>1 DEF TypesDuPartage
  <2>2. Vieillir(abonnement[s].fin) \in Int /\ Vieillir(compte[s].fin) \in Int
    BY <2>1, VieillirDates DEF Lignes, Comptes
  <2>3. QED
    BY <2>1, <2>2 DEF Lignes, Comptes
<1>4. ASSUME NEW q \in Requetes
      PROVE  /\ req(q) \in EnTravail /\ req(q).fin = Vieillir(requete[q].fin)
             /\ req(q).du = Vieillir(requete[q].du) /\ req(q).geste = requete[q].geste
             /\ req(q).etape = requete[q].etape /\ req(q).s = requete[q].s
             /\ req(q).lu = requete[q].lu /\ req(q).croise = requete[q].croise
  <2>1. requete[q] \in EnTravail
    BY <1>1
  <2>2. Vieillir(requete[q].fin) \in Int /\ Vieillir(requete[q].du) \in Int
    BY <2>1, VieillirDates DEF EnTravail
  <2>3. QED
    BY <2>1, <2>2 DEF EnTravail
<1> HIDE DEF ligne, cpt, req
<1>5. \A s \in Abonnes :
        /\ abonnement'[s].status = abonnement[s].status
        /\ abonnement'[s].fin = Vieillir(abonnement[s].fin)
        /\ compte'[s].existe = compte[s].existe /\ compte'[s].disabled = compte[s].disabled
        /\ compte'[s].fin = Vieillir(compte[s].fin)
        /\ du'[s] = Vieillir(du[s])
        /\ abonnement[s].fin \in Int /\ compte[s].fin \in Int /\ du[s] \in Int
  BY <1>1, <1>2, <1>3 DEF TypesDuPartage, Lignes, Comptes
<1>6. \A q \in Requetes :
        /\ requete'[q].fin = Vieillir(requete[q].fin) /\ requete'[q].du = Vieillir(requete[q].du)
        /\ requete'[q].geste = requete[q].geste /\ requete'[q].etape = requete[q].etape
        /\ requete'[q].s = requete[q].s /\ requete'[q].lu = requete[q].lu
        /\ requete'[q].croise = requete[q].croise
        /\ requete[q].fin \in Int /\ requete[q].du \in Int
  BY <1>1, <1>2, <1>4 DEF EnTravail
<1>7. \A q \in Requetes :
        /\ Forme(requete'[q]) /\ (OuvreOuFerme(requete'[q]) <=> OuvreOuFerme(requete[q]))
        /\ AOuvert(requete'[q]) <=> AOuvert(requete[q])
        /\ AFerme(requete'[q]) <=> AFerme(requete[q])
        /\ ABloque(requete'[q]) <=> ABloque(requete[q])
  BY <1>1, <1>6 DEF Forme, OuvreOuFerme, AOuvert, AFerme, ABloque
<1>8. Types'
  <2>1. du' \in [Abonnes -> Int]
    BY <1>2, <1>5, VieillirDates
  <2>2. TypesDuPartage'
    BY <1>1, <1>2, <1>3, <2>1 DEF TypesDuPartage
  <2>3. requete' \in [Requetes -> EnTravail]
    BY <1>2, <1>4
  <2>4. TypesDuTravail' /\ gestes' \in 0..MaxGestes
    BY <1>1, <1>2 DEF TypesDuTravail, FormePasse, IInv, Types
  <2>5. QED
    BY <1>7, <2>2, <2>3, <2>4 DEF Types, TypesDesRequetes, Forme
<1>9. Bornes'
  <2>1. EnAttente' = EnAttente
    BY <1>6 DEF EnAttente
  <2>2. Faits' = Faits /\ Plafond(Faits)' = h
    BY <1>2, <2>1 DEF Faits, Plafond
  <2>3. h \in Nat /\ \A s \in Abonnes : /\ abonnement[s].fin \in Fond..h
                                        /\ compte[s].fin \in Aucune..h
    BY FaitsDesDates
  <2>4. \A q \in Requetes : BorneDeRequete(requete[q], h)
    BY FaitsDesDates
  <2> HIDE DEF h
  <2>5. \A s \in Abonnes : abonnement'[s].fin \in Fond..h /\ compte'[s].fin \in Aucune..h
    <3> SUFFICES ASSUME NEW s \in Abonnes
                 PROVE  abonnement'[s].fin \in Fond..h /\ compte'[s].fin \in Aucune..h
      OBVIOUS
    <3>1. /\ Vieillir(abonnement[s].fin) \in Fond..h
          /\ Vieillir(compte[s].fin) \in Aucune..h
      BY <1>5, <2>3, VieillirDates, Nombres
    <3>2. QED
      BY <1>5, <3>1
  <2>6. \A q \in Requetes : BorneDeRequete(requete'[q], h)
    <3> SUFFICES ASSUME NEW q \in Requetes
                 PROVE  BorneDeRequete(requete'[q], h)
      OBVIOUS
    <3>1. /\ Vieillir(requete[q].fin) \in Int /\ Vieillir(requete[q].fin) <= requete[q].fin
          /\ requete[q].fin >= Fond => Vieillir(requete[q].fin) >= Fond
      BY <1>6, VieillirDates
    <3>2. QED
      BY <1>6, <2>3, <2>4, <3>1, Nombres DEF BorneDeRequete
  <2>7. IsFiniteSet(EnAttente) /\ Cardinality(EnAttente) <= gestes
    BY DEF IInv, Bornes
  <2>8. QED
    BY <1>2, <2>1, <2>2, <2>5, <2>6, <2>7 DEF Bornes, BorneDeRequete
<1>10. RenouvellementsTenus' /\ PeriodesPayees'
  <2>1. ASSUME NEW s \in Abonnes
        PROVE  perte'[s] \/ abonnement'[s].fin >= du'[s]
    <3>1. perte[s] \/ abonnement[s].fin >= du[s]
      BY DEF IInv, PeriodesPayees
    <3>2. abonnement[s].fin >= du[s] => Vieillir(abonnement[s].fin) >= Vieillir(du[s])
      BY <1>5, VieillirDates
    <3>3. QED
      BY <1>2, <1>5, <3>1, <3>2
  <2>2. ASSUME NEW q \in Requetes, requete'[q].geste = "renouveler"
        PROVE  perte'[requete'[q].s] \/ requete'[q].fin >= requete'[q].du
    <3>1. perte[requete[q].s] \/ requete[q].fin >= requete[q].du
      BY <1>6, <2>2 DEF IInv, RenouvellementsTenus
    <3>2. requete[q].fin >= requete[q].du => Vieillir(requete[q].fin) >= Vieillir(requete[q].du)
      BY <1>6, VieillirDates
    <3>3. QED
      BY <1>2, <1>6, <3>1, <3>2
  <2>3. QED
    BY <2>1, <2>2 DEF RenouvellementsTenus, PeriodesPayees
<1>11. Savoir' /\ JobSait'
  <2>1. ASSUME NEW q \in Requetes, requete'[q].s \in Abonnes
        PROVE  Sait(requete'[q], compte'[requete'[q].s], appareil'[requete'[q].s])
    <3>1. Sait(requete[q], compte[requete[q].s], appareil[requete[q].s])
      BY <1>6, <2>1 DEF IInv, Savoir
    <3>2. QED
      BY <1>2, <1>5, <1>6, <1>7, <2>1, <3>1 DEF Sait
  <2>2. JobSait'
    <3>1. TravailEntame => travail.s \in Abonnes
      BY <1>1 DEF TypesDuTravail, FormePasse, TravailEntame
    <3>2. QED
      BY <1>2, <1>5, <3>1 DEF IInv, JobSait, TravailEntame
  <2>3. QED
    BY <2>1, <2>2 DEF Savoir, Sait, AOuvert, AFerme, ABloque
<1>12. Croisements'
  <2>1. ASSUME NEW p \in Requetes, NEW t \in Requetes, p # t, requete'[p].s = requete'[t].s,
               OuvreOuFerme(requete'[p]), OuvreOuFerme(requete'[t])
        PROVE  requete'[t].croise
    BY <1>6, <1>7, <2>1 DEF IInv, Croisements
  <2>2. ASSUME NEW p \in Requetes, OuvreOuFerme(requete'[p]), travail'.s = requete'[p].s
        PROVE  requete'[p].croise /\ travail'.croise
    BY <1>2, <1>6, <1>7, <2>2 DEF IInv, Croisements, TravailSur
  <2>3. QED
    BY <2>1, <2>2 DEF Croisements, TravailSur, OuvreOuFerme
<1>13. \A q \in Requetes :
         /\ EntameCompte(requete'[q]) <=> EntameCompte(requete[q])
         /\ EntameAppareil(requete'[q]) <=> EntameAppareil(requete[q])
  BY <1>6, <1>7 DEF EntameCompte, EntameAppareil
<1>14. \A s \in Abonnes : JobEntame(s)' <=> JobEntame(s)
  BY <1>2 DEF JobEntame, TravailSur, TravailEntame
<1>15. CompteSuit'
  <2> SUFFICES ASSUME NEW t \in Abonnes, CompteLibre(t)'
               PROVE  AccordCompte(abonnement'[t], compte'[t], trouble'[t])
    BY DEF CompteSuit, AccordCompte
  <2>1. /\ ~JobEntame(t)'
        /\ \A p \in Requetes : requete'[p].s = t => ~EntameCompte(requete'[p])
    BY DEF CompteLibre, EntameCompte, AOuvert, AFerme
  <2>2. CompteLibre(t)
    BY <1>6, <1>13, <1>14, <2>1 DEF CompteLibre
  <2>3. AccordCompte(abonnement[t], compte[t], trouble[t])
    BY <2>2 DEF IInv, CompteSuit
  <2>4. QED
    BY <1>2, <1>5, <2>3 DEF AccordCompte
<1>16. AppareilSuit'
  <2> SUFFICES ASSUME NEW t \in Abonnes, AppareilLibre(t)'
               PROVE  AccordAppareil(abonnement'[t], appareil'[t], trouble'[t])
    BY DEF AppareilSuit, AccordAppareil
  <2>1. /\ ~JobEntame(t)'
        /\ \A p \in Requetes : requete'[p].s = t => ~EntameAppareil(requete'[p])
    BY DEF AppareilLibre, EntameAppareil, EntameCompte, AOuvert, AFerme
  <2>2. AppareilLibre(t)
    BY <1>6, <1>13, <1>14, <2>1 DEF AppareilLibre
  <2>3. AccordAppareil(abonnement[t], appareil[t], trouble[t])
    BY <2>2 DEF IInv, AppareilSuit
  <2>4. QED
    BY <1>2, <1>5, <2>3 DEF AccordAppareil
<1>17. DejaInscrits'
  <2> SUFFICES ASSUME NEW q \in Requetes, requete'[q].geste \notin {"aucun", "souscrire"}
               PROVE  abonnement'[requete'[q].s].status # "ABSENT"
    BY DEF DejaInscrits, Inscrit
  <2>1. requete[q].s \in Abonnes /\ abonnement[requete[q].s].status # "ABSENT"
    BY <1>1, <1>6 DEF IInv, DejaInscrits, Inscrit, Forme
  <2>2. QED
    BY <1>5, <1>6, <2>1
<1>18. QED
  BY <1>8, <1>9, <1>10, <1>11, <1>12, <1>15, <1>16, <1>17 DEF IInv

LEMMA RedemarrerIInv ==
  ASSUME IInv, Redemarrer
  PROVE  IInv'
<1>1. \A q \in Requetes : requete'[q] = Repos
  BY DEF Redemarrer
<1>2. TypesDuPartage
  BY DEF IInv, Types
<1>3. travail' = SansTravail /\ UNCHANGED <<abonnement, routeur, enFile, gestes, perte, du>>
  BY DEF Redemarrer
<1>4. \A s \in Abonnes : trouble'[s] = trouble[s] \union Coupes(s)
  BY DEF Redemarrer
<1>5. \A s \in Abonnes : Coupes(s) \in SUBSET Motifs
  BY DEF Coupes, Motifs
<1>6. Types'
  <2>1. trouble' \in [Abonnes -> SUBSET Motifs]
    <3>1. trouble' = [s \in Abonnes |-> trouble[s] \union Coupes(s)]
      BY DEF Redemarrer
    <3>2. \A s \in Abonnes : trouble[s] \union Coupes(s) \in SUBSET Motifs
      BY <1>2, <1>5 DEF TypesDuPartage
    <3>3. QED
      BY <3>1, <3>2
  <2>2. pannes' \in 0..MaxPannes
    BY <1>2, Nombres DEF Redemarrer, Compter, TypesDuPartage
  <2>3. TypesDuPartage'
    BY <1>2, <1>3, <2>1, <2>2 DEF TypesDuPartage, routeur
  <2>4. requete' \in [Requetes -> EnTravail]
    BY ReposOK DEF Redemarrer
  <2>5. \A q \in Requetes : Forme(requete'[q])
    BY <1>1, ReposOK
  <2>6. TypesDuTravail' /\ gestes' \in 0..MaxGestes
    BY <1>3, SansTravailOK DEF TypesDuTravail, FormePasse, IInv, Types
  <2>7. QED
    BY <2>3, <2>4, <2>5, <2>6 DEF Types, TypesDesRequetes, Forme
<1>7. Bornes'
  <2>1. EnAttente' = {}
    BY <1>1, ReposOK DEF EnAttente, Avant
  <2>2. IsFiniteSet({}) /\ Cardinality({}) = 0
    BY FS_EmptySet
  <2>3. Cardinality(EnAttente) \in Nat
    BY FS_CardinalityType DEF IInv, Bornes
  <2>4. gestes \in Nat /\ Faits \in Nat
    BY FaitsDesDates
  <2>5. Faits' = gestes /\ Faits <= gestes
    BY <1>3, <2>1, <2>2, <2>3, <2>4 DEF Faits
  <2>6. Plafond(Faits)' = Plafond(gestes)
    BY <2>5 DEF Plafond
  <2>7. Plafond(Faits) \in Nat /\ Plafond(gestes) \in Nat /\ Plafond(Faits) <= Plafond(gestes)
    BY <2>4, <2>5, PlafondCroit, PlafondMonotone
  <2>8. \A s \in Abonnes : /\ abonnement'[s].fin \in Fond..Plafond(gestes)
                           /\ compte'[s].fin \in Aucune..Plafond(gestes)
    BY <1>3, <2>7, FaitsDesDates, Nombres DEF routeur
  <2>9. \A q \in Requetes : BorneDeRequete(requete'[q], Plafond(gestes))
    BY <1>1, <2>7, ReposOK, Nombres DEF BorneDeRequete
  <2>10. IsFiniteSet(EnAttente') /\ Cardinality(EnAttente') <= gestes'
    BY <1>3, <2>1, <2>2, <2>4
  <2>11. QED
    BY <2>6, <2>8, <2>9, <2>10 DEF Bornes, BorneDeRequete
<1>8. RenouvellementsTenus' /\ PeriodesPayees'
  BY <1>1, <1>3, ReposOK DEF RenouvellementsTenus, PeriodesPayees, IInv
<1>9. Savoir' /\ JobSait' /\ Croisements' /\ DejaInscrits'
  <2>1. Savoir'
    BY <1>1, ReposOK, PersonneNEstAbonne DEF Savoir
  <2>2. JobSait'
    BY <1>3, SansTravailOK DEF JobSait, TravailEntame
  <2>3. \A q \in Requetes : ~OuvreOuFerme(requete'[q])
    BY <1>1, ReposOK
  <2>4. Croisements'
    BY <2>3 DEF Croisements, OuvreOuFerme
  <2>5. DejaInscrits'
    BY <1>1, ReposOK DEF DejaInscrits
  <2>6. QED
    BY <2>1, <2>2, <2>4, <2>5
<1>10. ASSUME NEW s \in Abonnes
       PROVE  /\ AccordCompte(abonnement'[s], compte'[s], trouble'[s])
              /\ AccordAppareil(abonnement'[s], appareil'[s], trouble'[s])
  <2>1. CASE "coupe" \in Coupes(s)
    <3>1. "coupe" \in trouble'[s]
      BY <1>4, <2>1
    <3>2. QED
      BY <3>1 DEF AccordCompte, AccordAppareil, Graves
  <2>2. CASE "coupe" \notin Coupes(s)
    <3>1. \A q \in Requetes : requete[q].s = s => ~Entame(q)
      BY <2>2 DEF Coupes
    <3>2. ~JobEntame(s)
      BY <2>2 DEF Coupes, JobEntame
    <3>3. \A q \in Requetes : requete[q].s = s => ~EntameAppareil(requete[q])
      BY <3>1, EntameCouvre
    <3>4. CompteLibre(s) /\ AppareilLibre(s)
      BY <3>2, <3>3 DEF CompteLibre, AppareilLibre, EntameAppareil
    <3>5. /\ AccordCompte(abonnement[s], compte[s], trouble[s])
          /\ AccordAppareil(abonnement[s], appareil[s], trouble[s])
      BY <3>4 DEF IInv, CompteSuit, AppareilSuit
    <3>6. QED
      BY <1>3, <1>4, <3>5 DEF AccordCompte, AccordAppareil, routeur
  <2>3. QED
    BY <2>1, <2>2
<1>11. CompteSuit' /\ AppareilSuit'
  BY <1>10 DEF CompteSuit, AppareilSuit, AccordCompte, AccordAppareil
<1>12. QED
  BY <1>6, <1>7, <1>8, <1>9, <1>11 DEF IInv

-----------------------------------------------------------------------------
LEMMA InitIInv == Init => IInv
<1> SUFFICES ASSUME Init
             PROVE  IInv
  OBVIOUS
<1>1. \A q \in Requetes : requete[q] = Repos
  BY DEF Init
<1>2. /\ \A s \in Abonnes :
           /\ abonnement[s].status \in {"ABSENT", "ACTIVE"}
           /\ abonnement[s].fin \in {Fond, Periode} /\ du[s] = abonnement[s].fin
           /\ compte[s].fin \in {Aucune, Periode} /\ compte[s].disabled = FALSE
      /\ travail = SansTravail /\ gestes = 0 /\ pannes = 0
  BY DEF Init
<1>3. Types
  <2>1. abonnement \in [Abonnes -> Lignes] /\ compte \in [Abonnes -> Comptes]
    <3>1. /\ [status |-> "ACTIVE", fin |-> Periode] \in Lignes
          /\ [status |-> "ABSENT", fin |-> Fond] \in Lignes
      BY Nombres DEF Lignes, Statuts
    <3>2. \A s \in Abonnes : [existe |-> s \in Anciens, disabled |-> FALSE,
                             fin |-> IF s \in Anciens THEN Periode ELSE Aucune] \in Comptes
      BY Nombres DEF Comptes
    <3>3. QED
      BY <3>1, <3>2 DEF Init
  <2>2. appareil \in [Abonnes -> Appareils] /\ enFile \in [Abonnes -> BOOLEAN]
    BY DEF Init, Appareils
  <2>3. trouble \in [Abonnes -> SUBSET Motifs] /\ perte \in [Abonnes -> BOOLEAN]
    BY DEF Init
  <2>4. du \in [Abonnes -> Int]
    BY Nombres DEF Init
  <2>5. gestes \in 0..MaxGestes /\ pannes \in 0..MaxPannes
    BY <1>2, Nombres
  <2>6. TypesDesRequetes
    BY <1>1, ReposOK DEF Init, TypesDesRequetes
  <2>7. TypesDuTravail
    BY <1>2, SansTravailOK DEF TypesDuTravail
  <2>8. QED
    BY <2>1, <2>2, <2>3, <2>4, <2>5, <2>6, <2>7 DEF Types, TypesDuPartage
<1>4. Bornes
  <2>1. EnAttente = {}
    BY <1>1, ReposOK DEF EnAttente, Avant
  <2>2. IsFiniteSet(EnAttente) /\ Cardinality(EnAttente) = 0
    BY <2>1, FS_EmptySet
  <2>3. Faits = 0
    BY <1>2, <2>2 DEF Faits
  <2>4. Plafond(Faits) \in Nat /\ Plafond(Faits) >= Periode
    BY <2>3, PlafondCroit
  <2>5. QED
    BY <1>1, <1>2, <2>2, <2>4, ReposOK, Nombres DEF Bornes, BorneDeRequete
<1>5. RenouvellementsTenus /\ PeriodesPayees
  BY <1>1, <1>2, ReposOK, Nombres DEF RenouvellementsTenus, PeriodesPayees
<1>6. Savoir /\ JobSait /\ Croisements /\ DejaInscrits
  BY <1>1, <1>2, ReposOK, SansTravailOK, PersonneNEstAbonne
     DEF Savoir, JobSait, TravailEntame, Croisements, DejaInscrits
<1>7. CompteSuit /\ AppareilSuit
  BY <1>2 DEF CompteSuit, AppareilSuit, AccordCompte, AccordAppareil
<1>8. QED
  BY <1>3, <1>4, <1>5, <1>6, <1>7 DEF IInv

LEMMA NextIInv == IInv /\ [Next]_vars => IInv'
<1> SUFFICES ASSUME IInv, [Next]_vars
             PROVE  IInv'
  OBVIOUS
<1>1. ASSUME NEW q \in Requetes, NEW s \in Abonnes,
             \/ Souscrire(q, s) \/ Renouveler(q, s) \/ Suspendre(q, s) \/ Reprendre(q, s)
             \/ Rapprocher(q, s) \/ Contourner(q, s) \/ Bloquer(q, s)
      PROVE  IInv'
  <2>1. CASE Souscrire(q, s)
    BY <2>1, CommencerIInv DEF Souscrire, PremierPas
  <2>2. CASE Renouveler(q, s)
    BY <2>2, CommencerIInv DEF Renouveler, PremierPas
  <2>3. CASE Suspendre(q, s)
    BY <2>3, CommencerIInv DEF Suspendre, PremierPas, Ouvert, Inscrit
  <2>4. CASE Reprendre(q, s)
    BY <2>4, CommencerIInv DEF Reprendre, PremierPas
  <2>5. CASE Rapprocher(q, s)
    BY <2>5, CommencerIInv DEF Rapprocher, PremierPas
  <2>6. CASE Contourner(q, s)
    BY <2>6, CommencerIInv DEF Contourner, PremierPas
  <2>7. CASE Bloquer(q, s)
    BY <2>7, CommencerIInv DEF Bloquer, PremierPas
  <2>8. QED
    BY <1>1, <2>1, <2>2, <2>3, <2>4, <2>5, <2>6, <2>7
<1>2. ASSUME NEW q \in Requetes, Poursuivre(q)
      PROVE  IInv'
  <2>1. CASE CreerCompte(q) \/ Attribuer(q) \/ Creer(q) \/ Calculer(q)
    BY <2>1, CreerCompteIInv, AttribuerIInv, CreerIInv, CalculerIInv
  <2>2. CASE Ouvrir(q) \/ Fermer(q) \/ Couper(q) \/ PousserAppareils(q)
    BY <2>2, OuvrirIInv, FermerIInv, CouperIInv, PousserAppareilsIInv
  <2>3. CASE \/ AttributionEchouee(q) \/ EcrireRenouvellement(q) \/ EcrireSuspension(q)
             \/ EcrireReprise(q)
    BY <2>3, AttributionEchoueeIInv, EcrireRenouvellementIInv, EcrireSuspensionIInv,
       EcrireRepriseIInv
  <2>4. CASE LireRouteur(q) \/ Aligner(q) \/ EcrireBinding(q) \/ Memoriser(q)
    BY <2>4, LireRouteurIInv, AlignerIInv, EcrireBindingIInv, MemoriserIInv
  <2>5. QED
    BY <1>2, <2>1, <2>2, <2>3, <2>4 DEF Poursuivre
<1>3. ASSUME NEW q \in Requetes, Echouer(q)
      PROVE  IInv'
  BY <1>3, EchouerIInv
<1>4. CASE Travailler
  BY <1>4, ListerIInv, PrendreIInv, FermerTravailIInv, CouperTravailIInv, SuspendreTravailIInv
     DEF Travailler
<1>5. CASE Differer \/ EchouerTravail
  BY <1>5, DiffererIInv
<1>6. ASSUME NEW s \in Abonnes, Rejouer(s) \/ RetirerCompte(s) \/ SeConnecter(s)
      PROVE  IInv'
  BY <1>6, RejouerIInv, RetirerCompteIInv, SeConnecterIInv
<1>7. CASE Tick \/ Redemarrer
  BY <1>7, TickIInv, RedemarrerIInv
<1>8. CASE UNCHANGED vars
  <2>1. UNCHANGED <<abonnement, compte, appareil, enFile, requete, travail, gestes, pannes,
                    trouble, perte, du>>
    BY <1>8 DEF vars, routeur, temoins
  <2>2. Types' /\ Bornes' /\ RenouvellementsTenus' /\ PeriodesPayees'
    BY <2>1 DEF IInv, Types, TypesDuPartage, TypesDesRequetes, TypesDuTravail, FormePasse, Forme,
                Bornes, BorneDeRequete, EnAttente, Faits, Plafond, RenouvellementsTenus,
                PeriodesPayees
  <2>3. Savoir' /\ JobSait' /\ Croisements' /\ DejaInscrits'
    BY <2>1 DEF IInv, Savoir, JobSait, Croisements, DejaInscrits, Sait, AOuvert, AFerme, ABloque,
                OuvreOuFerme, TravailSur, TravailEntame, Inscrit
  <2>4. CompteSuit' /\ AppareilSuit'
    BY <2>1 DEF IInv, CompteSuit, AppareilSuit, AccordCompte, AccordAppareil, CompteLibre,
                AppareilLibre, JobEntame, TravailSur, TravailEntame, EntameAppareil,
                EntameCompte, AOuvert, AFerme
  <2>5. QED
    BY <2>2, <2>3, <2>4 DEF IInv
<1>9. QED
  BY <1>1, <1>2, <1>3, <1>4, <1>5, <1>6, <1>7, <1>8 DEF Next

\* The inductive invariant holds in every reachable state.
THEOREM Invariance == Spec => []IInv
<1>1. Init => IInv
  BY InitIInv
<1>2. IInv /\ [Next]_vars => IInv'
  BY NextIInv
<1>3. QED
  BY <1>1, <1>2, PTL DEF Spec

\* A gesture in progress cannot have put a date past the periods that were bought.
LEMMA DatesBornees ==
  ASSUME IInv
  PROVE  /\ \A s \in Abonnes : abonnement[s].fin \in Fond..Plafond(MaxGestes)
         /\ \A s \in Abonnes : compte[s].fin \in Aucune..Plafond(MaxGestes)
         /\ \A q \in Requetes : requete[q].fin \in Fond..Plafond(MaxGestes)
<1>1. /\ Faits \in Nat /\ Faits <= MaxGestes /\ gestes \in Nat
      /\ \A s \in Abonnes : /\ abonnement[s].fin \in Fond..Plafond(Faits)
                            /\ compte[s].fin \in Aucune..Plafond(Faits)
      /\ \A q \in Requetes : BorneDeRequete(requete[q], Plafond(Faits))
  BY FaitsDesDates
<1>2. /\ Plafond(Faits) \in Nat /\ Plafond(MaxGestes) \in Nat
      /\ Plafond(Faits) <= Plafond(MaxGestes) /\ Plafond(Faits + 1) = Plafond(Faits) + Rachat
  BY <1>1, Nombres, PlafondCroit, PlafondMonotone
<1>3. /\ \A s \in Abonnes : abonnement[s].fin \in Fond..Plafond(MaxGestes)
      /\ \A s \in Abonnes : compte[s].fin \in Aucune..Plafond(MaxGestes)
  BY <1>1, <1>2, Nombres
<1>4. ASSUME NEW q \in Requetes
      PROVE  requete[q].fin \in Fond..Plafond(MaxGestes)
  <2>1. CASE requete[q].etape \in {"ouverture", "appareils", "attribution"}
    <3>1. q \in EnAttente
      BY <2>1 DEF EnAttente, Avant
    <3>2. Cardinality(EnAttente) \in Nat /\ Cardinality(EnAttente) # 0
      <4>1. IsFiniteSet(EnAttente)
        BY DEF IInv, Bornes
      <4>2. QED
        BY <3>1, <4>1, FS_EmptySet, FS_CardinalityType
    <3>3. gestes <= MaxGestes
      BY Nombres DEF IInv, Types
    <3>4. Faits + 1 <= MaxGestes
      BY <1>1, <3>2, <3>3, Nombres DEF Faits
    <3>5. Plafond(Faits + 1) <= Plafond(MaxGestes)
      BY <1>1, <3>4, Nombres, PlafondMonotone
    <3>6. QED
      BY <1>1, <1>2, <3>5, Nombres DEF BorneDeRequete
  <2>2. CASE requete[q].etape \notin {"ouverture", "appareils", "attribution"}
    BY <1>1, <1>2, <2>2, Nombres DEF BorneDeRequete
  <2>3. QED
    BY <2>1, <2>2
<1>5. QED
  BY <1>3, <1>4

\* The row, the router, the device, the gestures and the job keep their types, and no
\* date, on the row, on the router or in a gesture, is farther than a period for each
\* time that the assignment of a gesture may have been sent (renew, withControlledRetry).
THEOREM Typage == Spec => []TypeOK
<1>1. IInv => TypeOK
  <2> SUFFICES ASSUME IInv
               PROVE  TypeOK
    OBVIOUS
  <2>1. Dates = Aucune..Plafond(MaxGestes)
    BY DEF Dates, Plafond
  <2>2. Plafond(MaxGestes) \in Nat
    BY Nombres, PlafondCroit
  <2>3. \A d \in Fond..Plafond(MaxGestes) : d \in Dates \ {Aucune}
    BY <2>1, <2>2, Nombres
  <2>4. abonnement \in [Abonnes -> [status : Statuts, fin : Dates \ {Aucune}]]
    <3>1. \A s \in Abonnes : abonnement[s] \in Lignes /\ abonnement[s].fin \in Dates \ {Aucune}
      BY <2>3, DatesBornees DEF IInv, Types, TypesDuPartage
    <3>2. \A s \in Abonnes : abonnement[s] \in [status : Statuts, fin : Dates \ {Aucune}]
      BY <3>1 DEF Lignes
    <3>3. QED
      BY <3>2 DEF IInv, Types, TypesDuPartage
  <2>5. compte \in [Abonnes -> [existe : BOOLEAN, disabled : BOOLEAN, fin : Dates]]
    <3>1. \A s \in Abonnes : compte[s] \in Comptes /\ compte[s].fin \in Dates
      BY <2>1, DatesBornees DEF IInv, Types, TypesDuPartage
    <3>2. \A s \in Abonnes : compte[s] \in [existe : BOOLEAN, disabled : BOOLEAN, fin : Dates]
      BY <3>1 DEF Comptes
    <3>3. QED
      BY <3>2 DEF IInv, Types, TypesDuPartage
  <2>6. \A q \in Requetes : requete[q].etape \in Etapes /\ requete[q].fin \in Dates \ {Aucune}
    BY <2>3, DatesBornees DEF IInv, Types, TypesDesRequetes, EnTravail
  <2>7. /\ travail.etape \in {"repos", "choix", "fermeture", "coupure", "suspension"}
        /\ travail.liste \subseteq Abonnes
    BY DEF IInv, Types, TypesDuTravail, Passes, EtapesDuTravail
  <2>8. (travail.s = Personne) = (travail.etape \in {"repos", "choix"})
    <3>1. travail.s = Personne <=> travail.etape \in {"repos", "choix"}
      BY PersonneNEstAbonne DEF IInv, Types, TypesDuTravail, FormePasse
    <3>2. QED
      BY <3>1
  <2>9. /\ appareil \in [Abonnes -> [type : {"aucun", "bypassed", "blocked"}, suivi : BOOLEAN]]
        /\ enFile \in [Abonnes -> BOOLEAN]
        /\ gestes \in 0..MaxGestes /\ pannes \in 0..MaxPannes
        /\ \A s \in Abonnes :
             trouble[s] \subseteq {"coupe", "croise", "differe", "tard", "travail", "expres"}
    BY DEF IInv, Types, TypesDuPartage, Appareils, Motifs
  <2>10. QED
    BY <2>4, <2>5, <2>6, <2>7, <2>8, <2>9 DEF TypeOK, Statuts
<1>2. QED
  BY <1>1, Invariance, PTL

\* A subscription never ends earlier than the renewals that were recorded add up to,
\* whatever the router refused and whoever suspended, resumed or reconciled in between.
THEOREM PeriodesJamaisPerdues == Spec => []PeriodesPayees
<1>1. IInv => PeriodesPayees
  BY DEF IInv
<1>2. QED
  BY <1>1, Invariance, PTL

\* When nobody is at work on a subscription, its account and its devices do what its
\* row says, unless one of the named troubles has happened to it.
THEOREM RouteurSuitLaLigne == Spec => []AccesSuitStatut
<1>1. IInv => AccesSuitStatut
  <2> SUFFICES ASSUME IInv, NEW s \in Abonnes, Inscrit(s), AuCalme(s),
                      trouble[s] \intersect {"coupe", "croise", "differe", "tard"} = {}
               PROVE  /\ compte[s].existe =>
                           (compte[s].disabled <=> abonnement[s].status = "SUSPENDED")
                      /\ abonnement[s].status = "SUSPENDED" /\ appareil[s].suivi
                           /\ trouble[s] = {} => appareil[s].type = "blocked"
    BY DEF AccesSuitStatut
  <2>1. CompteLibre(s) /\ AppareilLibre(s)
    BY DEF AuCalme, CompteLibre, AppareilLibre, JobEntame
  <2>2. /\ AccordCompte(abonnement[s], compte[s], trouble[s])
        /\ AccordAppareil(abonnement[s], appareil[s], trouble[s])
    BY <2>1 DEF IInv, CompteSuit, AppareilSuit
  <2>3. QED
    BY <2>2 DEF AccordCompte, AccordAppareil, Graves, Inscrit
<1>2. QED
  BY <1>1, Invariance, PTL
=============================================================================
