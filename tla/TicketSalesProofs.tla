------------------------- MODULE TicketSalesProofs -------------------------
(***************************************************************************)
(* Proofs about TicketSales, for any references, customers, codes, routers *)
(* and requests in progress, and however many of them are interrupted.     *)
(***************************************************************************)
EXTENDS TicketSales, TLAPS

Suites == {"rien", "activation", "vente", "CANCELLED", "DISABLED"}

\* InscrireCompte goes to the step that "suite" names.
Pas == Etapes \union Suites

\* Every step of a verification is taken for a payment.
UneRequete ==
  {x \in [etape : Pas, r : References \union {SansReference}, v : Int,
          c : Clients \union {SansClient}, ou : Routeurs \union {SansRouteur}, suite : Suites] :
     x.etape \in EtapesDeVerification => x.r \in References}

LesRequetes == [Requetes -> UneRequete]

UnPaiement ==
  [status : {"ABSENT", "PENDING", "VERIFIED", "REJECTED"},
   customerId : Clients \union {SansClient}, voucherId : Int, renews : Int,
   routerId : Routeurs \union {SansRouteur}]

LesPaiements == [References -> UnPaiement]

\* As much typing as the argument needs.
Registre ==
  /\ requete \in LesRequetes
  /\ paiement \in LesPaiements
  /\ reclames \in [References -> Nat]
  /\ periodes \in [References -> Nat]
  /\ renvois \in [References -> Nat]

NonReclames == {"ABSENT", "PENDING"}

\* A payment that waits was never claimed: the claim is what ends the waiting,
\* and nothing restores it.
EnAttenteNonReclame ==
  \A r \in References : paiement[r].status \in NonReclames => reclames[r] = 0

\* Who is about to prolong holds the only claim, and the period is still to add.
ProlongeUneFois ==
  \A q \in Requetes : En(q, "prolongation") /\ requete[q].r \in References =>
    /\ reclames[requete[q].r] = 1
    /\ periodes[requete[q].r] <= renvois[requete[q].r]

SeulAProlonger ==
  \A p, q \in Requetes :
    En(p, "prolongation") /\ En(q, "prolongation") /\ requete[p].r \in References
    /\ requete[p].r = requete[q].r => p = q

(***************************************************************************)
(* The inductive invariant: the counters alone are not inductive, because  *)
(* a claim is only the first one if the status still says so, and a period *)
(* is only the first one if no other request is about to add it.           *)
(***************************************************************************)
IInv ==
  /\ Registre
  /\ EnAttenteNonReclame
  /\ ProlongeUneFois
  /\ SeulAProlonger
  /\ VerifieUneFois

-----------------------------------------------------------------------------
(* Steps that neither claim nor prolong.                                   *)

\* Nobody comes to the step "prolongation".
Sages ==
  /\ requete' \in LesRequetes
  /\ \A q \in Requetes : requete'[q].etape = "prolongation" => requete'[q] = requete[q]

Ordinaire ==
  /\ Sages
  /\ paiement' \in LesPaiements
  /\ \A r \in References : paiement'[r].status \in NonReclames => paiement[r].status \in NonReclames
  /\ UNCHANGED <<reclames, periodes, renvois>>

LEMMA OrdinaireIInv ==
  ASSUME IInv, Ordinaire
  PROVE  IInv'
<1> USE DEF IInv, Ordinaire, Sages
<1>1. Registre'
  BY DEF Registre
<1>2. EnAttenteNonReclame'
  BY DEF EnAttenteNonReclame
<1>3. ProlongeUneFois'
  BY DEF ProlongeUneFois, En
<1>4. SeulAProlonger'
  BY DEF SeulAProlonger, En
<1>5. VerifieUneFois'
  BY DEF VerifieUneFois
<1>6. QED
  BY <1>1, <1>2, <1>3, <1>4, <1>5

LEMMA AllerSage ==
  ASSUME requete \in LesRequetes, NEW q \in Requetes, NEW e \in Pas, e # "prolongation", Aller(q, e),
         e \in EtapesDeVerification => requete[q].etape \in EtapesDeVerification
  PROVE  Sages
<1>1. requete' \in LesRequetes
  BY DEF LesRequetes, UneRequete, Aller
<1>2. ASSUME NEW p \in Requetes, requete'[p].etape = "prolongation"
      PROVE  requete'[p] = requete[p]
  BY <1>2 DEF LesRequetes, UneRequete, Aller
<1>3. QED
  BY <1>1, <1>2 DEF Sages

\* A request that starts, ends or is rewritten as a whole.
LEMMA EcrireSage ==
  ASSUME requete \in LesRequetes, NEW q \in Requetes, NEW rec \in UneRequete, rec.etape # "prolongation",
         requete' = [requete EXCEPT ![q] = rec]
  PROVE  Sages
  BY DEF LesRequetes, Sages

LEMMA ReposType == Repos \in UneRequete /\ Repos.etape # "prolongation"
<1>1. /\ "repos" \in Pas /\ SansCode \in Int /\ "rien" \in Suites
      /\ SansReference \in References \union {SansReference}
      /\ SansClient \in Clients \union {SansClient}
      /\ SansRouteur \in Routeurs \union {SansRouteur}
  BY DEF SansCode, Suites, Pas, Etapes
<1>2. Repos \in UneRequete
  BY <1>1 DEF Repos, UneRequete, EtapesDeVerification
<1>3. QED
  BY <1>2 DEF Repos

LEMMA FinirSage ==
  ASSUME requete \in LesRequetes, NEW q \in Requetes, Finir(q)
  PROVE  Sages
<1>1. requete' = [requete EXCEPT ![q] = Repos]
  BY DEF Finir
<1>2. QED
  BY <1>1, ReposType, EcrireSage

LEMMA ImmobileSage ==
  ASSUME requete \in LesRequetes, UNCHANGED requete
  PROVE  Sages
  BY DEF Sages

LEMMA LesPas == Etapes \subseteq Pas /\ Suites \subseteq Pas
  BY DEF Pas

LEMMA LesCodes == Codes \subseteq Int /\ Noms \subseteq Int /\ SansCode \in Int
  BY ConstantesVentes DEF ConstantesVentes, Codes, SansCode

LEMMA SansEcriture ==
  ASSUME IInv, Sages, UNCHANGED <<paiement, reclames, periodes, renvois>>
  PROVE  Ordinaire
  BY DEF IInv, Registre, Ordinaire

\* The public page, up to the payment.
LEMMA DeclarerIInv ==
  ASSUME IInv, NEW q \in Requetes, NEW r \in References, NEW c \in Clients, NEW v \in Noms,
         NEW ou \in Pages, Declarer(q, r, c, v, ou)
  PROVE  Ordinaire
<1> DEFINE rec == [Repos EXCEPT !.etape = "identifiant", !.r = r, !.v = v, !.c = c, !.ou = ou]
<1>1. "identifiant" \in Pas /\ "rien" \in Suites /\ v \in Int /\ ou \in Routeurs \union {SansRouteur}
  BY LesCodes, PagesConnues DEF PagesConnues, Pas, Etapes, Suites
<1>2. rec \in UneRequete /\ rec.etape # "prolongation"
  BY <1>1, ReposType DEF UneRequete, EtapesDeVerification
<1>3. requete' = [requete EXCEPT ![q] = rec]
  BY DEF Declarer
<1>4. Sages
  BY <1>2, <1>3, EcrireSage DEF IInv, Registre
<1>5. QED
  BY <1>4, SansEcriture DEF Declarer, temoins

LEMMA IdentifiantIInv ==
  ASSUME IInv, NEW q \in Requetes, ChercherIdentifiant(q) \/ Reserver(q)
  PROVE  Ordinaire
<1>1. {"reservation", "rachat", "rattachement"} \subseteq Pas \ EtapesDeVerification
  BY DEF Pas, Etapes, EtapesDeVerification
<1>2. Aller(q, "reservation") \/ Aller(q, "rachat") \/ Aller(q, "rattachement") \/ Finir(q)
  BY DEF ChercherIdentifiant, Reserver
<1>3. Sages
  BY <1>1, <1>2, AllerSage, FinirSage DEF IInv, Registre
<1>4. QED
  BY <1>3, SansEcriture DEF ChercherIdentifiant, Reserver, temoins

LEMMA CreerPaiementIInv ==
  ASSUME IInv, NEW q \in Requetes, NEW v \in Int, NEW w \in Int, CreerPaiement(q, v, w)
  PROVE  Ordinaire
<1>1. Sages
  BY FinirSage DEF CreerPaiement, IInv, Registre
<1>2. requete[q].c \in Clients \union {SansClient} /\ requete[q].ou \in Routeurs \union {SansRouteur}
  BY DEF IInv, Registre, LesRequetes, UneRequete
<1>3. paiement' \in LesPaiements
  BY <1>2 DEF CreerPaiement, IInv, Registre, LesPaiements, UnPaiement
<1>4. \A r \in References : paiement'[r].status \in NonReclames => paiement[r].status \in NonReclames
  BY DEF CreerPaiement, IInv, Registre, LesPaiements, UnPaiement, NonReclames
<1>5. QED
  BY <1>1, <1>3, <1>4 DEF Ordinaire, CreerPaiement, temoins

LEMMA EnregistrerIInv ==
  ASSUME IInv, NEW r \in References, NEW c \in Clients, Enregistrer(r, c)
  PROVE  Ordinaire
<1>1. Sages
  BY ImmobileSage DEF Enregistrer, IInv, Registre
<1>2. PasDePaiement.routerId = SansRouteur /\ SansCode \in Int
  BY DEF PasDePaiement, SansCode
<1>3. paiement' \in LesPaiements
  BY <1>2 DEF Enregistrer, PasDePaiement, IInv, Registre, LesPaiements, UnPaiement
<1>4. \A s \in References : paiement'[s].status \in NonReclames => paiement[s].status \in NonReclames
  BY DEF Enregistrer, IInv, Registre, LesPaiements, UnPaiement, NonReclames
<1>5. QED
  BY <1>1, <1>3, <1>4 DEF Ordinaire, Enregistrer, temoins

LEMMA RattacherIInv ==
  ASSUME IInv, NEW q \in Requetes, Rattacher(q) \/ Racheter(q)
  PROVE  Ordinaire
<1>1. requete[q].v \in Int /\ SansCode \in Int
  BY DEF IInv, Registre, LesRequetes, UneRequete, SansCode
<1>2. QED
  BY <1>1, CreerPaiementIInv DEF Rattacher, Racheter

\* The verification, up to the sale.
LEMMA VerifierIInv ==
  ASSUME IInv, NEW q \in Requetes, NEW r \in References, Verifier(q, r)
  PROVE  Ordinaire
<1> DEFINE e == CASE paiement[r].renews # SansCode -> "reabonnement"
                  [] paiement[r].voucherId # SansCode -> "activation"
                  [] OTHER -> "choix"
           w == IF paiement[r].renews # SansCode THEN paiement[r].renews ELSE paiement[r].voucherId
           rec == [Repos EXCEPT !.r = r, !.etape = e, !.v = w]
<1>1. e \in {"reabonnement", "activation", "choix"} /\ w \in Int
  BY DEF IInv, Registre, LesPaiements, UnPaiement
<1>2. e \in Pas /\ e # "prolongation"
  BY <1>1 DEF Pas, Etapes, EtapesDeVerification
<1> HIDE DEF e, w
<1>3. rec \in UneRequete /\ rec.etape # "prolongation"
  BY <1>1, <1>2, ReposType DEF UneRequete
<1>4. requete' = [requete EXCEPT ![q] = rec]
  BY DEF Verifier, e, w
<1>5. Sages
  BY <1>3, <1>4, EcrireSage DEF IInv, Registre
<1>6. QED
  BY <1>5, SansEcriture DEF Verifier, temoins

LEMMA ChoisirIInv ==
  ASSUME IInv, NEW q \in Requetes, Choisir(q)
  PROVE  Ordinaire
<1>1. requete[q] \in UneRequete
  BY DEF IInv, Registre, LesRequetes
<1>2. /\ "activation" \in Pas /\ "ouverture" \in Pas /\ "activation" \in Suites
      /\ requete[q].etape \in EtapesDeVerification
  BY DEF Pas, Etapes, EtapesDeVerification, Suites, Choisir, En
<1>3. ASSUME NEW v \in Codes,
             requete' = [requete EXCEPT ![q].v = v, ![q].etape = "activation"]
      PROVE  Sages
  <2> DEFINE rec == [requete[q] EXCEPT !.v = v, !.etape = "activation"]
  <2>1. rec \in UneRequete /\ rec.etape # "prolongation"
    BY <1>1, <1>2, LesCodes DEF UneRequete
  <2>2. requete' = [requete EXCEPT ![q] = rec]
    BY <1>3 DEF IInv, Registre, LesRequetes
  <2>3. QED
    BY <2>1, <2>2, EcrireSage DEF IInv, Registre
<1>4. ASSUME NEW v \in Codes, NEW ou \in Routeurs \union {SansRouteur},
             requete' = [requete EXCEPT ![q].v = v, ![q].etape = "ouverture",
                           ![q].suite = "activation", ![q].ou = ou]
      PROVE  Sages
  <2> DEFINE rec == [requete[q] EXCEPT !.v = v, !.etape = "ouverture", !.suite = "activation", !.ou = ou]
  <2>1. rec \in UneRequete /\ rec.etape # "prolongation"
    BY <1>1, <1>2, LesCodes DEF UneRequete
  <2>2. requete' = [requete EXCEPT ![q] = rec]
    BY <1>4 DEF IInv, Registre, LesRequetes
  <2>3. QED
    BY <2>1, <2>2, EcrireSage DEF IInv, Registre
<1> DEFINE ou == IF paiement[requete[q].r].routerId = SansRouteur THEN Defaut
                 ELSE paiement[requete[q].r].routerId
<1>5. ou \in Routeurs \union {SansRouteur}
  BY <1>1, ConstantesVentes DEF ConstantesVentes, IInv, Registre, LesPaiements, UnPaiement, Choisir, En, UneRequete,
                             EtapesDeVerification
<1> HIDE DEF ou
<1>6. \/ \E v \in Codes : requete' = [requete EXCEPT ![q].v = v, ![q].etape = "activation"]
      \/ \E v \in Codes : requete' = [requete EXCEPT ![q].v = v, ![q].etape = "ouverture",
                             ![q].suite = "activation", ![q].ou = ou]
  BY DEF Choisir, Disponibles, ou
<1>7. Sages
  BY <1>3, <1>4, <1>5, <1>6
<1>8. QED
  BY <1>7, SansEcriture DEF Choisir, temoins

LEMMA OuvrirIInv ==
  ASSUME IInv, NEW q \in Requetes, OuvrirCompte(q) \/ OuvrirHotspot(q) \/ InscrireCompte(q)
  PROVE  Ordinaire
<1>1. /\ "inscription" \in Pas /\ "vente" \in Pas
      /\ requete[q].etape \in EtapesDeVerification
  BY DEF Pas, Etapes, EtapesDeVerification, OuvrirCompte, OuvrirHotspot, InscrireCompte, En
<1>2. requete[q].suite \in Pas /\ requete[q].suite # "prolongation"
  BY DEF IInv, Registre, LesRequetes, UneRequete, Pas, Suites
<1>3. Finir(q) \/ Aller(q, "inscription") \/ Aller(q, "vente") \/ Aller(q, requete[q].suite)
  BY DEF OuvrirCompte, OuvrirHotspot, InscrireCompte, CreerCompte
<1>4. Sages
  BY <1>1, <1>2, <1>3, AllerSage, FinirSage DEF IInv, Registre
<1>5. QED
  BY <1>4, SansEcriture DEF OuvrirCompte, OuvrirHotspot, InscrireCompte, CreerCompte, temoins

LEMMA ActiverIInv ==
  ASSUME IInv, NEW q \in Requetes, Activer(q)
  PROVE  Ordinaire
<1> DEFINE e == IF ticket[requete[q].v].um THEN "vente"
                ELSE IF ticket[requete[q].v].cible THEN "ouverture" ELSE "hotspot"
           rec == [requete[q] EXCEPT !.suite = "vente", !.ou = Defaut, !.etape = e]
<1>1. /\ e \in Pas /\ e # "prolongation" /\ "vente" \in Suites
      /\ requete[q].etape \in EtapesDeVerification
  BY DEF Pas, Etapes, EtapesDeVerification, Suites, Activer, En
<1>2. requete[q] \in UneRequete /\ Defaut \in Routeurs
  BY ConstantesVentes DEF ConstantesVentes, IInv, Registre, LesRequetes
<1> HIDE DEF e
<1>3. rec \in UneRequete /\ rec.etape # "prolongation"
  BY <1>1, <1>2 DEF UneRequete
<1>4. requete' = [requete EXCEPT ![q] = rec] \/ Finir(q)
  BY DEF Activer, e, Finir, IInv, Registre, LesRequetes
<1>5. Sages
  BY <1>3, <1>4, EcrireSage, FinirSage DEF IInv, Registre
<1>6. QED
  BY <1>5, SansEcriture DEF Activer, temoins

LEMMA VendreIInv ==
  ASSUME IInv, NEW q \in Requetes, Vendre(q)
  PROVE  Ordinaire
<1>1. "reclamation" \in Pas /\ requete[q].etape \in EtapesDeVerification
  BY DEF Pas, Etapes, EtapesDeVerification, Vendre, En
<1>2. Sages
  BY <1>1, AllerSage DEF Vendre, IInv, Registre
<1>3. QED
  BY <1>2, SansEcriture DEF Vendre

\* Rejections, retirements, interruptions: a rejection only ends the waiting.
LEMMA RejeterIInv ==
  ASSUME IInv, NEW q \in Requetes, NEW r \in References, Rejeter(q, r)
  PROVE  Ordinaire
<1> DEFINE rec == [Repos EXCEPT !.r = r, !.etape = "rejet"]
<1>1. "rejet" \in Pas
  BY DEF Pas, Etapes, EtapesDeVerification
<1>2. rec \in UneRequete /\ rec.etape # "prolongation"
  BY <1>1, ReposType DEF UneRequete
<1>3. Sages
  BY <1>2, EcrireSage DEF Rejeter, IInv, Registre
<1>4. QED
  BY <1>3, SansEcriture DEF Rejeter, temoins

LEMMA EcrireRejetIInv ==
  ASSUME IInv, NEW q \in Requetes, EcrireRejet(q)
  PROVE  Ordinaire
<1>1. Sages
  BY FinirSage DEF EcrireRejet, IInv, Registre
<1>2. paiement' \in LesPaiements
  <2>1. /\ paiement \in [References -> UnPaiement]
        /\ paiement' = [paiement EXCEPT ![requete[q].r].status = "REJECTED"]
    BY DEF EcrireRejet, IInv, Registre, LesPaiements
  <2>2. \A r \in References : [paiement[r] EXCEPT !.status = "REJECTED"] \in UnPaiement
    BY <2>1 DEF UnPaiement
  <2>3. QED
    BY <2>1, <2>2 DEF LesPaiements
<1>3. \A r \in References : paiement'[r].status \in NonReclames => paiement[r].status \in NonReclames
  BY DEF EcrireRejet, IInv, Registre, LesPaiements, UnPaiement, NonReclames
<1>4. QED
  BY <1>1, <1>2, <1>3 DEF Ordinaire, EcrireRejet, temoins

LEMMA RetirerIInv ==
  ASSUME IInv, NEW q \in Requetes, NEW v \in Codes, NEW s \in {"CANCELLED", "DISABLED"},
         Retirer(q, v, s)
  PROVE  Ordinaire
<1> DEFINE e == CASE ticket[v].um -> "revocation"
                  [] ~ticket[v].um /\ ticket[v].status \in {"SOLD", "ACTIVE"} -> "fermeture"
                  [] OTHER -> "retrait"
           rec == [Repos EXCEPT !.v = v, !.suite = s, !.etape = e]
<1>1. e \in {"revocation", "fermeture", "retrait"} /\ v \in Int /\ s \in Suites
  BY LesCodes DEF Suites
<1>2. e \in Pas /\ e # "prolongation" /\ e \notin EtapesDeVerification
  BY <1>1 DEF Pas, Etapes, EtapesDeVerification
<1> HIDE DEF e
<1>3. rec \in UneRequete /\ rec.etape # "prolongation"
  BY <1>1, <1>2, ReposType DEF UneRequete
<1>4. requete' = [requete EXCEPT ![q] = rec]
  BY DEF Retirer, e
<1>5. Sages
  BY <1>3, <1>4, EcrireSage DEF IInv, Registre
<1>6. QED
  BY <1>5, SansEcriture DEF Retirer, temoins

LEMMA FinirIInv ==
  ASSUME IInv, NEW q \in Requetes,
         CouperAcces(q) \/ EcrireRetrait(q) \/ EcrireProlongation(q) \/ Echouer(q)
  PROVE  Ordinaire
<1>1. "retrait" \in Pas \ EtapesDeVerification
  BY DEF Pas, Etapes, EtapesDeVerification
<1>2. Sages
  BY <1>1, AllerSage, FinirSage
  DEF CouperAcces, EcrireRetrait, EcrireProlongation, Echouer, IInv, Registre
<1>3. QED
  BY <1>2, SansEcriture DEF CouperAcces, EcrireRetrait, EcrireProlongation, Echouer, temoins

-----------------------------------------------------------------------------
(* The claims and the prolongation.                                        *)

\* What a claim does, for a sale and for time bought back.
Reclame(q) ==
  LET r == requete[q].r IN
  /\ paiement[r].status = "PENDING"
  /\ paiement' \in LesPaiements /\ paiement'[r].status = "VERIFIED"
  /\ \A s \in References : s # r => paiement'[s] = paiement[s]
  /\ reclames' = [reclames EXCEPT ![r] = @ + 1]
  /\ UNCHANGED <<periodes, renvois>>
  /\ requete' \in LesRequetes
  /\ \A p \in Requetes : p # q => requete'[p] = requete[p]
  /\ requete'[q].etape = "prolongation" => requete'[q].r = r

LEMMA ReclameIInv ==
  ASSUME IInv, NEW q \in Requetes, requete[q].r \in References, Reclame(q)
  PROVE  IInv'
<1> DEFINE r == requete[q].r
<1> USE DEF IInv
\* It waited: nobody had claimed it, nothing was prolonged and nobody was about to.
<1>1. reclames[r] = 0 /\ periodes[r] <= renvois[r]
  BY DEF Reclame, EnAttenteNonReclame, NonReclames, VerifieUneFois, Registre
<1>2. \A p \in Requetes : ~(En(p, "prolongation") /\ requete[p].r = r)
  BY <1>1 DEF ProlongeUneFois, Reclame
<1>3. reclames' \in [References -> Nat] /\ reclames'[r] = 1
      /\ \A s \in References : s # r => reclames'[s] = reclames[s]
  BY <1>1 DEF Reclame, Registre
<1>4. Registre'
  BY <1>3 DEF Registre, Reclame
<1>5. EnAttenteNonReclame'
  BY <1>3 DEF EnAttenteNonReclame, NonReclames, Reclame
<1>6. ProlongeUneFois'
  <2>1. SUFFICES ASSUME NEW p \in Requetes, requete'[p].etape = "prolongation",
                        requete'[p].r \in References
                 PROVE  /\ reclames'[requete'[p].r] = 1
                        /\ periodes'[requete'[p].r] <= renvois'[requete'[p].r]
    BY DEF ProlongeUneFois, En
  <2>2. CASE p = q
    BY <2>1, <2>2, <1>1, <1>3 DEF Reclame
  <2>3. CASE p # q
    BY <2>1, <2>3, <1>2, <1>3 DEF Reclame, ProlongeUneFois, En
  <2>4. QED
    BY <2>2, <2>3
<1>7. SeulAProlonger'
  BY <1>2 DEF SeulAProlonger, Reclame, En
<1>8. VerifieUneFois'
  <2>1. SUFFICES ASSUME NEW s \in References
                 PROVE  reclames'[s] <= 1 /\ periodes'[s] <= reclames'[s] + renvois'[s]
    BY DEF VerifieUneFois
  <2>2. CASE s = r
    BY <2>2, <1>1, <1>3 DEF Reclame, Registre
  <2>3. CASE s # r
    BY <2>3, <1>3 DEF VerifieUneFois, Reclame
  <2>4. QED
    BY <2>2, <2>3
<1>9. QED
  BY <1>4, <1>5, <1>6, <1>7, <1>8

LEMMA ReclamerIInv ==
  ASSUME IInv, NEW q \in Requetes, Reclamer(q)
  PROVE  IInv'
<1>1. requete[q].r \in References
  BY DEF Reclamer, En, IInv, Registre, LesRequetes, UneRequete, EtapesDeVerification
<1>2. Sages /\ Repos.etape # "prolongation"
  BY FinirSage, ReposType DEF Reclamer, IInv, Registre
<1>3. /\ \A p \in Requetes : p # q => requete'[p] = requete[p]
      /\ requete'[q].etape # "prolongation"
  BY <1>2 DEF Reclamer, Finir, IInv, Registre, LesRequetes
<1>4. CASE PeutReclamer(q)
  <2>1. requete[q].v \in Int
    BY DEF IInv, Registre, LesRequetes, UneRequete
  <2>2. /\ paiement' \in LesPaiements /\ paiement'[requete[q].r].status = "VERIFIED"
        /\ \A s \in References : s # requete[q].r => paiement'[s] = paiement[s]
    <3>1. paiement' = [paiement EXCEPT ![requete[q].r].status = "VERIFIED",
                                       ![requete[q].r].voucherId = requete[q].v]
      BY <1>4 DEF Reclamer
    <3>2. paiement[requete[q].r] \in UnPaiement
      BY <1>1 DEF IInv, Registre, LesPaiements, UnPaiement
    <3> DEFINE neuf == [paiement[requete[q].r] EXCEPT !.status = "VERIFIED", !.voucherId = requete[q].v]
    <3>3. neuf \in UnPaiement
      BY <2>1, <3>2 DEF UnPaiement
    <3>4. neuf.status = "VERIFIED"
      BY <3>2 DEF UnPaiement
    <3>5. paiement' = [paiement EXCEPT ![requete[q].r] = neuf]
      BY <1>1, <3>1 DEF IInv, Registre, LesPaiements, UnPaiement
    <3> HIDE DEF neuf
    <3>6. QED
      BY <1>1, <3>3, <3>4, <3>5 DEF IInv, Registre, LesPaiements, UnPaiement
  <2>3. Reclame(q)
    BY <1>2, <1>3, <1>4, <2>2 DEF Reclame, Reclamer, PeutReclamer, Sages
  <2>4. QED
    BY <1>1, <2>3, ReclameIInv
<1>5. CASE ~PeutReclamer(q)
  BY <1>2, <1>5, SansEcriture, OrdinaireIInv DEF Reclamer
<1>6. QED
  BY <1>4, <1>5

LEMMA ReclamerReabonnementIInv ==
  ASSUME IInv, NEW q \in Requetes, ReclamerReabonnement(q)
  PROVE  IInv'
<1>1. requete[q].r \in References
  BY DEF ReclamerReabonnement, En, IInv, Registre, LesRequetes, UneRequete, EtapesDeVerification
<1>2. CASE paiement[requete[q].r].status = "PENDING"
  <2>1. "prolongation" \in Pas
    BY DEF Pas, Etapes, EtapesDeVerification
  <2>2. requete' \in LesRequetes /\ requete'[q].r = requete[q].r
        /\ \A p \in Requetes : p # q => requete'[p] = requete[p]
    BY <1>1, <1>2, <2>1 DEF ReclamerReabonnement, Aller, IInv, Registre, LesRequetes, UneRequete
  <2>3. /\ paiement' \in LesPaiements /\ paiement'[requete[q].r].status = "VERIFIED"
        /\ \A s \in References : s # requete[q].r => paiement'[s] = paiement[s]
    <3>1. /\ paiement \in [References -> UnPaiement]
          /\ paiement' = [paiement EXCEPT ![requete[q].r].status = "VERIFIED"]
      BY <1>2 DEF ReclamerReabonnement, IInv, Registre, LesPaiements
    <3> DEFINE neuf == [paiement[requete[q].r] EXCEPT !.status = "VERIFIED"]
    <3>2. neuf \in UnPaiement /\ neuf.status = "VERIFIED"
      BY <1>1, <3>1 DEF UnPaiement
    <3>3. paiement' = [paiement EXCEPT ![requete[q].r] = neuf]
      BY <1>1, <3>1 DEF UnPaiement
    <3> HIDE DEF neuf
    <3>4. QED
      BY <1>1, <3>1, <3>2, <3>3 DEF LesPaiements
  <2>4. Reclame(q)
    BY <1>2, <2>2, <2>3 DEF Reclame, ReclamerReabonnement
  <2>5. QED
    BY <1>1, <2>4, ReclameIInv
<1>3. CASE paiement[requete[q].r].status # "PENDING"
  <2>1. Sages
    BY <1>3, FinirSage DEF ReclamerReabonnement, IInv, Registre
  <2>2. QED
    BY <1>3, <2>1, SansEcriture, OrdinaireIInv DEF ReclamerReabonnement
<1>4. QED
  BY <1>2, <1>3

LEMMA ProlongerIInv ==
  ASSUME IInv, NEW q \in Requetes, Prolonger(q)
  PROVE  IInv'
<1> DEFINE r == requete[q].r
<1>1. r \in References
  BY DEF Prolonger, En, IInv, Registre, LesRequetes, UneRequete, EtapesDeVerification
<1>2. CASE ~ticket[requete[q].v].um
  <2>1. Sages
    BY <1>2, FinirSage DEF Prolonger, IInv, Registre
  <2>2. QED
    BY <1>2, <2>1, SansEcriture, OrdinaireIInv DEF Prolonger
<1>3. CASE ticket[requete[q].v].um
  <2>1. Aller(q, "ecriture") /\ UNCHANGED <<paiement, reclames>>
    BY <1>3 DEF Prolonger
  <2>0. PICK perdues \in 0..MaxRetries :
          /\ periodes' = [periodes EXCEPT ![r] = @ + 1 + perdues]
          /\ renvois' = [renvois EXCEPT ![r] = @ + perdues]
    BY <1>3 DEF Prolonger
  <2>2. Sages
    <3>1. "ecriture" \in Pas /\ requete[q].etape \in EtapesDeVerification
      BY DEF Pas, Etapes, EtapesDeVerification, Prolonger, En
    <3>2. QED
      BY <2>1, <3>1, AllerSage DEF IInv, Registre
  <2>3. requete'[q].etape # "prolongation"
    BY <2>1 DEF Aller, IInv, Registre, LesRequetes, UneRequete
  \* Only q prolongs for this payment, and it has not done it yet.
  <2>4. reclames[r] = 1 /\ periodes[r] <= renvois[r]
    BY <1>1 DEF Prolonger, IInv, ProlongeUneFois
  <2>5. \A p \in Requetes : requete'[p].etape = "prolongation" =>
          p # q /\ En(p, "prolongation") /\ requete'[p] = requete[p] /\ requete[p].r # r
    BY <1>1, <2>2, <2>3 DEF Sages, Prolonger, IInv, SeulAProlonger, En
  <2>6. /\ periodes' \in [References -> Nat] /\ renvois' \in [References -> Nat]
        /\ periodes'[r] <= 1 + renvois'[r]
        /\ \A s \in References : s # r => periodes'[s] = periodes[s] /\ renvois'[s] = renvois[s]
    BY <1>1, <2>0, <2>4, ConstantesVentes DEF IInv, Registre, ConstantesVentes
  <2>7. Registre' /\ EnAttenteNonReclame'
    BY <2>1, <2>2, <2>6 DEF IInv, Registre, EnAttenteNonReclame, Sages
  <2>8. ProlongeUneFois' /\ SeulAProlonger'
    BY <2>1, <2>5, <2>6 DEF IInv, ProlongeUneFois, SeulAProlonger, En
  <2>9. VerifieUneFois'
    BY <1>1, <2>1, <2>4, <2>6 DEF IInv, VerifieUneFois
  <2>10. QED
    BY <2>7, <2>8, <2>9 DEF IInv
<1>4. QED
  BY <1>2, <1>3

-----------------------------------------------------------------------------
LEMMA InitIInv == Init => IInv
<1> SUFFICES ASSUME Init
             PROVE  IInv
  OBVIOUS
<1>1. requete \in LesRequetes /\ \A q \in Requetes : requete[q].etape # "prolongation"
  BY ReposType DEF Init, LesRequetes
<1>2. PasDePaiement \in UnPaiement
  BY DEF PasDePaiement, UnPaiement, SansCode
<1>3. Registre
  BY <1>1, <1>2 DEF Registre, Init, LesPaiements
<1>4. \A r \in References : reclames[r] = 0 /\ periodes[r] = 0 /\ renvois[r] = 0
  BY DEF Init
<1>5. QED
  BY <1>1, <1>3, <1>4
  DEF IInv, EnAttenteNonReclame, ProlongeUneFois, SeulAProlonger, VerifieUneFois, En

LEMMA AvancerIInv ==
  ASSUME IInv, NEW q \in Requetes, Avancer(q)
  PROVE  IInv'
<1>1. CASE ChercherIdentifiant(q) \/ Reserver(q)
  BY <1>1, IdentifiantIInv, OrdinaireIInv
<1>2. CASE Rattacher(q) \/ Racheter(q)
  BY <1>2, RattacherIInv, OrdinaireIInv
<1>3. CASE Choisir(q)
  BY <1>3, ChoisirIInv, OrdinaireIInv
<1>4. CASE OuvrirCompte(q) \/ OuvrirHotspot(q) \/ InscrireCompte(q)
  BY <1>4, OuvrirIInv, OrdinaireIInv
<1>5. CASE Activer(q)
  BY <1>5, ActiverIInv, OrdinaireIInv
<1>6. CASE Vendre(q)
  BY <1>6, VendreIInv, OrdinaireIInv
<1>7. CASE Reclamer(q)
  BY <1>7, ReclamerIInv
<1>8. CASE ReclamerReabonnement(q)
  BY <1>8, ReclamerReabonnementIInv
<1>9. CASE Prolonger(q)
  BY <1>9, ProlongerIInv
<1>10. CASE EcrireRejet(q)
  BY <1>10, EcrireRejetIInv, OrdinaireIInv
<1>11. CASE CouperAcces(q) \/ EcrireRetrait(q) \/ EcrireProlongation(q)
  BY <1>11, FinirIInv, OrdinaireIInv
<1>12. QED
  BY <1>1, <1>2, <1>3, <1>4, <1>5, <1>6, <1>7, <1>8, <1>9, <1>10, <1>11 DEF Avancer

LEMMA NextIInv == IInv /\ [Next]_vars => IInv'
<1> SUFFICES ASSUME IInv, [Next]_vars
             PROVE  IInv'
  OBVIOUS
<1>1. CASE \E r \in References, c \in Clients : Enregistrer(r, c)
  BY <1>1, EnregistrerIInv, OrdinaireIInv
<1>2. CASE \E q \in Requetes, r \in References, c \in Clients, v \in Noms, ou \in Pages :
             Declarer(q, r, c, v, ou)
  BY <1>2, DeclarerIInv, OrdinaireIInv
<1>3. CASE \E q \in Requetes, r \in References : Verifier(q, r)
  BY <1>3, VerifierIInv, OrdinaireIInv
<1>4. CASE \E q \in Requetes, r \in References : Rejeter(q, r)
  BY <1>4, RejeterIInv, OrdinaireIInv
<1>5. CASE \E q \in Requetes, v \in Codes, s \in {"CANCELLED", "DISABLED"} : Retirer(q, v, s)
  BY <1>5, RetirerIInv, OrdinaireIInv
<1>6. CASE \E q \in Requetes : Avancer(q)
  BY <1>6, AvancerIInv
<1>7. CASE \E q \in Requetes : Echouer(q)
  BY <1>7, FinirIInv, OrdinaireIInv
<1>8. CASE UNCHANGED vars
  BY <1>8, ImmobileSage, SansEcriture, OrdinaireIInv DEF vars, temoins, IInv, Registre
<1>9. QED
  BY <1>1, <1>2, <1>3, <1>4, <1>5, <1>6, <1>7, <1>8 DEF Next

\* The inductive invariant holds in every behaviour.
THEOREM Invariance == Spec => []IInv
  BY InitIInv, NextIInv, PTL DEF Spec

\* However many requests verify, reject and are cut short at the same time, a
\* payment passes to VERIFIED at most once and adds at most one period, plus one
\* per answer of the router that was lost after it had added it (retry.ts sends
\* the assignment again).
THEOREM PaiementVerifieUneFois == Spec => []VerifieUneFois
<1>1. IInv => VerifieUneFois
  BY DEF IInv
<1>2. QED
  BY <1>1, Invariance, PTL

-----------------------------------------------------------------------------
(***************************************************************************)
(* The tickets and their accounts: a second invariant, JInv, says what a   *)
(* request knows of the ticket it works on (Suit), and what payments and   *)
(* tickets say of each other (Livre, Billets).  A name that a customer     *)
(* chose is in the hands of the one request that reserved it, then of the  *)
(* one payment that is bound to it, and no verification changes that.      *)
(***************************************************************************)
UnBillet == [status : Statuts, customerId : Clients \union {SansClient}, um : BOOLEAN, cible : BOOLEAN]
UnReglement ==
  [status : {"ABSENT", "PENDING", "VERIFIED", "REJECTED"}, customerId : Clients \union {SansClient},
   voucherId : Codes \union {SansCode}, renews : Noms \union {SansCode},
   routerId : Pages \union {SansRouteur}]
UneDemande ==
  [etape : Etapes, r : References \union {SansReference}, v : Codes \union {SansCode},
   c : Clients \union {SansClient}, ou : Routeurs \union {SansRouteur}, suite : Suites]

Memoire ==
  /\ ticket \in [Codes -> UnBillet]
  /\ paiement \in [References -> UnReglement]
  /\ comptes \subseteq Codes \X Routeurs \X {"um", "hotspot"} /\ fermes \subseteq comptes
  /\ vendus \in [References -> SUBSET Codes]
  /\ reclames \in [References -> Nat] /\ periodes \in [References -> Nat]
  /\ renvois \in [References -> Nat]
  /\ rompus \subseteq References

Connu(v) == ticket[v].status # "ABSENT"

\* The payments: who, for which ticket, and that no two share one.
Livre ==
  /\ \A r \in References :
       LET p == paiement[r] IN
       /\ IF p.status = "ABSENT" THEN p.voucherId = SansCode /\ p.renews = SansCode
          ELSE p.customerId \in Clients
       /\ p.voucherId # SansCode => Connu(p.voucherId) /\ p.renews = SansCode
       /\ p.renews # SansCode => Connu(p.renews)
  /\ \A r, s \in References :
       paiement[r].voucherId = paiement[s].voucherId => r = s \/ paiement[r].voucherId = SansCode
  /\ VerifieOuvert
  /\ ReserveAuSien

\* The tickets: a name has a customer, an inscribed account exists.
Billets ==
  \A v \in Codes :
    /\ v \in Noms /\ Connu(v) => ticket[v].customerId # SansClient
    /\ ticket[v].um => Comptes(v) # {}

EtapesDeDeclaration == {"identifiant", "reservation", "rattachement", "rachat"}
EtapesDeVente == {"ouverture", "inscription", "activation", "hotspot", "vente", "reclamation"}
EtapesDeRachat == {"reabonnement", "prolongation", "ecriture"}
EtapesDeRetrait == {"revocation", "fermeture", "retrait"}

\* What a request knows of its ticket and of its payment.
Suit(q) ==
  LET d == requete[q] IN
  /\ d.etape \in EtapesDeDeclaration => d.v \in Noms /\ d.c \in Clients /\ d.r \in References
                                           /\ d.ou \in Pages
  /\ d.etape \in {"rattachement", "rachat"} \union EtapesDeVente \union EtapesDeRachat
                   \union EtapesDeRetrait => d.v \in Codes /\ Connu(d.v)
  /\ d.etape = "rattachement" => \A r \in References : paiement[r].voucherId # d.v
  /\ d.etape \in {"choix"} \union EtapesDeVente =>
       /\ d.r \in References
       /\ paiement[d.r].status # "ABSENT" /\ paiement[d.r].renews = SansCode
       /\ d.v \in Noms \/ paiement[d.r].voucherId \in Noms => d.v = paiement[d.r].voucherId
  /\ d.etape = "choix" => d.v = SansCode
  /\ d.etape \in {"ouverture", "inscription"} => d.suite \in {"activation", "vente"} /\ d.ou \in Routeurs
  /\ d.etape = "hotspot" => d.ou \in Routeurs
  /\ d.etape \in {"inscription", "vente", "reclamation"} => Comptes(d.v) # {}
  /\ d.etape = "reclamation" => d.v \in vendus[d.r]
  /\ d.etape \in EtapesDeRachat => d.r \in References /\ paiement[d.r].renews # SansCode
  /\ d.etape \in EtapesDeRetrait => d.suite \in {"CANCELLED", "DISABLED"}
  /\ d.etape = "rejet" => d.r \in References /\ paiement[d.r].status # "ABSENT"

\* A name is reserved by one request.
SeulAReserver ==
  \A p, q \in Requetes :
    En(p, "rattachement") /\ En(q, "rattachement") /\ requete[p].v = requete[q].v => p = q

JInv ==
  /\ Memoire
  /\ requete \in [Requetes -> UneDemande]
  /\ Livre
  /\ Billets
  /\ \A q \in Requetes : Suit(q)
  /\ SeulAReserver

\* What a step may do to the memory without a request noticing.
Elargit ==
  /\ \A v \in Codes : Connu(v) => Connu(v)'
  /\ comptes \subseteq comptes'
  /\ \A r \in References :
       /\ vendus[r] \subseteq vendus'[r]
       /\ paiement[r].status # "ABSENT" =>
            /\ paiement'[r].status # "ABSENT" /\ paiement'[r].renews = paiement[r].renews
            /\ \/ paiement'[r].voucherId = paiement[r].voucherId
               \/ paiement'[r].voucherId \notin Noms /\ paiement[r].voucherId \notin Noms

LEMMA SuitAutres ==
  ASSUME JInv, Elargit, NEW p \in Requetes, requete'[p] = requete[p],
         requete[p].etape = "rattachement" =>
           \A r \in References : paiement'[r].voucherId # requete[p].v
  PROVE  Suit(p)'
<1>. DEFINE d == requete[p]
<1>1. Suit(p) /\ requete'[p] = d
  BY DEF JInv
<1>2. d.etape \in EtapesDeDeclaration => d.v \in Noms /\ d.c \in Clients /\ d.r \in References
                                            /\ d.ou \in Pages
  BY <1>1 DEF Suit
<1>3. d.etape \in {"rattachement", "rachat"} \union EtapesDeVente \union EtapesDeRachat
                   \union EtapesDeRetrait => d.v \in Codes /\ Connu(d.v)'
  BY <1>1 DEF Suit, Elargit
<1>4. d.etape \in {"choix"} \union EtapesDeVente =>
       /\ d.r \in References
       /\ paiement'[d.r].status # "ABSENT" /\ paiement'[d.r].renews = SansCode
       /\ d.v \in Noms \/ paiement'[d.r].voucherId \in Noms => d.v = paiement'[d.r].voucherId
  BY <1>1 DEF Suit, Elargit
<1>5. d.etape \in {"inscription", "vente", "reclamation"} => Comptes(d.v)' # {}
  BY <1>1 DEF Suit, Elargit, Comptes
<1>6. d.etape = "reclamation" => d.v \in vendus'[d.r]
  <2>1. d.etape = "reclamation" => d.r \in References /\ d.v \in vendus[d.r]
    BY <1>1 DEF Suit, EtapesDeVente
  <2>2. QED
    BY <2>1 DEF Elargit
<1>7. d.etape \in EtapesDeRachat => d.r \in References /\ paiement'[d.r].renews # SansCode
  <2>1. d.etape \in EtapesDeRachat =>
          d.r \in References /\ paiement[d.r].renews # SansCode /\ paiement[d.r].status # "ABSENT"
    BY <1>1 DEF Suit, JInv, Livre
  <2>2. QED
    BY <2>1 DEF Elargit
<1>8. d.etape = "rejet" => d.r \in References /\ paiement'[d.r].status # "ABSENT"
  BY <1>1 DEF Suit, Elargit
<1>9. /\ d.etape = "choix" => d.v = SansCode
      /\ d.etape \in {"ouverture", "inscription"} => d.suite \in {"activation", "vente"} /\ d.ou \in Routeurs
      /\ d.etape = "hotspot" => d.ou \in Routeurs
      /\ d.etape \in EtapesDeRetrait => d.suite \in {"CANCELLED", "DISABLED"}
  BY <1>1 DEF Suit
<1>. HIDE DEF d
<1>10. QED
  BY <1>1, <1>2, <1>3, <1>4, <1>5, <1>6, <1>7, <1>8, <1>9 DEF Suit, d

\* A step, as a whole.
LEMMA PasJInv ==
  ASSUME JInv, Elargit, Memoire', Livre', Billets',
         requete' \in [Requetes -> UneDemande],
         \A p \in Requetes :
           \/ Suit(p)'
           \/ /\ requete'[p] = requete[p]
              /\ requete[p].etape = "rattachement" =>
                   \A r \in References : paiement'[r].voucherId # requete[p].v,
         SeulAReserver'
  PROVE  JInv'
<1>1. \A p \in Requetes : Suit(p)'
  BY SuitAutres
<1>2. QED
  BY <1>1 DEF JInv

\* One request is rewritten.
Une(q, w) ==
  /\ requete' = [requete EXCEPT ![q] = w]
  /\ w \in UneDemande

LEMMA UneChange ==
  ASSUME JInv, NEW q \in Requetes, NEW w, Une(q, w)
  PROVE  /\ requete' \in [Requetes -> UneDemande] /\ requete'[q] = w
         /\ \A p \in Requetes : p # q => requete'[p] = requete[p]
         /\ w.etape # "rattachement" => SeulAReserver'
<1>1. /\ requete' \in [Requetes -> UneDemande] /\ requete'[q] = w
      /\ \A p \in Requetes : p # q => requete'[p] = requete[p]
  BY DEF Une, JInv
<1>2. w.etape # "rattachement" => SeulAReserver'
  BY <1>1 DEF SeulAReserver, En, JInv
<1>3. QED
  BY <1>1, <1>2

LEMMA ReposDemande == Repos \in UneDemande /\ Repos.etape = "repos"
BY DEF Repos, UneDemande, Etapes, EtapesDeVerification, Suites

LEMMA LaFin ==
  ASSUME JInv, NEW q \in Requetes, Finir(q)
  PROVE  Une(q, Repos) /\ Suit(q)' /\ Repos.etape # "rattachement"
<1>1. Une(q, Repos)
  BY ReposDemande DEF Finir, Une
<1>2. requete'[q] = Repos
  BY <1>1, UneChange
<1>3. requete'[q].etape = "repos"
  BY <1>2, ReposDemande
<1>4. Suit(q)'
  BY <1>3 DEF Suit, EtapesDeDeclaration, EtapesDeVente, EtapesDeRachat, EtapesDeRetrait
<1>5. QED
  BY <1>1, <1>4, ReposDemande

\* A request goes on to another step and the rest of it stays.
LEMMA LaSuite ==
  ASSUME JInv, NEW q \in Requetes, NEW e \in Etapes, Aller(q, e)
  PROVE  \E w \in UneDemande :
           /\ Une(q, w) /\ w.etape = e /\ w.r = requete[q].r /\ w.v = requete[q].v
           /\ w.c = requete[q].c /\ w.ou = requete[q].ou /\ w.suite = requete[q].suite
<1>. DEFINE w == [requete[q] EXCEPT !.etape = e]
<1>1. requete[q] \in UneDemande /\ requete \in [Requetes -> UneDemande]
  BY DEF JInv
<1>2. w \in UneDemande
  BY <1>1 DEF UneDemande
<1>3. requete' = [requete EXCEPT ![q] = w]
  BY <1>1 DEF Aller
<1>4. /\ w.etape = e /\ w.r = requete[q].r /\ w.v = requete[q].v
      /\ w.c = requete[q].c /\ w.ou = requete[q].ou /\ w.suite = requete[q].suite
  BY <1>1 DEF UneDemande
<1>. HIDE DEF w
<1>5. QED
  BY <1>2, <1>3, <1>4 DEF Une

LEMMA MemeMemoire ==
  ASSUME JInv, UNCHANGED <<ticket, paiement, vendus>>, comptes \subseteq comptes'
  PROVE  Elargit /\ Livre' /\ Billets'
<1>1. Elargit
  BY DEF Elargit, Connu
<1>2. \A v : Comptes(v) # {} => Comptes(v)' # {}
  BY DEF Comptes
<1>3. Livre'
  <2>1. VerifieOuvert'
    BY <1>2 DEF JInv, Livre, VerifieOuvert
  <2>2. ReserveAuSien'
    BY DEF JInv, Livre, ReserveAuSien
  <2>3. QED
    BY <2>1, <2>2 DEF JInv, Livre, Connu
<1>4. Billets'
  BY <1>2 DEF JInv, Billets, Connu
<1>5. QED
  BY <1>1, <1>3, <1>4

\* Steps of one request that leave tickets, payments and sales as they are.
LEMMA RequeteSeule ==
  ASSUME JInv, UNCHANGED <<ticket, paiement, vendus>>, comptes \subseteq comptes', Memoire',
         NEW q \in Requetes, NEW w, Une(q, w), Suit(q)', w.etape # "rattachement"
  PROVE  JInv'
<1>1. Elargit /\ Livre' /\ Billets'
  BY MemeMemoire
<1>2. /\ requete' \in [Requetes -> UneDemande] /\ SeulAReserver'
      /\ \A p \in Requetes : p # q => requete'[p] = requete[p]
  BY UneChange
<1>3. \A p \in Requetes : requete[p].etape = "rattachement" =>
          \A r \in References : paiement'[r].voucherId # requete[p].v
  BY DEF JInv, Suit
<1>4. \A p \in Requetes :
           \/ Suit(p)'
           \/ /\ requete'[p] = requete[p]
              /\ requete[p].etape = "rattachement" =>
                   \A r \in References : paiement'[r].voucherId # requete[p].v
  BY <1>2, <1>3
<1>5. QED
  BY <1>1, <1>2, <1>4, PasJInv

LEMMA MemeRegistres ==
  ASSUME JInv, UNCHANGED <<ticket, paiement, comptes, fermes, vendus, reclames, rompus>>,
         periodes' \in [References -> Nat], renvois' \in [References -> Nat]
  PROVE  Memoire'
BY DEF JInv, Memoire


-----------------------------------------------------------------------------
(* The steps of one request alone.                                         *)

LEMMA Seule ==
  ASSUME JInv, UNCHANGED <<ticket, paiement, routeur, temoins>>,
         NEW q \in Requetes, NEW w, Une(q, w), Suit(q)', w.etape # "rattachement"
  PROVE  JInv'
<1>1. Memoire'
  BY DEF JInv, Memoire, routeur, temoins
<1>2. UNCHANGED <<ticket, paiement, vendus>> /\ comptes \subseteq comptes'
  BY DEF routeur, temoins
<1>3. QED
  BY <1>1, <1>2, RequeteSeule

\* A request that starts: its record is written as a whole.
LEMMA Ecrite ==
  ASSUME JInv, NEW q \in Requetes, NEW w \in UneDemande, requete' = [requete EXCEPT ![q] = w]
  PROVE  Une(q, w) /\ requete'[q] = w
<1>1. Une(q, w)
  BY DEF Une
<1>2. QED
  BY <1>1, UneChange

LEMMA LesEtapes ==
  /\ "repos" \in Etapes /\ "identifiant" \in Etapes /\ "reservation" \in Etapes
  /\ "rattachement" \in Etapes /\ "rachat" \in Etapes /\ "rejet" \in Etapes
  /\ "revocation" \in Etapes /\ "fermeture" \in Etapes /\ "retrait" \in Etapes
  /\ "choix" \in Etapes /\ "ouverture" \in Etapes /\ "inscription" \in Etapes
  /\ "activation" \in Etapes /\ "hotspot" \in Etapes /\ "vente" \in Etapes
  /\ "reclamation" \in Etapes /\ "reabonnement" \in Etapes /\ "prolongation" \in Etapes
  /\ "ecriture" \in Etapes
  BY DEF Etapes, EtapesDeVerification

LEMMA LesSuites ==
  /\ "rien" \in Suites /\ "activation" \in Suites /\ "vente" \in Suites
  /\ "CANCELLED" \in Suites /\ "DISABLED" \in Suites
  BY DEF Suites

LEMMA SansPersonne ==
  /\ SansReference \in References \union {SansReference} /\ SansCode \in Codes \union {SansCode}
  /\ SansClient \in Clients \union {SansClient} /\ SansRouteur \in Routeurs \union {SansRouteur}
OBVIOUS

LEMMA SansCodeHors == SansCode \notin Codes /\ Noms \subseteq Codes
  BY ConstantesVentes DEF ConstantesVentes, Codes, SansCode

LEMMA FinirJInv ==
  ASSUME JInv, NEW q \in Requetes, Finir(q), UNCHANGED <<ticket, paiement, routeur, temoins>>
  PROVE  JInv'
  BY LaFin, Seule

LEMMA DeclarerJInv ==
  ASSUME JInv, NEW q \in Requetes, NEW r \in References, NEW c \in Clients, NEW v \in Noms,
         NEW ou \in Pages, Declarer(q, r, c, v, ou)
  PROVE  JInv'
<1>1. /\ r \in References \union {SansReference} /\ v \in Codes \union {SansCode}
      /\ c \in Clients \union {SansClient} /\ ou \in Routeurs \union {SansRouteur}
  BY SansCodeHors, PagesConnues DEF PagesConnues
<1>. DEFINE w == [Repos EXCEPT !.etape = "identifiant", !.r = r, !.v = v, !.c = c, !.ou = ou]
<1>2. /\ w \in UneDemande
      /\ w.etape = "identifiant" /\ w.r = r /\ w.v = v /\ w.c = c /\ w.ou = ou
  BY <1>1, ReposDemande, LesEtapes DEF UneDemande
<1>. HIDE DEF w
<1>3. Une(q, w) /\ requete'[q] = w
  BY <1>2, Ecrite DEF Declarer, w
<1>4. Suit(q)'
  BY <1>2, <1>3 DEF Suit, EtapesDeDeclaration, EtapesDeVente, EtapesDeRachat, EtapesDeRetrait
<1>5. UNCHANGED <<ticket, paiement, routeur, temoins>> /\ w.etape # "rattachement"
  BY <1>2 DEF Declarer
<1>6. QED
  BY <1>3, <1>4, <1>5, Seule

LEMMA IdentifiantJInv ==
  ASSUME JInv, NEW q \in Requetes, ChercherIdentifiant(q)
  PROVE  JInv'
<1>1. UNCHANGED <<ticket, paiement, routeur, temoins>>
  BY DEF ChercherIdentifiant
<1>2. /\ requete[q].v \in Noms /\ requete[q].c \in Clients /\ requete[q].r \in References
      /\ requete[q].ou \in Pages /\ requete[q].v \in Codes
  BY SansCodeHors DEF JInv, Suit, ChercherIdentifiant, En, EtapesDeDeclaration
<1>3. CASE Aller(q, "reservation")
  <2>1. PICK w \in UneDemande :
          /\ Une(q, w) /\ w.etape = "reservation" /\ w.r = requete[q].r /\ w.v = requete[q].v
          /\ w.c = requete[q].c /\ w.ou = requete[q].ou /\ w.suite = requete[q].suite
    BY <1>3, LaSuite, LesEtapes
  <2>2. requete'[q] = w
    BY <2>1, UneChange
  <2>3. Suit(q)'
    BY <1>2, <2>1, <2>2 DEF Suit, EtapesDeDeclaration, EtapesDeVente, EtapesDeRachat, EtapesDeRetrait
  <2>4. QED
    BY <1>1, <2>1, <2>3, Seule
<1>4. CASE Aller(q, "rachat") /\ Connu(requete[q].v)
  <2>1. PICK w \in UneDemande :
          /\ Une(q, w) /\ w.etape = "rachat" /\ w.r = requete[q].r /\ w.v = requete[q].v
          /\ w.c = requete[q].c /\ w.ou = requete[q].ou /\ w.suite = requete[q].suite
    BY <1>4, LaSuite, LesEtapes
  <2>2. requete'[q] = w
    BY <2>1, UneChange
  <2>3. Connu(w.v)'
    BY <1>1, <1>4, <2>1 DEF Connu
  <2>4. Suit(q)'
    BY <1>2, <2>1, <2>2, <2>3
    DEF Suit, EtapesDeDeclaration, EtapesDeVente, EtapesDeRachat, EtapesDeRetrait
  <2>5. QED
    BY <1>1, <2>1, <2>4, Seule
<1>5. CASE Finir(q)
  BY <1>1, <1>5, FinirJInv
<1>6. QED
  BY <1>3, <1>4, <1>5 DEF ChercherIdentifiant, Connu

LEMMA RejeterJInv ==
  ASSUME JInv, NEW q \in Requetes, NEW r \in References, Rejeter(q, r)
  PROVE  JInv'
<1>. DEFINE w == [Repos EXCEPT !.r = r, !.etape = "rejet"]
<1>1. r \in References \union {SansReference}
  OBVIOUS
<1>2. w \in UneDemande /\ w.etape = "rejet" /\ w.r = r
  BY <1>1, ReposDemande, LesEtapes DEF UneDemande
<1>. HIDE DEF w
<1>3. Une(q, w) /\ requete'[q] = w
  BY <1>2, Ecrite DEF Rejeter, w
<1>4. paiement'[r].status # "ABSENT"
  BY DEF Rejeter
<1>5. Suit(q)'
  BY <1>2, <1>3, <1>4 DEF Suit, EtapesDeDeclaration, EtapesDeVente, EtapesDeRachat, EtapesDeRetrait
<1>6. UNCHANGED <<ticket, paiement, routeur, temoins>> /\ w.etape # "rattachement"
  BY <1>2 DEF Rejeter
<1>7. QED
  BY <1>3, <1>5, <1>6, Seule

LEMMA RetirerJInv ==
  ASSUME JInv, NEW q \in Requetes, NEW v \in Codes, NEW s \in {"CANCELLED", "DISABLED"},
         Retirer(q, v, s)
  PROVE  JInv'
<1>1. PICK e \in {"revocation", "fermeture", "retrait"} :
        requete' = [requete EXCEPT ![q] = [Repos EXCEPT !.v = v, !.suite = s, !.etape = e]]
  BY DEF Retirer
<1>. DEFINE w == [Repos EXCEPT !.v = v, !.suite = s, !.etape = e]
<1>2. e \in Etapes /\ v \in Codes \union {SansCode} /\ s \in Suites
  BY LesEtapes, LesSuites
<1>3. w \in UneDemande /\ w.etape = e /\ w.v = v /\ w.suite = s
  BY <1>2, ReposDemande DEF UneDemande
<1>. HIDE DEF w
<1>4. Une(q, w) /\ requete'[q] = w
  BY <1>1, <1>3, Ecrite DEF w
<1>5. Connu(v)'
  BY DEF Retirer, Connu
<1>6. Suit(q)'
  BY <1>3, <1>4, <1>5 DEF Suit, EtapesDeDeclaration, EtapesDeVente, EtapesDeRachat, EtapesDeRetrait
<1>7. UNCHANGED <<ticket, paiement, routeur, temoins>> /\ w.etape # "rattachement"
  BY <1>3 DEF Retirer
<1>8. QED
  BY <1>4, <1>6, <1>7, Seule

LEMMA VerifierJInv ==
  ASSUME JInv, NEW q \in Requetes, NEW r \in References, Verifier(q, r)
  PROVE  JInv'
<1>1. PICK e \in {"reabonnement", "activation", "choix"}, v \in Codes \union {SansCode} :
        /\ requete' = [requete EXCEPT ![q] = [Repos EXCEPT !.r = r, !.etape = e, !.v = v]]
        /\ e = "reabonnement" => paiement[r].renews # SansCode /\ v = paiement[r].renews
        /\ e # "reabonnement" => paiement[r].renews = SansCode /\ v = paiement[r].voucherId
        /\ e = "activation" <=> e # "reabonnement" /\ v # SansCode
  <2>1. /\ paiement[r].renews \in Codes \union {SansCode}
        /\ paiement[r].voucherId \in Codes \union {SansCode}
        /\ paiement[r].renews # SansCode => paiement[r].voucherId = SansCode
    BY SansCodeHors DEF JInv, Memoire, UnReglement, Livre
  <2>2. CASE paiement[r].renews # SansCode
    <3>1. requete' = [requete EXCEPT ![q] =
            [Repos EXCEPT !.r = r, !.etape = "reabonnement", !.v = paiement[r].renews]]
      BY <2>1, <2>2 DEF Verifier
    <3>2. QED
      BY <2>1, <2>2, <3>1
  <2>3. CASE paiement[r].renews = SansCode /\ paiement[r].voucherId # SansCode
    <3>1. requete' = [requete EXCEPT ![q] =
            [Repos EXCEPT !.r = r, !.etape = "activation", !.v = paiement[r].voucherId]]
      BY <2>3 DEF Verifier
    <3>2. QED
      BY <2>1, <2>3, <3>1
  <2>4. CASE paiement[r].renews = SansCode /\ paiement[r].voucherId = SansCode
    <3>1. requete' = [requete EXCEPT ![q] =
            [Repos EXCEPT !.r = r, !.etape = "choix", !.v = paiement[r].voucherId]]
      BY <2>4 DEF Verifier
    <3>2. QED
      BY <2>1, <2>4, <3>1
  <2>5. QED
    BY <2>2, <2>3, <2>4
<1>. DEFINE w == [Repos EXCEPT !.r = r, !.etape = e, !.v = v]
<1>2. e \in Etapes /\ r \in References \union {SansReference}
  BY LesEtapes
<1>3. w \in UneDemande /\ w.etape = e /\ w.v = v /\ w.r = r
  BY <1>2, ReposDemande DEF UneDemande
<1>. HIDE DEF w
<1>4. Une(q, w) /\ requete'[q] = w
  BY <1>1, <1>3, Ecrite DEF w
<1>5. UNCHANGED <<ticket, paiement, routeur, temoins>> /\ w.etape # "rattachement"
  BY <1>3 DEF Verifier
<1>6. paiement[r].status # "ABSENT"
  BY DEF Verifier
<1>7. v # SansCode => v \in Codes /\ Connu(v)
  BY <1>1 DEF JInv, Livre
<1>8. Suit(q)'
  <2>1. /\ requete'[q].etape = e /\ requete'[q].v = v /\ requete'[q].r = r
        /\ paiement' = paiement /\ (v # SansCode => v \in Codes /\ Connu(v)')
    BY <1>3, <1>4, <1>5, <1>7 DEF Connu
  <2>2. CASE e = "reabonnement"
    BY <1>1, <2>1, <2>2 DEF Suit, EtapesDeDeclaration, EtapesDeVente, EtapesDeRachat, EtapesDeRetrait
  <2>3. CASE e = "activation"
    BY <1>1, <1>6, <2>1, <2>3
    DEF Suit, EtapesDeDeclaration, EtapesDeVente, EtapesDeRachat, EtapesDeRetrait
  <2>4. CASE e = "choix"
    BY <1>1, <1>6, <2>1, <2>4, SansCodeHors
    DEF Suit, EtapesDeDeclaration, EtapesDeVente, EtapesDeRachat, EtapesDeRetrait
  <2>5. QED
    BY <2>2, <2>3, <2>4
<1>9. QED
  BY <1>4, <1>5, <1>8, Seule

LEMMA ActiverJInv ==
  ASSUME JInv, NEW q \in Requetes, Activer(q)
  PROVE  JInv'
<1>1. UNCHANGED <<ticket, paiement, routeur, temoins>>
  BY DEF Activer
<1>2. CASE Finir(q)
  BY <1>1, <1>2, FinirJInv
<1>3. ASSUME NEW e \in {"vente", "ouverture", "hotspot"},
             e = "vente" => ticket[requete[q].v].um,
             requete' = [requete EXCEPT ![q] =
                           [requete[q] EXCEPT !.suite = "vente", !.ou = Defaut, !.etape = e]]
      PROVE  JInv'
  <2>1. requete[q] \in UneDemande /\ Defaut \in Routeurs /\ e \in Etapes /\ "vente" \in Suites
    BY ConstantesVentes, LesEtapes, LesSuites DEF ConstantesVentes, JInv
  <2>2. PICK w \in UneDemande :
          /\ w = [requete[q] EXCEPT !.suite = "vente", !.ou = Defaut, !.etape = e]
          /\ w.etape = e /\ w.suite = "vente" /\ w.ou = Defaut
          /\ w.v = requete[q].v /\ w.r = requete[q].r
    <3>. DEFINE n == [requete[q] EXCEPT !.suite = "vente", !.ou = Defaut, !.etape = e]
    <3>1. /\ n \in UneDemande /\ n.etape = e /\ n.suite = "vente" /\ n.ou = Defaut
          /\ n.v = requete[q].v /\ n.r = requete[q].r
      BY <2>1 DEF UneDemande
    <3>. HIDE DEF n
    <3>2. QED
      BY <3>1 DEF n
  <2>3. Une(q, w) /\ requete'[q] = w
    BY <1>3, <2>2, Ecrite
  <2>4. /\ w.v \in Codes /\ Connu(w.v)' /\ w.r \in References
        /\ paiement'[w.r].status # "ABSENT" /\ paiement'[w.r].renews = SansCode
        /\ w.v \in Noms \/ paiement'[w.r].voucherId \in Noms => w.v = paiement'[w.r].voucherId
    BY <1>1, <2>2 DEF JInv, Suit, Activer, En, EtapesDeVente, Connu
  <2>5. e = "vente" => Comptes(w.v)' # {}
    BY <1>1, <1>3, <2>2, <2>4 DEF JInv, Billets, Comptes, routeur
  <2>6. Suit(q)'
    BY <2>1, <2>2, <2>3, <2>4, <2>5
    DEF Suit, EtapesDeDeclaration, EtapesDeVente, EtapesDeRachat, EtapesDeRetrait
  <2>7. QED
    BY <1>1, <2>2, <2>3, <2>6, Seule
<1>4. \/ Finir(q)
      \/ \E e \in {"vente", "ouverture", "hotspot"} :
           /\ e = "vente" => ticket[requete[q].v].um
           /\ requete' = [requete EXCEPT ![q].suite = "vente", ![q].ou = Defaut, ![q].etape = e]
  BY DEF Activer, Finir
<1>5. \A e \in {"vente", "ouverture", "hotspot"} :
        [requete EXCEPT ![q].suite = "vente", ![q].ou = Defaut, ![q].etape = e] =
        [requete EXCEPT ![q] = [requete[q] EXCEPT !.suite = "vente", !.ou = Defaut, !.etape = e]]
  BY DEF JInv
<1>6. QED
  BY <1>2, <1>3, <1>4, <1>5

\* What follows Prolonger and CouperAcces needs nothing new of the request.
LEMMA SuiteJInv ==
  ASSUME JInv, NEW q \in Requetes, NEW e \in {"ecriture", "retrait"}, Aller(q, e),
         e = "ecriture" => requete[q].etape \in EtapesDeRachat,
         e = "retrait" => requete[q].etape \in EtapesDeRetrait,
         UNCHANGED <<ticket, paiement, comptes, vendus>>, Memoire'
  PROVE  JInv'
<1>1. PICK w \in UneDemande :
        /\ Une(q, w) /\ w.etape = e /\ w.r = requete[q].r /\ w.v = requete[q].v
        /\ w.c = requete[q].c /\ w.ou = requete[q].ou /\ w.suite = requete[q].suite
  BY LaSuite, LesEtapes
<1>2. requete'[q] = w
  BY <1>1, UneChange
<1>3. w.v \in Codes /\ Connu(w.v)'
  BY <1>1 DEF JInv, Suit, Connu
<1>4. e = "ecriture" => w.r \in References /\ paiement'[w.r].renews # SansCode
  BY <1>1 DEF JInv, Suit
<1>5. e = "retrait" => w.suite \in {"CANCELLED", "DISABLED"}
  BY <1>1 DEF JInv, Suit
<1>6. Suit(q)'
  BY <1>1, <1>2, <1>3, <1>4, <1>5
  DEF Suit, EtapesDeDeclaration, EtapesDeVente, EtapesDeRachat, EtapesDeRetrait
<1>7. w.etape # "rattachement" /\ comptes \subseteq comptes'
  BY <1>1
<1>8. QED
  BY <1>1, <1>6, <1>7, RequeteSeule

LEMMA ProlongerJInv ==
  ASSUME JInv, NEW q \in Requetes, Prolonger(q)
  PROVE  JInv'
<1>1. CASE ~ticket[requete[q].v].um
  BY <1>1, FinirJInv DEF Prolonger, temoins
<1>2. CASE ticket[requete[q].v].um
  <2>1. requete[q].etape \in EtapesDeRachat /\ requete[q].r \in References
    BY DEF Prolonger, En, EtapesDeRachat, JInv, Suit
  <2>2. periodes' \in [References -> Nat] /\ renvois' \in [References -> Nat]
    <3>1. PICK perdues \in 0..MaxRetries :
            /\ periodes' = [periodes EXCEPT ![requete[q].r] = @ + 1 + perdues]
            /\ renvois' = [renvois EXCEPT ![requete[q].r] = @ + perdues]
      BY <1>2 DEF Prolonger
    <3>2. QED
      BY <2>1, <3>1, ConstantesVentes DEF JInv, Memoire, ConstantesVentes
  <2>3. Memoire'
    BY <2>2, MemeRegistres DEF Prolonger, routeur
  <2>4. QED
    BY <1>2, <2>1, <2>3, SuiteJInv DEF Prolonger, routeur
<1>3. QED
  BY <1>1, <1>2

LEMMA CouperJInv ==
  ASSUME JInv, NEW q \in Requetes, CouperAcces(q)
  PROVE  JInv'
<1>1. requete[q].etape \in EtapesDeRetrait
  BY DEF CouperAcces, En, EtapesDeRetrait
<1>2. fermes' \subseteq comptes
  BY DEF CouperAcces, JInv, Memoire
<1>3. Memoire'
  BY <1>2 DEF CouperAcces, temoins, JInv, Memoire
<1>4. QED
  BY <1>1, <1>3, SuiteJInv DEF CouperAcces, temoins

LEMMA EchouerJInv ==
  ASSUME JInv, NEW q \in Requetes, Echouer(q)
  PROVE  JInv'
<1>1. rompus' \subseteq References
  BY DEF Echouer, EtapesDeVerification, EtapesDeVente, EtapesDeRachat, JInv, Memoire, Suit
<1>2. Memoire' /\ UNCHANGED <<ticket, paiement, vendus>> /\ comptes \subseteq comptes'
  BY <1>1 DEF Echouer, routeur, JInv, Memoire
<1>3. Une(q, Repos) /\ Suit(q)' /\ Repos.etape # "rattachement"
  BY LaFin DEF Echouer
<1>4. QED
  BY <1>2, <1>3, RequeteSeule

\* A new account on the router: only adds to what the requests know.
LEMMA CreerCompteJInv ==
  ASSUME JInv, NEW q \in Requetes,
         NEW table \in {"um", "hotspot"}, NEW e \in {"inscription", "vente"},
         CreerCompte(q, table, e),
         requete[q].etape \in {"ouverture", "hotspot"},
         e = "inscription" => requete[q].etape = "ouverture"
  PROVE  JInv'
<1>. DEFINE compte == <<requete[q].v, requete[q].ou, table>>
<1>1. CASE compte \in comptes
  BY <1>1, FinirJInv DEF CreerCompte, routeur
<1>2. CASE compte \notin comptes
  <2>1. comptes' = comptes \union {compte} /\ Aller(q, e)
        /\ UNCHANGED <<ticket, paiement, fermes, temoins>>
    BY <1>2 DEF CreerCompte
  <2>2. /\ requete[q].v \in Codes /\ Connu(requete[q].v) /\ requete[q].ou \in Routeurs
        /\ requete[q].r \in References
        /\ paiement[requete[q].r].status # "ABSENT" /\ paiement[requete[q].r].renews = SansCode
        /\ requete[q].v \in Noms \/ paiement[requete[q].r].voucherId \in Noms
             => requete[q].v = paiement[requete[q].r].voucherId
        /\ e = "inscription" => requete[q].suite \in {"activation", "vente"}
    BY DEF JInv, Suit, EtapesDeVente
  <2>3. PICK w \in UneDemande :
          /\ Une(q, w) /\ w.etape = e /\ w.r = requete[q].r /\ w.v = requete[q].v
          /\ w.c = requete[q].c /\ w.ou = requete[q].ou /\ w.suite = requete[q].suite
    BY <2>1, LaSuite, LesEtapes
  <2>4. requete'[q] = w
    BY <2>3, UneChange
  <2>5. Comptes(w.v)' # {}
    <3>1. compte \in comptes' /\ compte[1] = w.v
      BY <2>1, <2>3
    <3>2. QED
      BY <3>1 DEF Comptes
  <2>6. Connu(w.v)' /\ paiement' = paiement
    BY <2>1, <2>2, <2>3 DEF Connu
  <2>7. Suit(q)'
    BY <2>2, <2>3, <2>4, <2>5, <2>6
    DEF Suit, EtapesDeDeclaration, EtapesDeVente, EtapesDeRachat, EtapesDeRetrait
  <2>8. comptes' \subseteq Codes \X Routeurs \X {"um", "hotspot"} /\ fermes' \subseteq comptes'
    BY <2>1, <2>2 DEF JInv, Memoire
  <2>9. Memoire' /\ UNCHANGED <<ticket, paiement, vendus>> /\ comptes \subseteq comptes'
    BY <2>1, <2>8 DEF JInv, Memoire, temoins
  <2>10. w.etape # "rattachement"
    BY <2>3
  <2>11. QED
    BY <2>3, <2>7, <2>9, <2>10, RequeteSeule
<1>3. QED
  BY <1>1, <1>2

LEMMA OuvrirJInv ==
  ASSUME JInv, NEW q \in Requetes, OuvrirCompte(q) \/ OuvrirHotspot(q)
  PROVE  JInv'
<1>1. CASE OuvrirCompte(q)
  BY <1>1, CreerCompteJInv DEF OuvrirCompte, En
<1>2. CASE OuvrirHotspot(q)
  BY <1>2, CreerCompteJInv DEF OuvrirHotspot, En
<1>3. QED
  BY <1>1, <1>2

-----------------------------------------------------------------------------
(* The steps that write a ticket.                                          *)

BilletDevient(v, t) ==
  /\ ticket' = [ticket EXCEPT ![v] = t] /\ t \in UnBillet
  /\ t.status # "ABSENT"
  /\ v \in Noms => t.customerId # SansClient
  /\ t.um => Comptes(v) # {}

LEMMA BilletDevientMemoire ==
  ASSUME JInv, NEW v \in Codes, NEW t, BilletDevient(v, t),
         UNCHANGED <<paiement, comptes>>,
         \A r \in References : vendus[r] \subseteq vendus'[r]
  PROVE  Elargit /\ Billets' /\ ticket' \in [Codes -> UnBillet]
<1>1. /\ ticket' \in [Codes -> UnBillet] /\ ticket'[v] = t
      /\ \A w \in Codes : w # v => ticket'[w] = ticket[w]
  BY DEF BilletDevient, JInv, Memoire
<1>2. Elargit
  BY <1>1 DEF Elargit, Connu, BilletDevient
<1>3. Billets'
  BY <1>1 DEF JInv, Billets, BilletDevient, Connu, Comptes
<1>4. QED
  BY <1>1, <1>2, <1>3

LEMMA BilletSeul ==
  ASSUME JInv, NEW v \in Codes, NEW t, BilletDevient(v, t),
         UNCHANGED <<paiement, routeur, temoins>>,
         \/ t.customerId = ticket[v].customerId
         \/ ~Connu(v)
         \/ v \notin Noms
  PROVE  Elargit /\ Memoire' /\ Livre' /\ Billets'
<1>1. UNCHANGED <<paiement, comptes, fermes, vendus, reclames, periodes, renvois, rompus>>
  BY DEF routeur, temoins
<1>2. Elargit /\ Billets' /\ ticket' \in [Codes -> UnBillet]
  BY <1>1, BilletDevientMemoire
<1>3. Memoire'
  BY <1>1, <1>2 DEF JInv, Memoire
<1>4. VerifieOuvert'
  BY <1>1 DEF JInv, Livre, VerifieOuvert, Comptes
<1>5. ReserveAuSien'
  <2>1. SUFFICES ASSUME NEW r \in References, NEW w \in Noms, w \in vendus[r]
                 PROVE  paiement[r].voucherId = w /\ ticket'[w].customerId = paiement[r].customerId
    BY <1>1 DEF ReserveAuSien
  <2>2. /\ paiement[r].voucherId = w /\ ticket[w].customerId = paiement[r].customerId
        /\ w \in Codes /\ w # SansCode
    BY <2>1, SansCodeHors DEF JInv, Livre, ReserveAuSien
  <2>3. Connu(w)
    BY <2>2 DEF JInv, Livre
  <2>4. CASE w = v
    BY <2>2, <2>3, <2>4 DEF BilletDevient, JInv, Memoire
  <2>5. CASE w # v
    BY <2>2, <2>5 DEF BilletDevient, JInv, Memoire
  <2>6. QED
    BY <2>2, <2>4, <2>5
<1>6. Livre'
  <2>1. \A r \in References :
          /\ paiement[r].voucherId # SansCode =>
               paiement[r].voucherId \in Codes /\ Connu(paiement[r].voucherId)'
          /\ paiement[r].renews # SansCode =>
               paiement[r].renews \in Codes /\ Connu(paiement[r].renews)'
    BY <1>2, SansCodeHors DEF JInv, Memoire, UnReglement, Livre, Elargit
  <2>2. QED
    BY <1>1, <1>4, <1>5, <2>1 DEF JInv, Livre
<1>7. QED
  BY <1>2, <1>3, <1>6

LEMMA BilletEtRequete ==
  ASSUME JInv, Elargit, Memoire', Livre', Billets', UNCHANGED paiement,
         NEW q \in Requetes, NEW w, Une(q, w), Suit(q)', SeulAReserver'
  PROVE  JInv'
<1>1. /\ requete' \in [Requetes -> UneDemande]
      /\ \A p \in Requetes : p # q => requete'[p] = requete[p]
  BY UneChange
<1>2. \A p \in Requetes : requete[p].etape = "rattachement" =>
          \A r \in References : paiement'[r].voucherId # requete[p].v
  BY DEF JInv, Suit
<1>3. \A p \in Requetes :
           \/ Suit(p)'
           \/ /\ requete'[p] = requete[p]
              /\ requete[p].etape = "rattachement" =>
                   \A r \in References : paiement'[r].voucherId # requete[p].v
  BY <1>1, <1>2
<1>4. QED
  BY <1>1, <1>3, PasJInv

LEMMA ReserverJInv ==
  ASSUME JInv, NEW q \in Requetes, Reserver(q)
  PROVE  JInv'
<1>. DEFINE v == requete[q].v
<1>1. CASE ticket[v].status # "ABSENT"
  BY <1>1, FinirJInv DEF Reserver
<1>2. CASE ticket[v].status = "ABSENT"
  <2>1. /\ v \in Noms /\ v \in Codes /\ v # SansCode /\ requete[q].c \in Clients
        /\ requete[q].r \in References /\ requete[q].ou \in Pages /\ ~Connu(v)
    BY <1>2, SansCodeHors DEF JInv, Suit, Reserver, En, EtapesDeDeclaration, Connu
  <2>2. PICK t \in UnBillet :
          /\ ticket' = [ticket EXCEPT ![v] = t]
          /\ t.status = "CREATED" /\ t.customerId = requete[q].c /\ ~t.um
    <3>. DEFINE n == [status |-> "CREATED", customerId |-> requete[q].c, um |-> FALSE, cible |-> TRUE]
    <3>1. n \in UnBillet /\ n.status = "CREATED" /\ n.customerId = requete[q].c /\ ~n.um
      BY <2>1 DEF UnBillet, Statuts
    <3>2. ticket' = [ticket EXCEPT ![v] = n]
      BY <1>2 DEF Reserver
    <3>. HIDE DEF n
    <3>3. QED
      BY <3>1, <3>2
  <2>3. BilletDevient(v, t)
    BY <2>1, <2>2, AucunClient DEF BilletDevient, AucunClient
  <2>4. UNCHANGED <<paiement, routeur, temoins>> /\ Aller(q, "rattachement")
    BY <1>2 DEF Reserver
  <2>5. Elargit /\ Memoire' /\ Livre' /\ Billets'
    BY <2>1, <2>3, <2>4, BilletSeul
  <2>6. PICK w \in UneDemande :
          /\ Une(q, w) /\ w.etape = "rattachement" /\ w.r = requete[q].r /\ w.v = v
          /\ w.c = requete[q].c /\ w.ou = requete[q].ou /\ w.suite = requete[q].suite
    BY <2>4, LaSuite, LesEtapes
  <2>7. requete'[q] = w /\ \A p \in Requetes : p # q => requete'[p] = requete[p]
    BY <2>6, UneChange
  \* The code was free: no payment is bound to it, and no request has reserved it.
  <2>8. \A r \in References : paiement'[r].voucherId # v
    BY <2>1, <2>4 DEF JInv, Livre
  <2>9. \A p \in Requetes : requete[p].etape = "rattachement" => requete[p].v # v
    BY <2>1 DEF JInv, Suit
  <2>10. Connu(w.v)'
    BY <2>1, <2>2, <2>6 DEF Connu, JInv, Memoire
  <2>11. Suit(q)'
    BY <2>1, <2>6, <2>7, <2>8, <2>10
    DEF Suit, EtapesDeDeclaration, EtapesDeVente, EtapesDeRachat, EtapesDeRetrait
  <2>12. SeulAReserver'
    <3>1. SUFFICES ASSUME NEW p \in Requetes, NEW s \in Requetes,
                          requete'[p].etape = "rattachement", requete'[s].etape = "rattachement",
                          requete'[p].v = requete'[s].v
                   PROVE  p = s
      BY DEF SeulAReserver, En
    <3>2. CASE p # q /\ s # q
      BY <2>7, <3>1, <3>2 DEF JInv, SeulAReserver, En
    <3>3. CASE p = q /\ s # q
      BY <2>6, <2>7, <2>9, <3>1, <3>3
    <3>4. CASE p # q /\ s = q
      BY <2>6, <2>7, <2>9, <3>1, <3>4
    <3>5. QED
      BY <3>2, <3>3, <3>4
  <2>13. QED
    BY <2>4, <2>5, <2>6, <2>11, <2>12, BilletEtRequete
<1>3. QED
  BY <1>1, <1>2

LEMMA ChoisirJInv ==
  ASSUME JInv, NEW q \in Requetes, Choisir(q)
  PROVE  JInv'
<1>. DEFINE r == requete[q].r
<1>1. /\ requete[q] \in UneDemande /\ r \in References /\ UNCHANGED <<paiement, routeur, temoins>>
      /\ paiement[r].status # "ABSENT" /\ paiement[r].renews = SansCode
      /\ paiement[r].voucherId \notin Noms
      /\ paiement[r].routerId \in Routeurs \union {SansRouteur}
  <2>1. requete[q] \in UneDemande /\ Suit(q) /\ paiement \in [References -> UnReglement]
    BY DEF JInv, Memoire
  <2>2. requete[q].etape = "choix" /\ UNCHANGED <<paiement, routeur, temoins>>
    BY DEF Choisir, En
  <2>3. /\ r \in References /\ paiement[r].status # "ABSENT" /\ paiement[r].renews = SansCode
        /\ paiement[r].voucherId \notin Noms
    BY <2>1, <2>2, SansCodeHors DEF Suit
  <2>4. paiement[r].routerId \in Routeurs \union {SansRouteur}
    BY <2>1, <2>3, PagesConnues DEF PagesConnues, UnReglement
  <2>5. QED
    BY <2>1, <2>2, <2>3, <2>4
\* A ticket of the stock.
<1>2. ASSUME NEW v \in Disponibles, UNCHANGED ticket,
             requete' = [requete EXCEPT ![q].v = v, ![q].etape = "activation"]
      PROVE  JInv'
  <2>1. v \in Codes /\ Connu(v) /\ v \notin Noms
    BY <1>2 DEF Disponibles, Connu, JInv, Billets
  <2>2. PICK w \in UneDemande :
          /\ requete' = [requete EXCEPT ![q] = w] /\ w.v = v /\ w.etape = "activation" /\ w.r = r
    <3>. DEFINE n == [requete[q] EXCEPT !.v = v, !.etape = "activation"]
    <3>1. n \in UneDemande /\ n.v = v /\ n.etape = "activation" /\ n.r = r
      BY <1>1, <2>1, LesEtapes DEF UneDemande
    <3>2. requete' = [requete EXCEPT ![q] = n]
      BY <1>2 DEF JInv
    <3>. HIDE DEF n
    <3>3. QED
      BY <3>1, <3>2
  <2>3. Une(q, w) /\ requete'[q] = w
    BY <2>2, Ecrite
  <2>4. Connu(w.v)' /\ paiement' = paiement
    BY <1>1, <1>2, <2>1, <2>2 DEF Connu
  <2>5. Suit(q)'
    BY <1>1, <2>1, <2>2, <2>3, <2>4
    DEF Suit, EtapesDeDeclaration, EtapesDeVente, EtapesDeRachat, EtapesDeRetrait
  <2>6. UNCHANGED <<ticket, paiement, routeur, temoins>> /\ w.etape # "rattachement"
    BY <1>1, <1>2, <2>2
  <2>7. QED
    BY <2>3, <2>5, <2>6, Seule
\* A new one.
<1>3. ASSUME NEW v \in Codes \ Noms, NEW ou \in Routeurs, ticket[v].status = "ABSENT",
             ticket' = [ticket EXCEPT ![v] = [PasDeTicket EXCEPT !.status = "CREATED"]],
             requete' = [requete EXCEPT ![q].v = v, ![q].etape = "ouverture",
                           ![q].suite = "activation", ![q].ou = ou]
      PROVE  JInv'
  <2>1. PICK t \in UnBillet :
          ticket' = [ticket EXCEPT ![v] = t] /\ t.status = "CREATED" /\ ~t.um
    <3>. DEFINE n == [PasDeTicket EXCEPT !.status = "CREATED"]
    <3>1. n \in UnBillet /\ n.status = "CREATED" /\ ~n.um
      BY DEF PasDeTicket, UnBillet, Statuts
    <3>. HIDE DEF n
    <3>2. QED
      BY <1>3, <3>1 DEF n
  <2>2. BilletDevient(v, t)
    BY <2>1 DEF BilletDevient
  <2>3. Elargit /\ Memoire' /\ Livre' /\ Billets'
    BY <1>1, <2>2, BilletSeul
  <2>4. PICK w \in UneDemande :
          /\ requete' = [requete EXCEPT ![q] = w] /\ w.v = v /\ w.etape = "ouverture" /\ w.r = r
          /\ w.suite = "activation" /\ w.ou = ou
    <3>. DEFINE n == [requete[q] EXCEPT !.v = v, !.etape = "ouverture", !.suite = "activation",
                                        !.ou = ou]
    <3>1. /\ n \in UneDemande /\ n.v = v /\ n.etape = "ouverture" /\ n.r = r
          /\ n.suite = "activation" /\ n.ou = ou
      BY <1>1, LesEtapes, LesSuites DEF UneDemande
    <3>2. requete' = [requete EXCEPT ![q] = n]
      BY <1>3 DEF JInv
    <3>. HIDE DEF n
    <3>3. QED
      BY <3>1, <3>2
  <2>5. Une(q, w) /\ requete'[q] = w
    BY <2>4, Ecrite
  <2>6. Connu(w.v)'
    BY <2>1, <2>4 DEF Connu, JInv, Memoire
  <2>7. Suit(q)'
    BY <1>1, <2>4, <2>5, <2>6
    DEF Suit, EtapesDeDeclaration, EtapesDeVente, EtapesDeRachat, EtapesDeRetrait
  <2>8. SeulAReserver'
    BY <2>4, <2>5, UneChange
  <2>9. QED
    BY <1>1, <2>3, <2>5, <2>7, <2>8, BilletEtRequete
<1>. DEFINE ou == IF paiement[r].routerId = SansRouteur THEN Defaut ELSE paiement[r].routerId
<1>4. ou \in Routeurs
  BY <1>1, ConstantesVentes DEF ConstantesVentes
<1>5. \/ /\ \E v \in Disponibles :
              requete' = [requete EXCEPT ![q].v = v, ![q].etape = "activation"]
         /\ UNCHANGED ticket
      \/ \E v \in Codes \ Noms :
           /\ ticket[v].status = "ABSENT"
           /\ ticket' = [ticket EXCEPT ![v] = [PasDeTicket EXCEPT !.status = "CREATED"]]
           /\ requete' = [requete EXCEPT ![q].v = v, ![q].etape = "ouverture",
                             ![q].suite = "activation", ![q].ou = ou]
  BY DEF Choisir
<1>. HIDE DEF ou
<1>6. QED
  BY <1>2, <1>3, <1>4, <1>5

LEMMA InscrireJInv ==
  ASSUME JInv, NEW q \in Requetes, InscrireCompte(q)
  PROVE  JInv'
<1>. DEFINE v == requete[q].v
            r == requete[q].r
<1>1. /\ v \in Codes /\ Connu(v) /\ ticket[v] \in UnBillet /\ Comptes(v) # {} /\ r \in References
      /\ paiement[r].status # "ABSENT" /\ paiement[r].renews = SansCode
      /\ v \in Noms \/ paiement[r].voucherId \in Noms => v = paiement[r].voucherId
      /\ requete[q].suite \in {"activation", "vente"}
      /\ v \in Noms => ticket[v].customerId # SansClient
  BY DEF JInv, Suit, Memoire, Billets, InscrireCompte, En, EtapesDeVente
<1>2. PICK t \in UnBillet :
        /\ ticket' = [ticket EXCEPT ![v] = t]
        /\ t.status = ticket[v].status /\ t.customerId = ticket[v].customerId
  <2>. DEFINE n == [ticket[v] EXCEPT !.um = TRUE, !.cible = TRUE]
  <2>1. n \in UnBillet /\ n.status = ticket[v].status /\ n.customerId = ticket[v].customerId
    BY <1>1 DEF UnBillet
  <2>2. ticket' = [ticket EXCEPT ![v] = n]
    BY <1>1 DEF InscrireCompte, JInv, Memoire
  <2>. HIDE DEF n
  <2>3. QED
    BY <2>1, <2>2
<1>3. BilletDevient(v, t)
  BY <1>1, <1>2 DEF BilletDevient, Connu
<1>4. UNCHANGED <<paiement, routeur, temoins>>
  BY DEF InscrireCompte
<1>5. Elargit /\ Memoire' /\ Livre' /\ Billets'
  BY <1>1, <1>2, <1>3, <1>4, BilletSeul
<1>6. PICK e \in {"activation", "vente"} : Aller(q, e)
  BY <1>1 DEF InscrireCompte
<1>7. PICK w \in UneDemande :
        /\ Une(q, w) /\ w.etape = e /\ w.r = requete[q].r /\ w.v = requete[q].v
        /\ w.c = requete[q].c /\ w.ou = requete[q].ou /\ w.suite = requete[q].suite
  BY <1>6, LaSuite, LesEtapes
<1>8. requete'[q] = w
  BY <1>7, UneChange
<1>9. Connu(w.v)' /\ Comptes(w.v)' # {} /\ paiement' = paiement
  BY <1>1, <1>4, <1>5, <1>7 DEF Elargit, Comptes
<1>10. Suit(q)'
  BY <1>1, <1>7, <1>8, <1>9
  DEF Suit, EtapesDeDeclaration, EtapesDeVente, EtapesDeRachat, EtapesDeRetrait
<1>11. SeulAReserver'
  BY <1>7, UneChange
<1>12. QED
  BY <1>4, <1>5, <1>7, <1>10, <1>11, BilletEtRequete

\* The ticket of a prolongation or of a retirement: only its status changes.
LEMMA EcrireStatutJInv ==
  ASSUME JInv, NEW q \in Requetes, EcrireProlongation(q) \/ EcrireRetrait(q)
  PROVE  JInv'
<1>. DEFINE v == requete[q].v
<1>1. PICK s \in {"ACTIVE", "CANCELLED", "DISABLED"} : ticket' = [ticket EXCEPT ![v].status = s]
  BY DEF JInv, Suit, EcrireProlongation, EcrireRetrait, En, EtapesDeRetrait
<1>2. v \in Codes /\ Connu(v) /\ ticket[v] \in UnBillet
      /\ (v \in Noms => ticket[v].customerId # SansClient)
      /\ (ticket[v].um => Comptes(v) # {})
  <2>1. requete[q].etape \in EtapesDeRachat \union EtapesDeRetrait
    BY DEF EcrireProlongation, EcrireRetrait, En, EtapesDeRetrait, EtapesDeRachat
  <2>2. v \in Codes /\ Connu(v)
    BY <2>1 DEF JInv, Suit
  <2>3. QED
    BY <2>2 DEF JInv, Memoire, Billets
<1>3. PICK t \in UnBillet :
        /\ ticket' = [ticket EXCEPT ![v] = t]
        /\ t.status = s /\ t.customerId = ticket[v].customerId /\ t.um = ticket[v].um
  <2>. DEFINE n == [ticket[v] EXCEPT !.status = s]
  <2>1. n \in UnBillet /\ n.status = s /\ n.customerId = ticket[v].customerId /\ n.um = ticket[v].um
    BY <1>2 DEF UnBillet, Statuts
  <2>2. ticket' = [ticket EXCEPT ![v] = n]
    BY <1>1, <1>2 DEF JInv, Memoire
  <2>. HIDE DEF n
  <2>3. QED
    BY <2>1, <2>2
<1>4. BilletDevient(v, t)
  BY <1>2, <1>3 DEF BilletDevient
<1>5. UNCHANGED <<paiement, routeur, temoins>> /\ Finir(q)
  BY DEF EcrireProlongation, EcrireRetrait
<1>6. Elargit /\ Memoire' /\ Livre' /\ Billets'
  BY <1>2, <1>3, <1>4, <1>5, BilletSeul
<1>7. Une(q, Repos) /\ Suit(q)' /\ Repos.etape # "rattachement"
  BY <1>5, LaFin
<1>8. SeulAReserver'
  BY <1>7, UneChange
<1>9. QED
  BY <1>5, <1>6, <1>7, <1>8, BilletEtRequete

\* The sale: the ticket that a declaration reserved can only be sold for the
\* payment that is bound to it, and no other payment is.
LEMMA VendreJInv ==
  ASSUME JInv, NEW q \in Requetes, Vendre(q)
  PROVE  JInv'
<1>. DEFINE v == requete[q].v
            r == requete[q].r
<1>1. /\ v \in Codes /\ Connu(v) /\ Comptes(v) # {} /\ r \in References
      /\ paiement[r].status # "ABSENT" /\ paiement[r].renews = SansCode
      /\ v \in Noms \/ paiement[r].voucherId \in Noms => v = paiement[r].voucherId
  BY DEF JInv, Suit, Vendre, En, EtapesDeVente
<1>2. ticket[v] \in UnBillet /\ paiement[r].customerId \in Clients
      /\ paiement[r].customerId # SansClient
  BY <1>1, AucunClient DEF AucunClient, JInv, Memoire, Livre
<1>3. PICK t \in UnBillet :
        /\ ticket' = [ticket EXCEPT ![v] = t]
        /\ t.status = "SOLD" /\ t.customerId = paiement[r].customerId /\ t.um = ticket[v].um
  <2>. DEFINE n == [ticket[v] EXCEPT !.status = "SOLD", !.customerId = paiement[r].customerId]
  <2>1. /\ n \in UnBillet /\ n.status = "SOLD" /\ n.customerId = paiement[r].customerId
        /\ n.um = ticket[v].um
    BY <1>2 DEF UnBillet, Statuts
  <2>2. ticket' = [ticket EXCEPT ![v] = n]
    BY <1>1 DEF Vendre, JInv, Memoire
  <2>. HIDE DEF n
  <2>3. QED
    BY <2>1, <2>2
<1>4. BilletDevient(v, t)
  BY <1>1, <1>2, <1>3 DEF BilletDevient
<1>5. /\ UNCHANGED <<paiement, comptes, fermes, reclames, periodes, renvois, rompus>>
      /\ vendus' \in [References -> SUBSET Codes] /\ vendus'[r] = vendus[r] \union {v}
      /\ \A s \in References : s # r => vendus'[s] = vendus[s]
  BY <1>1 DEF Vendre, routeur, JInv, Memoire
<1>6. \A s \in References : vendus[s] \subseteq vendus'[s]
  BY <1>5
<1>7. Elargit /\ Billets' /\ ticket' \in [Codes -> UnBillet]
  <2>1. UNCHANGED <<paiement, comptes>>
    BY <1>5
  <2>2. QED
    BY <1>1, <1>4, <1>6, <2>1, BilletDevientMemoire
<1>8. Memoire'
  BY <1>5, <1>7 DEF JInv, Memoire
<1>9. VerifieOuvert'
  BY <1>5, <1>6 DEF JInv, Livre, VerifieOuvert, Comptes
<1>10. ReserveAuSien'
  <2>1. SUFFICES ASSUME NEW s \in References, NEW x \in Noms, x \in vendus'[s]
                 PROVE  paiement[s].voucherId = x /\ ticket'[x].customerId = paiement[s].customerId
    BY <1>5 DEF ReserveAuSien
  <2>2. x \in Codes /\ x # SansCode
    BY SansCodeHors
  <2>3. CASE x = v
    <3>1. paiement[r].voucherId = x
      BY <1>1, <2>3
    <3>2. s = r
      <4>1. CASE x \in vendus[s]
        BY <1>1, <2>2, <3>1, <4>1 DEF JInv, Livre, ReserveAuSien
      <4>2. CASE x \notin vendus[s]
        BY <1>5, <2>1, <4>2
      <4>3. QED
        BY <4>1, <4>2
    <3>3. ticket'[x].customerId = paiement[r].customerId
      BY <1>1, <1>3, <2>3 DEF JInv, Memoire
    <3>4. QED
      BY <3>1, <3>2, <3>3
  <2>4. CASE x # v
    <3>1. x \in vendus[s]
      BY <1>5, <2>1, <2>4
    <3>2. ticket'[x] = ticket[x]
      BY <1>3, <2>2, <2>4 DEF JInv, Memoire
    <3>3. QED
      BY <3>1, <3>2 DEF JInv, Livre, ReserveAuSien
  <2>5. QED
    BY <2>3, <2>4
<1>11. Livre'
  <2>1. \A s \in References :
          /\ paiement[s].voucherId # SansCode =>
               paiement[s].voucherId \in Codes /\ Connu(paiement[s].voucherId)'
          /\ paiement[s].renews # SansCode =>
               paiement[s].renews \in Codes /\ Connu(paiement[s].renews)'
    <3>1. \A x \in Codes : Connu(x) => Connu(x)'
      BY <1>7 DEF Elargit
    <3>2. \A s \in References : /\ paiement[s].voucherId \in Codes \union {SansCode}
                                /\ paiement[s].renews \in Codes \union {SansCode}
      BY SansCodeHors DEF JInv, Memoire, UnReglement
    <3>3. QED
      BY <1>5, <3>1, <3>2 DEF JInv, Livre
  <2>2. QED
    BY <1>5, <1>9, <1>10, <2>1 DEF JInv, Livre
<1>12. PICK w \in UneDemande :
        /\ Une(q, w) /\ w.etape = "reclamation" /\ w.r = requete[q].r /\ w.v = requete[q].v
        /\ w.c = requete[q].c /\ w.ou = requete[q].ou /\ w.suite = requete[q].suite
  BY LaSuite, LesEtapes DEF Vendre
<1>13. requete'[q] = w
  BY <1>12, UneChange
<1>14. Connu(w.v)' /\ Comptes(w.v)' # {} /\ paiement' = paiement /\ w.v \in vendus'[w.r]
  BY <1>1, <1>5, <1>7, <1>12 DEF Elargit, Comptes
<1>15. Suit(q)'
  BY <1>1, <1>12, <1>13, <1>14
  DEF Suit, EtapesDeDeclaration, EtapesDeVente, EtapesDeRachat, EtapesDeRetrait
<1>16. SeulAReserver' /\ UNCHANGED paiement
  BY <1>5, <1>12, UneChange
<1>17. QED
  BY <1>7, <1>8, <1>11, <1>12, <1>15, <1>16, BilletEtRequete

-----------------------------------------------------------------------------
(* The steps that write a payment.                                         *)

PaiementDevient(r, x) ==
  /\ paiement' = [paiement EXCEPT ![r] = x] /\ x \in UnReglement
  /\ x.status # "ABSENT" /\ x.customerId \in Clients
  /\ x.voucherId # SansCode => Connu(x.voucherId) /\ x.renews = SansCode
  /\ x.renews # SansCode => Connu(x.renews)
  /\ \A s \in References \ {r} : x.voucherId = SansCode \/ paiement[s].voucherId # x.voucherId
  /\ x.status = "VERIFIED" /\ x.voucherId # SansCode =>
       x.voucherId \in vendus[r] /\ Comptes(x.voucherId) # {}
  /\ \A v \in Noms : v \in vendus[r] => x.voucherId = v /\ ticket[v].customerId = x.customerId
  /\ paiement[r].status # "ABSENT" =>
       /\ x.renews = paiement[r].renews
       /\ x.voucherId = paiement[r].voucherId \/ {x.voucherId, paiement[r].voucherId} \cap Noms = {}

LEMMA PaiementDevientLivre ==
  ASSUME JInv, NEW r \in References, NEW x, PaiementDevient(r, x),
         UNCHANGED <<ticket, comptes, vendus>>
  PROVE  Elargit /\ Livre' /\ Billets' /\ paiement' \in [References -> UnReglement]
<1>1. /\ paiement' \in [References -> UnReglement] /\ paiement'[r] = x
      /\ \A s \in References : s # r => paiement'[s] = paiement[s]
  BY DEF PaiementDevient, JInv, Memoire
<1>2. \A v : (Connu(v) <=> ticket'[v].status # "ABSENT") /\ Comptes(v)' = Comptes(v)
  BY DEF Connu, Comptes
<1>3. Elargit
  BY <1>1 DEF Elargit, Connu, PaiementDevient
<1>4. Billets'
  BY <1>2 DEF JInv, Billets, Connu
<1>5. ASSUME NEW s \in References, NEW p, p = paiement'[s]
      PROVE
       /\ IF p.status = "ABSENT" THEN p.voucherId = SansCode /\ p.renews = SansCode
          ELSE p.customerId \in Clients
       /\ p.voucherId # SansCode => ticket'[p.voucherId].status # "ABSENT" /\ p.renews = SansCode
       /\ p.renews # SansCode => ticket'[p.renews].status # "ABSENT"
  <2>2. CASE s = r
    BY <1>1, <1>2, <1>5, <2>2 DEF PaiementDevient
  <2>3. CASE s # r
    BY <1>1, <1>2, <1>5, <2>3 DEF JInv, Livre
  <2>4. QED
    BY <2>2, <2>3
<1>6. \A s, u \in References :
        paiement'[s].voucherId = paiement'[u].voucherId => s = u \/ paiement'[s].voucherId = SansCode
  BY <1>1 DEF PaiementDevient, JInv, Livre
<1>7. VerifieOuvert'
  <2>1. SUFFICES ASSUME NEW s \in References, NEW p, p = paiement'[s],
                        p.status = "VERIFIED", p.voucherId # SansCode
                 PROVE  p.voucherId \in vendus[s] /\ Comptes(p.voucherId) # {}
    BY <1>2 DEF VerifieOuvert
  <2>2. CASE s = r
    BY <1>1, <2>1, <2>2 DEF PaiementDevient
  <2>3. CASE s # r
    BY <1>1, <2>1, <2>3 DEF JInv, Livre, VerifieOuvert
  <2>4. QED
    BY <2>2, <2>3
<1>8. ReserveAuSien'
  <2>1. SUFFICES ASSUME NEW s \in References, NEW v \in Noms, v \in vendus[s]
                 PROVE  paiement'[s].voucherId = v /\ ticket[v].customerId = paiement'[s].customerId
    BY DEF ReserveAuSien
  <2>2. CASE s = r
    BY <1>1, <2>1, <2>2 DEF PaiementDevient
  <2>3. CASE s # r
    BY <1>1, <2>1, <2>3 DEF JInv, Livre, ReserveAuSien
  <2>4. QED
    BY <2>2, <2>3
<1>9. Livre'
  BY <1>5, <1>6, <1>7, <1>8 DEF Livre, Connu
<1>10. QED
  BY <1>1, <1>3, <1>4, <1>9

LEMMA PaiementJInv ==
  ASSUME JInv, NEW r \in References, NEW x, PaiementDevient(r, x),
         UNCHANGED <<ticket, routeur, vendus, periodes, renvois, rompus>>,
         reclames' \in [References -> Nat],
         requete' \in [Requetes -> UneDemande],
         \A p \in Requetes :
           \/ Suit(p)'
           \/ /\ requete'[p] = requete[p]
              /\ requete[p].etape = "rattachement" => x.voucherId # requete[p].v,
         SeulAReserver'
  PROVE  JInv'
<1>1. UNCHANGED <<ticket, comptes, fermes, vendus, periodes, renvois, rompus>>
  BY DEF routeur
<1>2. Elargit /\ Livre' /\ Billets' /\ paiement' \in [References -> UnReglement]
  BY <1>1, PaiementDevientLivre
<1>3. Memoire'
  BY <1>1, <1>2 DEF JInv, Memoire
<1>4. \A p \in Requetes :
           \/ Suit(p)'
           \/ /\ requete'[p] = requete[p]
              /\ requete[p].etape = "rattachement" =>
                   \A s \in References : paiement'[s].voucherId # requete[p].v
  <2>1. SUFFICES ASSUME NEW p \in Requetes, requete[p].etape = "rattachement",
                        x.voucherId # requete[p].v, NEW s \in References
                 PROVE  paiement'[s].voucherId # requete[p].v
    OBVIOUS
  <2>2. paiement[s].voucherId # requete[p].v
    BY <2>1 DEF JInv, Suit
  <2>3. QED
    BY <2>1, <2>2 DEF PaiementDevient, JInv, Memoire
<1>5. QED
  BY <1>2, <1>3, <1>4, PasJInv

\* A claim or a rejection keeps the reserved ticket of a payment: no request is
\* about to bind it to another.
LEMMA NomGarde ==
  ASSUME JInv, NEW r \in References, NEW x, PaiementDevient(r, x), paiement[r].status # "ABSENT",
         NEW p \in Requetes, requete[p].etape = "rattachement"
  PROVE  x.voucherId # requete[p].v
<1>1. requete[p].v \in Noms /\ paiement[r].voucherId # requete[p].v
  BY DEF JInv, Suit, EtapesDeDeclaration
<1>2. QED
  BY <1>1 DEF PaiementDevient

\* The end of a request that wrote a payment.
LEMMA PaiementEtFin ==
  ASSUME JInv, NEW r \in References, NEW x, PaiementDevient(r, x),
         UNCHANGED <<ticket, routeur, vendus, periodes, renvois, rompus>>,
         reclames' \in [References -> Nat],
         NEW q \in Requetes, Finir(q),
         \A p \in Requetes : p # q /\ requete[p].etape = "rattachement" => x.voucherId # requete[p].v
  PROVE  JInv'
<1>1. Une(q, Repos) /\ Suit(q)' /\ Repos.etape # "rattachement"
  BY LaFin
<1>2. /\ requete' \in [Requetes -> UneDemande] /\ SeulAReserver'
      /\ \A p \in Requetes : p # q => requete'[p] = requete[p]
  BY <1>1, UneChange
<1>3. \A p \in Requetes :
           \/ Suit(p)'
           \/ /\ requete'[p] = requete[p]
              /\ requete[p].etape = "rattachement" => x.voucherId # requete[p].v
  BY <1>1, <1>2
<1>4. QED
  BY <1>2, <1>3, PaiementJInv

LEMMA RattacherJInv ==
  ASSUME JInv, NEW q \in Requetes, Rattacher(q) \/ Racheter(q)
  PROVE  JInv'
<1>. DEFINE d == requete[q]
<1>1. /\ d.v \in Noms /\ d.v \in Codes /\ d.v # SansCode /\ d.c \in Clients /\ d.r \in References
      /\ d.ou \in Pages /\ Connu(d.v)
  BY SansCodeHors DEF JInv, Suit, Rattacher, Racheter, En, EtapesDeDeclaration
<1>2. ASSUME NEW a, NEW b, CreerPaiement(q, a, b),
             \/ a = d.v /\ b = SansCode /\ En(q, "rattachement")
             \/ a = SansCode /\ b = d.v
      PROVE  JInv'
  <2>1. CASE paiement[d.r].status # "ABSENT"
    BY <1>2, <2>1, FinirJInv DEF CreerPaiement
  <2>2. CASE paiement[d.r].status = "ABSENT"
    <3>1. PICK x \in UnReglement :
            /\ paiement' = [paiement EXCEPT ![d.r] = x]
            /\ x.status = "PENDING" /\ x.customerId = d.c /\ x.voucherId = a /\ x.renews = b
      <4>. DEFINE n == [status |-> "PENDING", customerId |-> d.c, voucherId |-> a, renews |-> b,
                        routerId |-> d.ou]
      <4>1. /\ n \in UnReglement /\ n.status = "PENDING" /\ n.customerId = d.c
            /\ n.voucherId = a /\ n.renews = b
        BY <1>1, <1>2 DEF UnReglement
      <4>2. paiement' = [paiement EXCEPT ![d.r] = n]
        BY <1>2, <2>2 DEF CreerPaiement
      <4>. HIDE DEF n
      <4>3. QED
        BY <4>1, <4>2
    \* Nothing was sold for a payment that did not exist.
    <3>2. \A v \in Noms : v \notin vendus[d.r]
      BY <1>1, <2>2, SansCodeHors DEF JInv, Livre, ReserveAuSien
    <3>3. \A s \in References : a = SansCode \/ paiement[s].voucherId # a
      BY <1>1, <1>2 DEF JInv, Suit, En
    <3>4. PaiementDevient(d.r, x)
      BY <1>1, <1>2, <2>2, <3>1, <3>2, <3>3 DEF PaiementDevient
    <3>5. \A p \in Requetes : p # q /\ requete[p].etape = "rattachement" => x.voucherId # requete[p].v
      BY <1>2, <3>1, SansCodeHors DEF JInv, SeulAReserver, En, Suit, EtapesDeDeclaration
    <3>6. /\ UNCHANGED <<ticket, routeur, vendus, periodes, renvois, rompus>> /\ Finir(q)
          /\ reclames' \in [References -> Nat]
      BY <1>2 DEF CreerPaiement, temoins, JInv, Memoire
    <3>7. QED
      BY <1>1, <3>4, <3>5, <3>6, PaiementEtFin
  <2>3. QED
    BY <2>1, <2>2
<1>3. QED
  BY <1>2 DEF Rattacher, Racheter

LEMMA EnregistrerJInv ==
  ASSUME JInv, NEW r \in References, NEW c \in Clients, Enregistrer(r, c)
  PROVE  JInv'
<1>1. PICK x \in UnReglement :
        /\ paiement' = [paiement EXCEPT ![r] = x]
        /\ x.status = "PENDING" /\ x.customerId = c /\ x.voucherId = SansCode /\ x.renews = SansCode
  <2>. DEFINE n == [PasDePaiement EXCEPT !.status = "PENDING", !.customerId = c]
  <2>1. /\ n \in UnReglement /\ n.status = "PENDING" /\ n.customerId = c
        /\ n.voucherId = SansCode /\ n.renews = SansCode
    BY DEF UnReglement, PasDePaiement
  <2>. HIDE DEF n
  <2>2. QED
    BY <2>1 DEF Enregistrer, n
<1>2. \A v \in Noms : v \notin vendus[r]
  BY SansCodeHors DEF Enregistrer, JInv, Livre, ReserveAuSien
<1>3. PaiementDevient(r, x)
  BY <1>1, <1>2 DEF PaiementDevient, Enregistrer
<1>4. /\ UNCHANGED <<ticket, routeur, vendus, periodes, renvois, rompus>> /\ requete' = requete
      /\ reclames' \in [References -> Nat]
  BY DEF Enregistrer, temoins, JInv, Memoire
<1>5. SeulAReserver' /\ requete' \in [Requetes -> UneDemande]
  BY <1>4 DEF JInv, SeulAReserver, En
<1>6. \A p \in Requetes : requete[p].etape = "rattachement" => x.voucherId # requete[p].v
  BY <1>1, SansCodeHors DEF JInv, Suit, EtapesDeDeclaration
<1>7. \A p \in Requetes :
           \/ Suit(p)'
           \/ /\ requete'[p] = requete[p]
              /\ requete[p].etape = "rattachement" => x.voucherId # requete[p].v
  BY <1>4, <1>6
<1>8. QED
  BY <1>3, <1>4, <1>5, <1>7, PaiementJInv

\* The claim of a sale: the ticket was sold for this payment, and no other has it.
LEMMA ReclamerJInv ==
  ASSUME JInv, NEW q \in Requetes, Reclamer(q)
  PROVE  JInv'
<1>. DEFINE r == requete[q].r
            v == requete[q].v
<1>1. /\ v \in Codes /\ Connu(v) /\ Comptes(v) # {} /\ r \in References /\ v \in vendus[r]
      /\ paiement[r].status # "ABSENT" /\ paiement[r].renews = SansCode
      /\ v \in Noms \/ paiement[r].voucherId \in Noms => v = paiement[r].voucherId
  BY DEF JInv, Suit, Reclamer, En, EtapesDeVente
<1>2. CASE ~PeutReclamer(q)
  BY <1>2, FinirJInv DEF Reclamer, temoins
<1>3. CASE PeutReclamer(q)
  <2>1. paiement[r] \in UnReglement /\ paiement[r].customerId \in Clients
    BY <1>1 DEF JInv, Memoire, Livre
  <2>2. PICK x \in UnReglement :
          /\ paiement' = [paiement EXCEPT ![r] = x]
          /\ x.status = "VERIFIED" /\ x.voucherId = v
          /\ x.customerId = paiement[r].customerId /\ x.renews = paiement[r].renews
    <3>. DEFINE n == [paiement[r] EXCEPT !.status = "VERIFIED", !.voucherId = v]
    <3>1. /\ n \in UnReglement /\ n.status = "VERIFIED" /\ n.voucherId = v
          /\ n.customerId = paiement[r].customerId /\ n.renews = paiement[r].renews
      BY <1>1, <2>1 DEF UnReglement
    <3>2. paiement' = [paiement EXCEPT ![r] = n]
      BY <1>1, <1>3 DEF Reclamer, JInv, Memoire
    <3>. HIDE DEF n
    <3>3. QED
      BY <3>1, <3>2
  <2>3. \A u \in Noms : u \in vendus[r] => v = u /\ ticket[u].customerId = paiement[r].customerId
    BY <1>1 DEF JInv, Livre, ReserveAuSien
  <2>4. \A s \in References \ {r} : paiement[s].voucherId # v
    BY <1>3 DEF PeutReclamer
  <2>5. v = paiement[r].voucherId \/ {v, paiement[r].voucherId} \cap Noms = {}
    BY <1>1
  <2>6. PaiementDevient(r, x)
    BY <1>1, <2>1, <2>2, <2>3, <2>4, <2>5 DEF PaiementDevient
  <2>7. \A p \in Requetes : p # q /\ requete[p].etape = "rattachement" => x.voucherId # requete[p].v
    BY <1>1, <2>6, NomGarde
  <2>8. /\ UNCHANGED <<ticket, routeur, vendus, periodes, renvois, rompus>> /\ Finir(q)
        /\ reclames' \in [References -> Nat]
    BY <1>1, <1>3 DEF Reclamer, JInv, Memoire
  <2>9. QED
    BY <1>1, <2>6, <2>7, <2>8, PaiementEtFin
<1>4. QED
  BY <1>2, <1>3

LEMMA EcrireRejetJInv ==
  ASSUME JInv, NEW q \in Requetes, EcrireRejet(q)
  PROVE  JInv'
<1>. DEFINE r == requete[q].r
<1>1. r \in References /\ paiement[r].status # "ABSENT"
  BY DEF JInv, Suit, EcrireRejet, En
<1>2. paiement[r] \in UnReglement /\ paiement[r].customerId \in Clients
  BY <1>1 DEF JInv, Memoire, Livre
<1>3. PICK x \in UnReglement :
        /\ paiement' = [paiement EXCEPT ![r] = x]
        /\ x.status = "REJECTED" /\ x.voucherId = paiement[r].voucherId
        /\ x.customerId = paiement[r].customerId /\ x.renews = paiement[r].renews
  <2>. DEFINE n == [paiement[r] EXCEPT !.status = "REJECTED"]
  <2>1. /\ n \in UnReglement /\ n.status = "REJECTED" /\ n.voucherId = paiement[r].voucherId
        /\ n.customerId = paiement[r].customerId /\ n.renews = paiement[r].renews
    BY <1>2 DEF UnReglement
  <2>2. paiement' = [paiement EXCEPT ![r] = n]
    BY <1>1 DEF EcrireRejet, JInv, Memoire
  <2>. HIDE DEF n
  <2>3. QED
    BY <2>1, <2>2
<1>4. /\ x.voucherId # SansCode => Connu(x.voucherId) /\ x.renews = SansCode
      /\ x.renews # SansCode => Connu(x.renews)
      /\ \A s \in References \ {r} : x.voucherId = SansCode \/ paiement[s].voucherId # x.voucherId
      /\ \A v \in Noms : v \in vendus[r] => x.voucherId = v /\ ticket[v].customerId = x.customerId
  BY <1>1, <1>3 DEF JInv, Livre, ReserveAuSien
<1>5. PaiementDevient(r, x)
  BY <1>2, <1>3, <1>4 DEF PaiementDevient
<1>6. \A p \in Requetes : p # q /\ requete[p].etape = "rattachement" => x.voucherId # requete[p].v
  BY <1>1, <1>5, NomGarde
<1>7. /\ UNCHANGED <<ticket, routeur, vendus, periodes, renvois, rompus>> /\ Finir(q)
      /\ reclames' \in [References -> Nat]
  BY DEF EcrireRejet, temoins, JInv, Memoire
<1>8. QED
  BY <1>1, <1>5, <1>6, <1>7, PaiementEtFin

LEMMA ReclamerReabonnementJInv ==
  ASSUME JInv, NEW q \in Requetes, ReclamerReabonnement(q)
  PROVE  JInv'
<1>. DEFINE r == requete[q].r
            v == requete[q].v
<1>1. r \in References /\ paiement[r].renews # SansCode /\ v \in Codes /\ Connu(v)
  BY DEF JInv, Suit, ReclamerReabonnement, En, EtapesDeRachat
<1>2. CASE paiement[r].status # "PENDING"
  BY <1>2, FinirJInv DEF ReclamerReabonnement, temoins
<1>3. CASE paiement[r].status = "PENDING"
  <2>1. /\ paiement[r] \in UnReglement /\ paiement[r].customerId \in Clients
        /\ paiement[r].voucherId = SansCode
    BY <1>1, <1>3 DEF JInv, Memoire, Livre
  <2>2. PICK x \in UnReglement :
          /\ paiement' = [paiement EXCEPT ![r] = x]
          /\ x.status = "VERIFIED" /\ x.voucherId = SansCode
          /\ x.customerId = paiement[r].customerId /\ x.renews = paiement[r].renews
    <3>. DEFINE n == [paiement[r] EXCEPT !.status = "VERIFIED"]
    <3>1. /\ n \in UnReglement /\ n.status = "VERIFIED" /\ n.voucherId = SansCode
          /\ n.customerId = paiement[r].customerId /\ n.renews = paiement[r].renews
      BY <2>1 DEF UnReglement
    <3>2. paiement' = [paiement EXCEPT ![r] = n]
      BY <1>1, <1>3 DEF ReclamerReabonnement, JInv, Memoire
    <3>. HIDE DEF n
    <3>3. QED
      BY <3>1, <3>2
  <2>3. \A u \in Noms : u \notin vendus[r]
    BY <1>1, <2>1, SansCodeHors DEF JInv, Livre, ReserveAuSien
  <2>4. Connu(x.renews)
    BY <1>1, <2>2 DEF JInv, Livre
  <2>5. PaiementDevient(r, x)
    BY <2>1, <2>2, <2>3, <2>4 DEF PaiementDevient
  <2>6. /\ UNCHANGED <<ticket, routeur, vendus, periodes, renvois, rompus>>
        /\ Aller(q, "prolongation")
        /\ reclames' \in [References -> Nat]
    BY <1>1, <1>3 DEF ReclamerReabonnement, JInv, Memoire
  <2>7. PICK w \in UneDemande :
          /\ Une(q, w) /\ w.etape = "prolongation" /\ w.r = requete[q].r /\ w.v = requete[q].v
          /\ w.c = requete[q].c /\ w.ou = requete[q].ou /\ w.suite = requete[q].suite
    BY <2>6, LaSuite, LesEtapes
  <2>8. /\ requete' \in [Requetes -> UneDemande] /\ requete'[q] = w /\ SeulAReserver'
        /\ \A p \in Requetes : p # q => requete'[p] = requete[p]
    BY <2>7, UneChange
  <2>9. Connu(w.v)' /\ paiement'[w.r] = x
    BY <1>1, <2>2, <2>6, <2>7 DEF Connu, JInv, Memoire
  <2>10. Suit(q)'
    BY <1>1, <2>2, <2>7, <2>8, <2>9
    DEF Suit, EtapesDeDeclaration, EtapesDeVente, EtapesDeRachat, EtapesDeRetrait
  <2>11. \A p \in Requetes : requete[p].etape = "rattachement" => x.voucherId # requete[p].v
    BY <1>1, <1>3, <2>5, NomGarde
  <2>12. \A p \in Requetes :
           \/ Suit(p)'
           \/ /\ requete'[p] = requete[p]
              /\ requete[p].etape = "rattachement" => x.voucherId # requete[p].v
    BY <2>8, <2>10, <2>11
  <2>13. QED
    BY <1>1, <2>5, <2>6, <2>8, <2>12, PaiementJInv
<1>4. QED
  BY <1>2, <1>3

-----------------------------------------------------------------------------
LEMMA InitJInv == Init => JInv
<1>. SUFFICES ASSUME Init
              PROVE  JInv
  OBVIOUS
<1>1. \A v \in Codes :
        /\ ticket[v] \in UnBillet
        /\ v \in Noms => ticket[v].status = "ABSENT"
        /\ ticket[v].um => v \in Stock \ Historiques
  <2>1. SUFFICES ASSUME NEW v \in Codes
                 PROVE  /\ ticket[v] \in UnBillet
                        /\ v \in Noms => ticket[v].status = "ABSENT"
                        /\ ticket[v].um => v \in Stock \ Historiques
    OBVIOUS
  <2>2. CASE v \in Stock
    BY <2>2, ConstantesVentes DEF ConstantesVentes, Init, UnBillet, Statuts
  <2>3. CASE v \notin Stock
    BY <2>3 DEF Init, PasDeTicket, UnBillet, Statuts
  <2>4. QED
    BY <2>2, <2>3
<1>2. ticket \in [Codes -> UnBillet]
  BY <1>1 DEF Init
<1>3. /\ comptes = (Stock \ Historiques) \X {Defaut} \X {"um"} /\ fermes = {}
      /\ comptes \subseteq Codes \X Routeurs \X {"um", "hotspot"}
  BY ConstantesVentes DEF ConstantesVentes, Init
<1>4. /\ paiement \in [References -> UnReglement]
      /\ \A r \in References : paiement[r] = PasDePaiement
  BY DEF Init, PasDePaiement, UnReglement
<1>5. Memoire
  BY <1>2, <1>3, <1>4 DEF Init, Memoire
<1>6. /\ requete \in [Requetes -> UneDemande]
      /\ \A q \in Requetes : requete[q].etape = "repos"
  BY ReposDemande DEF Init
<1>7. VerifieOuvert /\ ReserveAuSien
  BY <1>4 DEF Init, VerifieOuvert, ReserveAuSien, PasDePaiement
<1>8. Livre
  BY <1>4, <1>7 DEF Livre, PasDePaiement
<1>9. Billets
  <2>1. SUFFICES ASSUME NEW v \in Codes, ticket[v].um
                 PROVE  Comptes(v) # {}
    BY <1>1 DEF Billets, Connu
  <2>2. <<v, Defaut, "um">> \in comptes /\ <<v, Defaut, "um">>[1] = v
    BY <1>1, <1>3, <2>1
  <2>3. QED
    BY <2>2 DEF Comptes
<1>10. \A q \in Requetes : Suit(q)
  BY <1>6 DEF Suit, EtapesDeDeclaration, EtapesDeVente, EtapesDeRachat, EtapesDeRetrait
<1>11. SeulAReserver
  BY <1>6 DEF SeulAReserver, En
<1>12. QED
  BY <1>5, <1>6, <1>8, <1>9, <1>10, <1>11 DEF JInv

LEMMA ImmobileJInv ==
  ASSUME JInv, UNCHANGED vars
  PROVE  JInv'
<1>1. UNCHANGED <<ticket, paiement, vendus>> /\ comptes \subseteq comptes' /\ requete' = requete
  BY DEF vars, routeur, temoins
<1>2. Elargit /\ Livre' /\ Billets'
  BY <1>1, MemeMemoire
<1>3. Memoire' /\ SeulAReserver' /\ requete' \in [Requetes -> UneDemande]
  BY DEF vars, routeur, temoins, JInv, Memoire, SeulAReserver, En
<1>4. \A p \in Requetes :
           \/ Suit(p)'
           \/ /\ requete'[p] = requete[p]
              /\ requete[p].etape = "rattachement" =>
                   \A r \in References : paiement'[r].voucherId # requete[p].v
  BY <1>1 DEF JInv, Suit
<1>5. QED
  BY <1>2, <1>3, <1>4, PasJInv

LEMMA AvancerJInv ==
  ASSUME JInv, NEW q \in Requetes, Avancer(q)
  PROVE  JInv'
<1>1. CASE ChercherIdentifiant(q) \/ Reserver(q)
  BY <1>1, IdentifiantJInv, ReserverJInv
<1>2. CASE Rattacher(q) \/ Racheter(q)
  BY <1>2, RattacherJInv
<1>3. CASE Choisir(q) \/ OuvrirCompte(q) \/ OuvrirHotspot(q) \/ InscrireCompte(q)
  BY <1>3, ChoisirJInv, OuvrirJInv, InscrireJInv
<1>4. CASE Activer(q) \/ Vendre(q) \/ Reclamer(q)
  BY <1>4, ActiverJInv, VendreJInv, ReclamerJInv
<1>5. CASE ReclamerReabonnement(q) \/ Prolonger(q)
  BY <1>5, ReclamerReabonnementJInv, ProlongerJInv
<1>6. CASE EcrireRejet(q)
  BY <1>6, EcrireRejetJInv
<1>7. CASE CouperAcces(q) \/ EcrireRetrait(q) \/ EcrireProlongation(q)
  BY <1>7, CouperJInv, EcrireStatutJInv
<1>8. QED
  BY <1>1, <1>2, <1>3, <1>4, <1>5, <1>6, <1>7 DEF Avancer

LEMMA NextJInv == JInv /\ [Next]_vars => JInv'
<1>. SUFFICES ASSUME JInv, [Next]_vars
              PROVE  JInv'
  OBVIOUS
<1>1. CASE \E r \in References, c \in Clients : Enregistrer(r, c)
  BY <1>1, EnregistrerJInv
<1>2. CASE \E q \in Requetes, r \in References, c \in Clients, v \in Noms, ou \in Pages :
             Declarer(q, r, c, v, ou)
  BY <1>2, DeclarerJInv
<1>3. CASE \E q \in Requetes, r \in References : Verifier(q, r)
  BY <1>3, VerifierJInv
<1>4. CASE \E q \in Requetes, r \in References : Rejeter(q, r)
  BY <1>4, RejeterJInv
<1>5. CASE \E q \in Requetes, v \in Codes, s \in {"CANCELLED", "DISABLED"} : Retirer(q, v, s)
  BY <1>5, RetirerJInv
<1>6. CASE \E q \in Requetes : Avancer(q)
  BY <1>6, AvancerJInv
<1>7. CASE \E q \in Requetes : Echouer(q)
  BY <1>7, EchouerJInv
<1>8. CASE UNCHANGED vars
  BY <1>8, ImmobileJInv
<1>9. QED
  BY <1>1, <1>2, <1>3, <1>4, <1>5, <1>6, <1>7, <1>8 DEF Next

\* What requests, tickets and payments know of each other holds in every behaviour.
THEOREM InvarianceDesBillets == Spec => []JInv
  BY InitJInv, NextJInv, PTL DEF Spec

\* The types, and what the schema forbids: two payments for one ticket.
THEOREM TypageVentes == Spec => []TypeOK
<1>1. JInv => TypeOK
  BY DEF JInv, Memoire, Livre, TypeOK, UnBillet, UnReglement, UneDemande, Suites
<1>2. QED
  BY <1>1, InvarianceDesBillets, PTL

\* A ticket that a declaration reserved is sold for the payment that reserved it
\* and for no other, to the customer who declared it, whatever the cashiers verify,
\* reject or retire in between.
THEOREM ReservesAuxLeurs == Spec => []ReserveAuSien
<1>1. JInv => ReserveAuSien
  BY DEF JInv, Livre
<1>2. QED
  BY <1>1, InvarianceDesBillets, PTL

\* A payment that was verified has a ticket that was sold for it and that has an
\* account on a router, whatever failed or was retired in between.
THEOREM VerifiesOuverts == Spec => []VerifieOuvert
<1>1. JInv => VerifieOuvert
  BY DEF JInv, Livre
<1>2. QED
  BY <1>1, InvarianceDesBillets, PTL

-----------------------------------------------------------------------------
(***************************************************************************)
(* The declared payments that wait: a third invariant, KInv, follows the   *)
(* account of a reserved ticket.  It is created on the default router by   *)
(* one verification of the payment, which either claims the payment or is  *)
(* cut short; until that verification has written the row, nobody sells    *)
(* the ticket or prolongs it.                                              *)
(***************************************************************************)
Compte(v) == <<v, Defaut, "um">>

\* The verification that created the account is on its way, or was cut short.
EnCours(r) ==
  \/ r \in rompus
  \/ \E q \in Requetes :
       requete[q].r = r /\ requete[q].etape \in {"inscription", "vente", "reclamation"}

AttenteSuivie ==
  \A r \in References :
    LET v == paiement[r].voucherId IN
    paiement[r].status = "PENDING" /\ v # SansCode =>
      v \in Noms /\ (Comptes(v) # {} => EnCours(r))

CompteDuNom ==
  \A v \in Noms :
    /\ Connu(v) => ticket[v].cible
    /\ ticket[v].um => Compte(v) \in comptes
    /\ ticket[v].status \in {"SOLD", "ACTIVE"} => ticket[v].um
    /\ Comptes(v) # {} => \E r \in References : paiement[r].voucherId = v

\* What a request on a reserved ticket knows of its account.
SuitNom(q) ==
  LET d == requete[q] IN
  d.v \in Noms =>
    /\ d.etape \in {"ouverture", "inscription"} => d.suite = "vente" /\ d.ou = Defaut
    /\ d.etape = "inscription" => Compte(d.v) \in comptes /\ ~ticket[d.v].um
    /\ d.etape # "hotspot"
    /\ d.etape \in {"vente", "reclamation", "ecriture"} => ticket[d.v].um

SeulAInscrire ==
  \A p, q \in Requetes :
    /\ En(p, "inscription") /\ En(q, "inscription")
    /\ requete[p].v = requete[q].v /\ requete[p].v \in Noms
    => p = q

KInv ==
  /\ JInv
  /\ AttenteSuivie
  /\ CompteDuNom
  /\ \A q \in Requetes : SuitNom(q)
  /\ SeulAInscrire

\* What a step does to a request: neither it creates an account, nor does it
\* leave a payment that waits without the verification it counts on.
Tenu(q) ==
  LET d == requete[q] IN
  d.etape \in {"inscription", "vente", "reclamation"} =>
    \/ requete'[q].r = d.r /\ requete'[q].etape \in {"inscription", "vente", "reclamation"}
    \/ d.r \in rompus'
    \/ paiement'[d.r].status # "PENDING"
    \/ paiement'[d.r].voucherId \notin Noms

Avance(q) == SuitNom(q)' /\ Tenu(q) /\ requete'[q].etape # "inscription"

NomsTenus ==
  \A v \in Noms :
    /\ Connu(v)' => ticket'[v].cible
    /\ ticket'[v].um => Compte(v) \in comptes
    /\ ticket'[v].status \in {"SOLD", "ACTIVE"} => ticket'[v].um
    /\ ticket[v].um => ticket'[v].um
    /\ ticket'[v].um /\ ~ticket[v].um =>
         \A p \in Requetes : En(p, "inscription") /\ requete[p].v = v => Avance(p)

PaiementsTenus ==
  \A r \in References :
    /\ paiement[r].voucherId \in Noms => paiement'[r].voucherId = paiement[r].voucherId
    /\ paiement'[r].status = "PENDING" /\ paiement'[r].voucherId # SansCode =>
         \/ paiement[r].status = "PENDING" /\ paiement[r].voucherId = paiement'[r].voucherId
         \/ paiement'[r].voucherId \in Noms /\ Comptes(paiement'[r].voucherId) = {}

LEMMA PasKInv ==
  ASSUME KInv, JInv', comptes' = comptes, rompus \subseteq rompus', NomsTenus, PaiementsTenus,
         \A p \in Requetes : requete'[p] = requete[p] \/ Avance(p)
  PROVE  KInv'
<1>1. \A v : Comptes(v)' = Comptes(v)
  BY DEF Comptes
<1>2. \A p \in Requetes : SuitNom(p)'
  <2>1. SUFFICES ASSUME NEW p \in Requetes, requete'[p] = requete[p], ~Avance(p)
                 PROVE  SuitNom(p)'
    BY DEF Avance
  <2>2. CASE requete[p].v \in Noms
    BY <2>1, <2>2 DEF KInv, SuitNom, NomsTenus, En
  <2>3. CASE requete[p].v \notin Noms
    BY <2>1, <2>3 DEF SuitNom
  <2>4. QED
    BY <2>2, <2>3
<1>3. SeulAInscrire'
  BY DEF KInv, SeulAInscrire, Avance, En
<1>4. CompteDuNom'
  BY <1>1 DEF KInv, CompteDuNom, NomsTenus, PaiementsTenus
<1>5. AttenteSuivie'
  <2>1. SUFFICES ASSUME NEW r \in References, NEW v, v = paiement'[r].voucherId,
                        paiement'[r].status = "PENDING", v # SansCode
                 PROVE  v \in Noms /\ (Comptes(v) # {} => EnCours(r)')
    BY <1>1 DEF AttenteSuivie
  <2>2. CASE paiement[r].status = "PENDING" /\ paiement[r].voucherId = v
    <3>1. v \in Noms /\ (Comptes(v) # {} => EnCours(r))
      BY <2>1, <2>2 DEF KInv, AttenteSuivie
    <3>2. ASSUME EnCours(r)
          PROVE  EnCours(r)'
      <4>1. CASE r \in rompus
        BY <4>1 DEF EnCours
      <4>2. ASSUME NEW p \in Requetes, requete[p].r = r,
                   requete[p].etape \in {"inscription", "vente", "reclamation"}
            PROVE  EnCours(r)'
        <5>1. CASE requete'[p] = requete[p]
          BY <4>2, <5>1 DEF EnCours
        <5>2. CASE Avance(p)
          BY <2>1, <3>1, <4>2, <5>2 DEF EnCours, Avance, Tenu
        <5>3. QED
          BY <5>1, <5>2
      <4>3. QED
        BY <3>2, <4>1, <4>2 DEF EnCours
    <3>3. QED
      BY <3>1, <3>2
  <2>3. CASE v \in Noms /\ Comptes(v) = {}
    BY <2>3
  <2>4. QED
    BY <2>1, <2>2, <2>3 DEF PaiementsTenus
<1>6. QED
  BY <1>2, <1>3, <1>4, <1>5 DEF KInv

LEMMA TicketsTenus ==
  ASSUME KInv, UNCHANGED ticket
  PROVE  NomsTenus
  BY DEF KInv, CompteDuNom, NomsTenus, Connu

LEMMA MemesPaiements ==
  ASSUME UNCHANGED paiement
  PROVE  PaiementsTenus
  BY DEF PaiementsTenus

\* Steps that say nothing of the account of a reserved ticket.
Neutre == {"ouverture", "inscription", "hotspot", "vente", "reclamation", "ecriture"}

LEMMA AvanceNeutre ==
  ASSUME NEW q \in Requetes, requete'[q].etape \notin Neutre,
         requete[q].etape \in {"inscription", "vente", "reclamation"} => Tenu(q)
  PROVE  Avance(q)
  BY DEF Avance, SuitNom, Neutre, Tenu

LEMMA Reecrite ==
  ASSUME JInv, NEW q \in Requetes, NEW w, requete' = [requete EXCEPT ![q] = w]
  PROVE  requete'[q] = w /\ \A p \in Requetes : p # q => requete'[p] = requete[p]
  BY DEF JInv

LEMMA Va ==
  ASSUME JInv, NEW q \in Requetes, NEW e, Aller(q, e)
  PROVE  /\ requete'[q].etape = e /\ requete'[q].v = requete[q].v /\ requete'[q].r = requete[q].r
         /\ requete'[q].suite = requete[q].suite /\ requete'[q].ou = requete[q].ou
         /\ \A p \in Requetes : p # q => requete'[p] = requete[p]
<1>1. requete \in [Requetes -> UneDemande] /\ requete[q] \in UneDemande
  BY DEF JInv
<1>2. QED
  BY <1>1 DEF Aller, UneDemande

LEMMA Finit ==
  ASSUME JInv, NEW q \in Requetes, Finir(q),
         requete[q].etape \in {"inscription", "vente", "reclamation"} => Tenu(q)
  PROVE  \A p \in Requetes : requete'[p] = requete[p] \/ Avance(p)
<1>1. requete'[q] = Repos /\ \A p \in Requetes : p # q => requete'[p] = requete[p]
  BY Reecrite DEF Finir
<1>2. Avance(q)
  BY <1>1, ReposDemande, AvanceNeutre DEF Neutre
<1>3. QED
  BY <1>1, <1>2

\* A request ends and nothing else changes.
LEMMA FinirKInv ==
  ASSUME KInv, JInv', NEW q \in Requetes, Finir(q), UNCHANGED <<ticket, paiement, comptes>>,
         rompus \subseteq rompus',
         requete[q].etape \in {"inscription", "vente", "reclamation"} => Tenu(q)
  PROVE  KInv'
<1>1. \A p \in Requetes : requete'[p] = requete[p] \/ Avance(p)
  BY Finit DEF KInv
<1>2. NomsTenus /\ PaiementsTenus
  BY TicketsTenus, MemesPaiements
<1>3. QED
  BY <1>1, <1>2, PasKInv

\* A request goes to a step that says nothing of the account.
LEMMA NeutreKInv ==
  ASSUME KInv, JInv', NEW q \in Requetes, UNCHANGED <<ticket, paiement, comptes>>,
         rompus \subseteq rompus', requete'[q].etape \notin Neutre,
         requete[q].etape \notin {"inscription", "vente", "reclamation"},
         \A p \in Requetes : p # q => requete'[p] = requete[p]
  PROVE  KInv'
<1>1. \A p \in Requetes : requete'[p] = requete[p] \/ Avance(p)
  BY AvanceNeutre
<1>2. NomsTenus /\ PaiementsTenus
  BY TicketsTenus, MemesPaiements
<1>3. QED
  BY <1>1, <1>2, PasKInv

\* A request that starts.
LEMMA CommencerKInv ==
  ASSUME KInv, JInv', NEW q \in Requetes, NEW w, w.etape \notin Neutre, En(q, "repos"),
         requete' = [requete EXCEPT ![q] = w], UNCHANGED <<ticket, paiement, routeur, temoins>>
  PROVE  KInv'
<1>1. requete'[q] = w /\ \A p \in Requetes : p # q => requete'[p] = requete[p]
  BY Reecrite DEF KInv
<1>2. UNCHANGED <<ticket, paiement, comptes>> /\ rompus \subseteq rompus'
  BY DEF routeur, temoins
<1>3. requete'[q].etape \notin Neutre /\ requete[q].etape \notin {"inscription", "vente", "reclamation"}
  BY <1>1 DEF En
<1>4. QED
  BY <1>1, <1>2, <1>3, NeutreKInv

LEMMA DeclarerKInv ==
  ASSUME KInv, JInv', NEW q \in Requetes, NEW r \in References, NEW c \in Clients, NEW v \in Noms,
         NEW ou \in Pages, Declarer(q, r, c, v, ou)
  PROVE  KInv'
<1>. DEFINE w == [Repos EXCEPT !.etape = "identifiant", !.r = r, !.v = v, !.c = c, !.ou = ou]
<1>1. w.etape \notin Neutre
  BY DEF Repos, Neutre
<1>. HIDE DEF w
<1>2. QED
  BY <1>1, CommencerKInv DEF Declarer, w

LEMMA VerifierKInv ==
  ASSUME KInv, JInv', NEW q \in Requetes, NEW r \in References, Verifier(q, r)
  PROVE  KInv'
<1>. DEFINE e == CASE paiement[r].renews # SansCode -> "reabonnement"
                   [] paiement[r].voucherId # SansCode -> "activation"
                   [] OTHER -> "choix"
            x == IF paiement[r].renews # SansCode THEN paiement[r].renews ELSE paiement[r].voucherId
            w == [Repos EXCEPT !.r = r, !.etape = e, !.v = x]
<1>1. e \in {"reabonnement", "activation", "choix"}
  OBVIOUS
<1>. HIDE DEF e, x
<1>2. w.etape \notin Neutre
  BY <1>1 DEF Repos, Neutre
<1>. HIDE DEF w
<1>3. requete' = [requete EXCEPT ![q] = w]
  BY DEF Verifier, w, e, x
<1>4. QED
  BY <1>2, <1>3, CommencerKInv DEF Verifier

LEMMA RejeterKInv ==
  ASSUME KInv, JInv', NEW q \in Requetes, NEW r \in References, Rejeter(q, r)
  PROVE  KInv'
<1>. DEFINE w == [Repos EXCEPT !.r = r, !.etape = "rejet"]
<1>1. w.etape \notin Neutre
  BY DEF Repos, Neutre
<1>. HIDE DEF w
<1>2. QED
  BY <1>1, CommencerKInv DEF Rejeter, w

LEMMA RetirerKInv ==
  ASSUME KInv, JInv', NEW q \in Requetes, NEW v \in Codes, NEW s \in {"CANCELLED", "DISABLED"},
         Retirer(q, v, s)
  PROVE  KInv'
<1>1. PICK e \in {"revocation", "fermeture", "retrait"} :
        requete' = [requete EXCEPT ![q] = [Repos EXCEPT !.v = v, !.suite = s, !.etape = e]]
  BY DEF Retirer
<1>. DEFINE w == [Repos EXCEPT !.v = v, !.suite = s, !.etape = e]
<1>2. w.etape \notin Neutre
  BY DEF Repos, Neutre
<1>. HIDE DEF w
<1>3. QED
  BY <1>1, <1>2, CommencerKInv DEF Retirer, w

LEMMA EchouerKInv ==
  ASSUME KInv, JInv', NEW q \in Requetes, Echouer(q)
  PROVE  KInv'
<1>1. requete[q].etape \in {"inscription", "vente", "reclamation"} => Tenu(q)
  BY DEF Echouer, EtapesDeVerification, Tenu
<1>2. UNCHANGED <<ticket, paiement, comptes>> /\ rompus \subseteq rompus' /\ Finir(q)
  BY DEF Echouer, routeur
<1>3. QED
  BY <1>1, <1>2, FinirKInv

\* Steps to a neutral one, from a neutral one.
LEMMA AllerNeutreKInv ==
  ASSUME KInv, JInv', NEW q \in Requetes, NEW e, e \notin Neutre, Aller(q, e),
         UNCHANGED <<ticket, paiement, comptes, rompus>>,
         requete[q].etape \notin {"inscription", "vente", "reclamation"}
  PROVE  KInv'
<1>1. requete'[q].etape = e /\ \A p \in Requetes : p # q => requete'[p] = requete[p]
  BY Va DEF KInv
<1>2. rompus \subseteq rompus'
  OBVIOUS
<1>3. requete'[q].etape \notin Neutre
  BY <1>1
<1>4. QED
  BY <1>1, <1>2, <1>3, NeutreKInv

LEMMA IdentifiantKInv ==
  ASSUME KInv, JInv', NEW q \in Requetes, ChercherIdentifiant(q) \/ CouperAcces(q)
  PROVE  KInv'
<1>1. /\ UNCHANGED <<ticket, paiement, comptes, rompus>> /\ rompus \subseteq rompus'
      /\ requete[q].etape \notin {"inscription", "vente", "reclamation"}
  BY DEF ChercherIdentifiant, CouperAcces, En, routeur, temoins
<1>2. Finir(q) \/ \E e \in {"reservation", "rachat", "retrait"} : Aller(q, e)
  BY DEF ChercherIdentifiant, CouperAcces
<1>3. {"reservation", "rachat", "retrait"} \cap Neutre = {}
  BY DEF Neutre
<1>4. CASE Finir(q)
  BY <1>1, <1>4, FinirKInv
<1>5. ASSUME NEW e \in {"reservation", "rachat", "retrait"}, Aller(q, e)
      PROVE  KInv'
  <2>1. e \notin Neutre
    BY <1>3
  <2>2. QED
    BY <1>1, <1>5, <2>1, AllerNeutreKInv
<1>6. QED
  BY <1>2, <1>4, <1>5

LEMMA ProlongerKInv ==
  ASSUME KInv, JInv', NEW q \in Requetes, Prolonger(q)
  PROVE  KInv'
<1>1. /\ UNCHANGED <<ticket, paiement, comptes, rompus>> /\ rompus \subseteq rompus'
      /\ requete[q].etape \notin {"inscription", "vente", "reclamation"}
  BY DEF Prolonger, En, routeur
<1>2. CASE ~ticket[requete[q].v].um
  BY <1>1, <1>2, FinirKInv DEF Prolonger
<1>3. CASE ticket[requete[q].v].um
  <2>1. Aller(q, "ecriture")
    BY <1>3 DEF Prolonger
  <2>2. /\ requete'[q].etape = "ecriture" /\ requete'[q].v = requete[q].v
        /\ \A p \in Requetes : p # q => requete'[p] = requete[p]
    BY <2>1, Va DEF KInv
  <2>3. Avance(q)
    BY <1>1, <1>3, <2>2 DEF Avance, SuitNom, Tenu
  <2>4. NomsTenus /\ PaiementsTenus
    BY <1>1, TicketsTenus, MemesPaiements
  <2>5. \A p \in Requetes : requete'[p] = requete[p] \/ Avance(p)
    BY <2>2, <2>3
  <2>6. QED
    BY <1>1, <2>4, <2>5, PasKInv
<1>4. QED
  BY <1>2, <1>3

LEMMA ActiverKInv ==
  ASSUME KInv, JInv', NEW q \in Requetes, Activer(q)
  PROVE  KInv'
<1>1. /\ UNCHANGED <<ticket, paiement, comptes, rompus>> /\ rompus \subseteq rompus'
      /\ requete[q].etape = "activation"
  BY DEF Activer, En, routeur, temoins
<1>2. CASE Finir(q)
  BY <1>1, <1>2, FinirKInv
<1>3. ASSUME NEW e \in {"vente", "ouverture", "hotspot"},
             e = "vente" => ticket[requete[q].v].um,
             e = "hotspot" => ~ticket[requete[q].v].cible,
             requete' = [requete EXCEPT ![q].suite = "vente", ![q].ou = Defaut, ![q].etape = e]
      PROVE  KInv'
  <2>1. /\ requete'[q].etape = e /\ requete'[q].v = requete[q].v
        /\ requete'[q].suite = "vente" /\ requete'[q].ou = Defaut
        /\ \A p \in Requetes : p # q => requete'[p] = requete[p]
    <3>1. requete \in [Requetes -> UneDemande] /\ requete[q] \in UneDemande
      BY DEF KInv, JInv
    <3>2. QED
      BY <1>3, <3>1 DEF UneDemande
  <2>2. Connu(requete[q].v)
    BY <1>1 DEF KInv, JInv, Suit, EtapesDeVente
  <2>3. requete[q].v \in Noms => e # "hotspot"
    BY <1>3, <2>2 DEF KInv, CompteDuNom
  <2>4. Avance(q)
    BY <1>1, <1>3, <2>1, <2>3 DEF Avance, SuitNom, Tenu
  <2>5. NomsTenus /\ PaiementsTenus
    BY <1>1, TicketsTenus, MemesPaiements
  <2>6. \A p \in Requetes : requete'[p] = requete[p] \/ Avance(p)
    BY <2>1, <2>4
  <2>7. QED
    BY <1>1, <2>5, <2>6, PasKInv
<1>4. \/ Finir(q)
      \/ \E e \in {"vente", "ouverture", "hotspot"} :
           /\ e = "vente" => ticket[requete[q].v].um
           /\ e = "hotspot" => ~ticket[requete[q].v].cible
           /\ requete' = [requete EXCEPT ![q].suite = "vente", ![q].ou = Defaut, ![q].etape = e]
  BY DEF Activer, Finir
<1>5. QED
  BY <1>2, <1>3, <1>4

\* The steps that write a ticket.
LEMMA UnNomTenu ==
  ASSUME KInv, NEW x \in Codes, NEW t, ticket' = [ticket EXCEPT ![x] = t],
         x \in Noms =>
           /\ t.cible
           /\ t.um => Compte(x) \in comptes
           /\ t.status \in {"SOLD", "ACTIVE"} => t.um
           /\ ticket[x].um => t.um
           /\ t.um /\ ~ticket[x].um =>
                \A p \in Requetes : En(p, "inscription") /\ requete[p].v = x => Avance(p)
  PROVE  NomsTenus
<1>1. /\ ticket'[x] = t /\ Noms \subseteq Codes
      /\ \A v \in Codes : v # x => ticket'[v] = ticket[v]
  BY SansCodeHors DEF KInv, JInv, Memoire
<1>2. SUFFICES ASSUME NEW v \in Noms
               PROVE  /\ ticket'[v].status # "ABSENT" => ticket'[v].cible
                      /\ ticket'[v].um => Compte(v) \in comptes
                      /\ ticket'[v].status \in {"SOLD", "ACTIVE"} => ticket'[v].um
                      /\ ticket[v].um => ticket'[v].um
                      /\ ticket'[v].um /\ ~ticket[v].um =>
                           \A p \in Requetes : En(p, "inscription") /\ requete[p].v = v => Avance(p)
  BY DEF NomsTenus, Connu
<1>3. CASE v = x
  BY <1>1, <1>3
<1>4. CASE v # x
  BY <1>1, <1>4 DEF KInv, CompteDuNom, Connu
<1>5. QED
  BY <1>3, <1>4

LEMMA BilletKInv ==
  ASSUME KInv, JInv', NEW q \in Requetes, NomsTenus, UNCHANGED <<paiement, comptes, rompus>>,
         Avance(q), \A p \in Requetes : p # q => requete'[p] = requete[p]
  PROVE  KInv'
<1>1. PaiementsTenus /\ rompus \subseteq rompus'
  BY MemesPaiements
<1>2. \A p \in Requetes : requete'[p] = requete[p] \/ Avance(p)
  OBVIOUS
<1>3. QED
  BY <1>1, <1>2, PasKInv

\* A code that nobody has: no account has its name.
LEMMA NomNeuf ==
  ASSUME KInv, NEW v \in Noms, ~Connu(v)
  PROVE  ~ticket[v].um
<1>1. SUFFICES ASSUME ticket[v].um
               PROVE  FALSE
  OBVIOUS
<1>2. Compte(v) \in comptes /\ Compte(v)[1] = v
  BY <1>1 DEF KInv, CompteDuNom, Compte
<1>3. Comptes(v) # {}
  BY <1>2 DEF Comptes
<1>4. PICK r \in References : paiement[r].voucherId = v
  BY <1>3 DEF KInv, CompteDuNom
<1>5. QED
  BY <1>4, SansCodeHors DEF KInv, JInv, Livre

LEMMA ReserverKInv ==
  ASSUME KInv, JInv', NEW q \in Requetes, Reserver(q)
  PROVE  KInv'
<1>. DEFINE v == requete[q].v
<1>1. /\ UNCHANGED <<paiement, comptes, rompus>> /\ rompus \subseteq rompus'
      /\ requete[q].etape = "reservation" /\ v \in Noms /\ v \in Codes
  BY SansCodeHors DEF Reserver, En, routeur, temoins, KInv, JInv, Suit, EtapesDeDeclaration
<1>2. CASE ticket[v].status # "ABSENT"
  BY <1>1, <1>2, FinirKInv DEF Reserver
<1>3. CASE ticket[v].status = "ABSENT"
  <2>1. PICK t : /\ ticket' = [ticket EXCEPT ![v] = t]
                 /\ t.status = "CREATED" /\ ~t.um /\ t.cible
    <3>. DEFINE n == [status |-> "CREATED", customerId |-> requete[q].c, um |-> FALSE, cible |-> TRUE]
    <3>1. n.status = "CREATED" /\ ~n.um /\ n.cible
      OBVIOUS
    <3>2. ticket' = [ticket EXCEPT ![v] = n]
      BY <1>3 DEF Reserver
    <3>. HIDE DEF n
    <3>3. QED
      BY <3>1, <3>2
  <2>2. ~ticket[v].um
    BY <1>1, <1>3, NomNeuf DEF Connu
  <2>3. NomsTenus
    BY <1>1, <2>1, <2>2, UnNomTenu
  <2>4. requete'[q].etape = "rattachement" /\ \A p \in Requetes : p # q => requete'[p] = requete[p]
    BY <1>3, Va DEF Reserver, KInv
  <2>5. Avance(q)
    BY <1>1, <2>4, AvanceNeutre DEF Neutre
  <2>6. QED
    BY <1>1, <2>3, <2>4, <2>5, BilletKInv
<1>4. QED
  BY <1>2, <1>3

LEMMA ChoisirKInv ==
  ASSUME KInv, JInv', NEW q \in Requetes, Choisir(q)
  PROVE  KInv'
<1>1. /\ UNCHANGED <<paiement, comptes, rompus>> /\ rompus \subseteq rompus'
      /\ requete[q].etape = "choix" /\ requete \in [Requetes -> UneDemande]
      /\ requete[q] \in UneDemande
  BY DEF Choisir, En, routeur, temoins, KInv, JInv
<1>2. ASSUME NEW v, UNCHANGED ticket,
             requete' = [requete EXCEPT ![q].v = v, ![q].etape = "activation"]
      PROVE  KInv'
  <2>1. requete'[q].etape = "activation" /\ \A p \in Requetes : p # q => requete'[p] = requete[p]
    BY <1>1, <1>2 DEF UneDemande
  <2>2. requete'[q].etape \notin Neutre /\ requete[q].etape \notin {"inscription", "vente", "reclamation"}
    BY <1>1, <2>1 DEF Neutre
  <2>3. QED
    BY <1>1, <1>2, <2>1, <2>2, NeutreKInv
<1>3. ASSUME NEW v \in Codes \ Noms, NEW t, NEW ou, ticket' = [ticket EXCEPT ![v] = t],
             requete' = [requete EXCEPT ![q].v = v, ![q].etape = "ouverture",
                           ![q].suite = "activation", ![q].ou = ou]
      PROVE  KInv'
  <2>1. /\ requete'[q].etape = "ouverture" /\ requete'[q].v = v
        /\ \A p \in Requetes : p # q => requete'[p] = requete[p]
    BY <1>1, <1>3 DEF UneDemande
  <2>2. NomsTenus
    BY <1>3, UnNomTenu
  <2>3. Avance(q)
    BY <1>1, <1>3, <2>1 DEF Avance, SuitNom, Tenu
  <2>4. QED
    BY <1>1, <2>1, <2>2, <2>3, BilletKInv
<1>. DEFINE ou == IF paiement[requete[q].r].routerId = SansRouteur THEN Defaut
                  ELSE paiement[requete[q].r].routerId
            neuf == [PasDeTicket EXCEPT !.status = "CREATED"]
<1>4. \/ /\ \E v \in Disponibles :
              requete' = [requete EXCEPT ![q].v = v, ![q].etape = "activation"]
         /\ UNCHANGED ticket
      \/ \E v \in Codes \ Noms :
           /\ ticket' = [ticket EXCEPT ![v] = neuf]
           /\ requete' = [requete EXCEPT ![q].v = v, ![q].etape = "ouverture",
                             ![q].suite = "activation", ![q].ou = ou]
  BY DEF Choisir
<1>. HIDE DEF ou, neuf
<1>5. QED
  BY <1>2, <1>3, <1>4

LEMMA InscrireKInv ==
  ASSUME KInv, JInv', NEW q \in Requetes, InscrireCompte(q)
  PROVE  KInv'
<1>. DEFINE v == requete[q].v
            r == requete[q].r
<1>1. /\ UNCHANGED <<paiement, comptes, rompus>> /\ requete[q].etape = "inscription"
      /\ v \in Codes /\ Connu(v) /\ ticket[v] \in UnBillet /\ requete[q].suite \in {"activation", "vente"}
      /\ v \notin Noms => paiement[r].voucherId \notin Noms
  BY DEF InscrireCompte, En, routeur, temoins, KInv, JInv, Suit, EtapesDeVente, Memoire
<1>2. v \in Noms => Compte(v) \in comptes /\ requete[q].suite = "vente"
  BY <1>1 DEF KInv, SuitNom
<1>3. PICK t : ticket' = [ticket EXCEPT ![v] = t] /\ t.um /\ t.cible
  <2>. DEFINE n == [ticket[v] EXCEPT !.um = TRUE, !.cible = TRUE]
  <2>1. n.um /\ n.cible
    BY <1>1 DEF UnBillet
  <2>2. ticket' = [ticket EXCEPT ![v] = n]
    BY <1>1 DEF InscrireCompte, KInv, JInv, Memoire
  <2>. HIDE DEF n
  <2>3. QED
    BY <2>1, <2>2
<1>4. ticket'[v].um
  BY <1>1, <1>3 DEF KInv, JInv, Memoire
<1>5. /\ requete'[q].etape = requete[q].suite /\ requete'[q].v = v /\ requete'[q].r = r
      /\ \A p \in Requetes : p # q => requete'[p] = requete[p]
  BY Va DEF InscrireCompte, KInv
<1>6. Avance(q)
  <2>1. CASE v \in Noms
    BY <1>2, <1>4, <1>5, <2>1 DEF Avance, SuitNom, Tenu
  <2>2. CASE v \notin Noms
    BY <1>1, <1>5, <2>2 DEF Avance, SuitNom, Tenu
  <2>3. QED
    BY <2>1, <2>2
<1>7. v \in Noms => \A p \in Requetes : En(p, "inscription") /\ requete[p].v = v => Avance(p)
  BY <1>1, <1>6 DEF KInv, SeulAInscrire, En
<1>8. NomsTenus
  BY <1>1, <1>2, <1>3, <1>7, UnNomTenu
<1>9. QED
  BY <1>1, <1>5, <1>6, <1>8, BilletKInv

\* A reserved ticket that is sold or prolonged has its account.
LEMMA StatutKInv ==
  ASSUME KInv, JInv', NEW q \in Requetes, NEW v \in Codes, NEW t, v = requete[q].v, Connu(v),
         ticket' = [ticket EXCEPT ![v] = t], t.um = ticket[v].um, t.cible = ticket[v].cible,
         v \in Noms /\ t.status \in {"SOLD", "ACTIVE"} => ticket[v].um,
         UNCHANGED <<paiement, comptes, rompus>>,
         Avance(q), \A p \in Requetes : p # q => requete'[p] = requete[p]
  PROVE  KInv'
<1>1. v \in Noms => ticket[v].cible /\ (ticket[v].um => Compte(v) \in comptes)
  BY DEF KInv, CompteDuNom
<1>2. NomsTenus
  BY <1>1, UnNomTenu
<1>3. QED
  BY <1>2, BilletKInv

LEMMA VendreKInv ==
  ASSUME KInv, JInv', NEW q \in Requetes, Vendre(q)
  PROVE  KInv'
<1>. DEFINE v == requete[q].v
<1>1. /\ UNCHANGED <<paiement, comptes, rompus>> /\ requete[q].etape = "vente"
      /\ v \in Codes /\ Connu(v) /\ ticket[v] \in UnBillet /\ (v \in Noms => ticket[v].um)
  BY DEF Vendre, En, routeur, KInv, JInv, Suit, SuitNom, EtapesDeVente, Memoire
<1>2. PICK t : ticket' = [ticket EXCEPT ![v] = t] /\ t.um = ticket[v].um /\ t.cible = ticket[v].cible
  <2>. DEFINE n == [ticket[v] EXCEPT !.status = "SOLD",
                                     !.customerId = paiement[requete[q].r].customerId]
  <2>1. n.um = ticket[v].um /\ n.cible = ticket[v].cible
    BY <1>1 DEF UnBillet
  <2>2. ticket' = [ticket EXCEPT ![v] = n]
    BY <1>1 DEF Vendre, KInv, JInv, Memoire
  <2>. HIDE DEF n
  <2>3. QED
    BY <2>1, <2>2
<1>3. /\ requete'[q].etape = "reclamation" /\ requete'[q].v = v /\ requete'[q].r = requete[q].r
      /\ \A p \in Requetes : p # q => requete'[p] = requete[p]
  BY Va DEF Vendre, KInv
<1>4. ticket'[v].um = ticket[v].um
  BY <1>1, <1>2 DEF KInv, JInv, Memoire
<1>5. Avance(q)
  BY <1>1, <1>3, <1>4 DEF Avance, SuitNom, Tenu
<1>6. QED
  BY <1>1, <1>2, <1>3, <1>5, StatutKInv

LEMMA EcrireStatutKInv ==
  ASSUME KInv, JInv', NEW q \in Requetes, EcrireProlongation(q) \/ EcrireRetrait(q)
  PROVE  KInv'
<1>. DEFINE v == requete[q].v
<1>1. /\ UNCHANGED <<paiement, comptes, rompus>> /\ Finir(q)
      /\ requete[q].etape \in {"ecriture", "retrait"}
      /\ v \in Codes /\ Connu(v) /\ ticket[v] \in UnBillet
      /\ v \in Noms /\ requete[q].etape = "ecriture" => ticket[v].um
  BY DEF EcrireProlongation, EcrireRetrait, En, routeur, temoins, KInv, JInv, Suit, SuitNom,
         EtapesDeRachat, EtapesDeRetrait, Memoire
<1>2. PICK s \in {"ACTIVE", "CANCELLED", "DISABLED"} :
        /\ ticket' = [ticket EXCEPT ![v].status = s]
        /\ s = "ACTIVE" => requete[q].etape = "ecriture"
  BY DEF EcrireProlongation, EcrireRetrait, En, KInv, JInv, Suit, EtapesDeRetrait
<1>3. PICK t : /\ ticket' = [ticket EXCEPT ![v] = t]
               /\ t.um = ticket[v].um /\ t.cible = ticket[v].cible /\ t.status = s
  <2>. DEFINE n == [ticket[v] EXCEPT !.status = s]
  <2>1. n.um = ticket[v].um /\ n.cible = ticket[v].cible /\ n.status = s
    BY <1>1 DEF UnBillet
  <2>2. ticket' = [ticket EXCEPT ![v] = n]
    BY <1>1, <1>2 DEF KInv, JInv, Memoire
  <2>. HIDE DEF n
  <2>3. QED
    BY <2>1, <2>2
<1>4. requete'[q] = Repos /\ \A p \in Requetes : p # q => requete'[p] = requete[p]
  BY <1>1, Reecrite DEF Finir, KInv
<1>5. Avance(q)
  BY <1>1, <1>4, ReposDemande, AvanceNeutre DEF Neutre
<1>6. v \in Noms /\ t.status \in {"SOLD", "ACTIVE"} => ticket[v].um
  BY <1>1, <1>2, <1>3
<1>7. QED
  BY <1>1, <1>3, <1>4, <1>5, <1>6, StatutKInv

\* The steps that write a payment.
LEMMA CreerPaiementKInv ==
  ASSUME KInv, JInv', NEW q \in Requetes, NEW a, NEW b, CreerPaiement(q, a, b),
         \/ a = requete[q].v /\ En(q, "rattachement")
         \/ a = SansCode /\ En(q, "rachat")
  PROVE  KInv'
<1>. DEFINE d == requete[q]
<1>1. /\ UNCHANGED <<ticket, comptes, rompus>> /\ rompus \subseteq rompus' /\ Finir(q)
      /\ d.etape \notin {"inscription", "vente", "reclamation"}
      /\ d.v \in Noms /\ d.r \in References
  BY DEF CreerPaiement, En, routeur, temoins, KInv, JInv, Suit, EtapesDeDeclaration
<1>2. CASE paiement[d.r].status # "ABSENT"
  BY <1>1, <1>2, FinirKInv DEF CreerPaiement
<1>3. CASE paiement[d.r].status = "ABSENT"
  <2>1. /\ paiement'[d.r].voucherId = a
        /\ \A r \in References : r # d.r => paiement'[r] = paiement[r]
    BY <1>1, <1>3 DEF CreerPaiement, KInv, JInv, Memoire
  <2>2. paiement[d.r].voucherId \notin Noms
    BY <1>1, <1>3, SansCodeHors DEF KInv, JInv, Livre
  \* No payment is bound to the ticket yet: it has no account.
  <2>3. a # SansCode => a \in Noms /\ Comptes(a) = {}
    BY <1>1 DEF KInv, JInv, Suit, CompteDuNom, En
  <2>4. PaiementsTenus
    BY <2>1, <2>2, <2>3 DEF PaiementsTenus
  <2>5. NomsTenus
    BY <1>1, TicketsTenus
  <2>6. \A p \in Requetes : requete'[p] = requete[p] \/ Avance(p)
    BY <1>1, Finit DEF KInv
  <2>7. QED
    BY <1>1, <2>4, <2>5, <2>6, PasKInv
<1>4. QED
  BY <1>2, <1>3

LEMMA RattacherKInv ==
  ASSUME KInv, JInv', NEW q \in Requetes, Rattacher(q) \/ Racheter(q)
  PROVE  KInv'
<1>1. ASSUME NEW a, NEW b, CreerPaiement(q, a, b),
             \/ a = requete[q].v /\ En(q, "rattachement")
             \/ a = SansCode /\ En(q, "rachat")
      PROVE  KInv'
  BY <1>1, CreerPaiementKInv
<1>2. QED
  BY <1>1 DEF Rattacher, Racheter

LEMMA EnregistrerKInv ==
  ASSUME KInv, JInv', NEW r \in References, NEW c \in Clients, Enregistrer(r, c)
  PROVE  KInv'
<1>1. /\ UNCHANGED <<ticket, comptes, rompus, requete>> /\ rompus \subseteq rompus'
      /\ paiement[r].status = "ABSENT"
      /\ paiement' = [paiement EXCEPT ![r] =
           [PasDePaiement EXCEPT !.status = "PENDING", !.customerId = c]]
  BY DEF Enregistrer, routeur, temoins
<1>2. /\ paiement'[r].voucherId = SansCode
      /\ \A s \in References : s # r => paiement'[s] = paiement[s]
  BY <1>1 DEF PasDePaiement, KInv, JInv, Memoire
<1>3. paiement[r].voucherId \notin Noms
  BY <1>1, SansCodeHors DEF KInv, JInv, Livre
<1>4. PaiementsTenus
  BY <1>2, <1>3 DEF PaiementsTenus
<1>5. NomsTenus /\ \A p \in Requetes : requete'[p] = requete[p] \/ Avance(p)
  BY <1>1, TicketsTenus
<1>6. QED
  BY <1>1, <1>4, <1>5, PasKInv

\* A payment ends its waiting, and keeps its reserved ticket.
LEMMA FinAttenteKInv ==
  ASSUME KInv, JInv', NEW q \in Requetes, NEW r \in References,
         UNCHANGED <<ticket, comptes, rompus>>,
         paiement'[r].status # "PENDING",
         paiement[r].voucherId \in Noms => paiement'[r].voucherId = paiement[r].voucherId,
         \A s \in References : s # r => paiement'[s] = paiement[s],
         requete'[q].etape \notin Neutre,
         requete[q].r = r,
         \A p \in Requetes : p # q => requete'[p] = requete[p]
  PROVE  KInv'
<1>1. PaiementsTenus
  BY DEF PaiementsTenus
<1>2. NomsTenus /\ rompus \subseteq rompus' /\ comptes' = comptes
  BY TicketsTenus
<1>3. Avance(q)
  BY AvanceNeutre DEF Tenu
<1>4. \A p \in Requetes : requete'[p] = requete[p] \/ Avance(p)
  BY <1>3
<1>5. QED
  BY <1>1, <1>2, <1>4, PasKInv

LEMMA FinNeutre ==
  ASSUME JInv, NEW q \in Requetes, Finir(q)
  PROVE  /\ requete'[q].etape \notin Neutre
         /\ \A p \in Requetes : p # q => requete'[p] = requete[p]
  BY Reecrite, ReposDemande DEF Finir, Neutre

LEMMA ReclamerKInv ==
  ASSUME KInv, JInv', NEW q \in Requetes, Reclamer(q)
  PROVE  KInv'
<1>. DEFINE r == requete[q].r
            v == requete[q].v
<1>1. /\ r \in References /\ paiement[r] \in UnReglement /\ Finir(q)
      /\ UNCHANGED <<ticket, comptes, rompus>> /\ rompus \subseteq rompus'
      /\ paiement[r].voucherId \in Noms => v = paiement[r].voucherId
  BY DEF Reclamer, En, routeur, KInv, JInv, Suit, EtapesDeVente, Memoire
<1>2. CASE PeutReclamer(q)
  <2>1. /\ paiement'[r].status = "VERIFIED" /\ paiement'[r].voucherId = v
        /\ \A s \in References : s # r => paiement'[s] = paiement[s]
    BY <1>1, <1>2 DEF Reclamer, KInv, JInv, Memoire, UnReglement
  <2>2. /\ requete'[q].etape \notin Neutre
        /\ \A p \in Requetes : p # q => requete'[p] = requete[p]
    BY <1>1, FinNeutre DEF KInv
  <2>3. paiement'[r].status # "PENDING"
        /\ (paiement[r].voucherId \in Noms => paiement'[r].voucherId = paiement[r].voucherId)
    BY <1>1, <2>1
  <2>4. QED
    BY <1>1, <2>1, <2>2, <2>3, FinAttenteKInv
<1>3. CASE ~PeutReclamer(q)
  <2>1. paiement' = paiement
    BY <1>3 DEF Reclamer
  \* It does not wait, or the ticket is another's: then it is not reserved.
  <2>2. paiement[r].status # "PENDING" \/ paiement[r].voucherId \notin Noms
    BY <1>1, <1>3, SansCodeHors DEF PeutReclamer, KInv, JInv, Livre
  <2>3. Tenu(q)
    BY <2>1, <2>2 DEF Tenu
  <2>4. QED
    BY <1>1, <2>1, <2>3, FinirKInv
<1>4. QED
  BY <1>2, <1>3

LEMMA EcrireRejetKInv ==
  ASSUME KInv, JInv', NEW q \in Requetes, EcrireRejet(q)
  PROVE  KInv'
<1>. DEFINE r == requete[q].r
<1>1. /\ r \in References /\ paiement[r] \in UnReglement /\ Finir(q)
      /\ UNCHANGED <<ticket, comptes, rompus>>
  BY DEF EcrireRejet, En, routeur, temoins, KInv, JInv, Suit, Memoire
<1>2. /\ paiement'[r].status = "REJECTED" /\ paiement'[r].voucherId = paiement[r].voucherId
      /\ \A s \in References : s # r => paiement'[s] = paiement[s]
  BY <1>1 DEF EcrireRejet, KInv, JInv, Memoire, UnReglement
<1>3. /\ requete'[q].etape \notin Neutre
      /\ \A p \in Requetes : p # q => requete'[p] = requete[p]
  BY <1>1, FinNeutre DEF KInv
<1>4. paiement'[r].status # "PENDING"
  BY <1>2
<1>5. QED
  BY <1>1, <1>2, <1>3, <1>4, FinAttenteKInv

LEMMA ReclamerReabonnementKInv ==
  ASSUME KInv, JInv', NEW q \in Requetes, ReclamerReabonnement(q)
  PROVE  KInv'
<1>. DEFINE r == requete[q].r
<1>1. /\ r \in References /\ paiement[r] \in UnReglement /\ requete[q].etape = "reabonnement"
      /\ UNCHANGED <<ticket, comptes, rompus>> /\ rompus \subseteq rompus'
  BY DEF ReclamerReabonnement, En, routeur, KInv, JInv, Suit, EtapesDeRachat, Memoire
<1>2. CASE paiement[r].status # "PENDING"
  BY <1>1, <1>2, FinirKInv DEF ReclamerReabonnement
<1>3. CASE paiement[r].status = "PENDING"
  <2>1. /\ paiement'[r].status = "VERIFIED" /\ paiement'[r].voucherId = paiement[r].voucherId
        /\ \A s \in References : s # r => paiement'[s] = paiement[s]
    BY <1>1, <1>3 DEF ReclamerReabonnement, KInv, JInv, Memoire, UnReglement
  <2>2. /\ requete'[q].etape = "prolongation"
        /\ \A p \in Requetes : p # q => requete'[p] = requete[p]
    BY <1>3, Va DEF ReclamerReabonnement, KInv
  <2>3. requete'[q].etape \notin Neutre /\ paiement'[r].status # "PENDING"
    BY <2>1, <2>2 DEF Neutre
  <2>4. QED
    BY <1>1, <2>1, <2>2, <2>3, FinAttenteKInv
<1>4. QED
  BY <1>2, <1>3

\* The creation of an account: for a reserved ticket, by a verification of the
\* payment that is bound to it, and the router has no account of that name.
LEMMA CreerCompteKInv ==
  ASSUME KInv, JInv', NEW q \in Requetes,
         OuvrirCompte(q) \/ OuvrirHotspot(q)
  PROVE  KInv'
<1>. DEFINE v == requete[q].v
            r == requete[q].r
<1>1. PICK table \in {"um", "hotspot"}, e \in {"inscription", "vente"} :
        /\ CreerCompte(q, table, e)
        /\ \/ En(q, "ouverture") /\ table = "um" /\ e = "inscription"
           \/ En(q, "hotspot") /\ e = "vente"
  BY DEF OuvrirCompte, OuvrirHotspot
<1>. DEFINE compte == <<v, requete[q].ou, table>>
<1>2. /\ UNCHANGED <<ticket, paiement, rompus>> /\ rompus \subseteq rompus'
      /\ requete[q].etape \in {"ouverture", "hotspot"} /\ r \in References
      /\ v \in Noms \/ paiement[r].voucherId \in Noms => v = paiement[r].voucherId
  BY <1>1 DEF CreerCompte, En, temoins, KInv, JInv, Suit, EtapesDeVente
<1>3. CASE compte \in comptes
  BY <1>1, <1>2, <1>3, FinirKInv DEF CreerCompte
<1>4. CASE compte \notin comptes
  <2>1. comptes' = comptes \union {compte} /\ Aller(q, e)
    BY <1>1, <1>4 DEF CreerCompte
  <2>2. /\ requete'[q].etape = e /\ requete'[q].v = v /\ requete'[q].r = r
        /\ requete'[q].suite = requete[q].suite /\ requete'[q].ou = requete[q].ou
        /\ \A p \in Requetes : p # q => requete'[p] = requete[p]
    BY <2>1, Va DEF KInv
  <2>3. \A w : w # v => Comptes(w)' = Comptes(w)
    BY <2>1 DEF Comptes
  <2>4. v \in Noms => /\ e = "inscription" /\ requete[q].suite = "vente" /\ compte = Compte(v)
                      /\ ~ticket[v].um
    BY <1>1, <1>4 DEF En, KInv, SuitNom, CompteDuNom, Compte
  <2>5. SuitNom(q)'
    <3>1. CASE v \in Noms
      <4>1. /\ Compte(v) \in comptes' /\ ~ticket'[v].um /\ requete[q].ou = Defaut
        BY <1>1, <1>2, <2>1, <2>4, <3>1 DEF KInv, SuitNom, En
      <4>2. QED
        BY <2>2, <2>4, <3>1, <4>1 DEF SuitNom, Compte
    <3>2. CASE v \notin Noms
      BY <2>2, <3>2 DEF SuitNom
    <3>3. QED
      BY <3>1, <3>2
  <2>6. \A p \in Requetes : SuitNom(p)'
    <3>1. ASSUME NEW p \in Requetes, p # q
          PROVE  SuitNom(p)'
      BY <1>2, <2>1, <2>2, <3>1 DEF KInv, SuitNom, Compte
    <3>2. QED
      BY <2>5, <3>1
  <2>7. SeulAInscrire'
    <3>1. \A p \in Requetes : En(p, "inscription") /\ requete[p].v = v => v \notin Noms
      BY <1>4, <2>4 DEF KInv, SuitNom, En
    <3>2. SUFFICES ASSUME NEW p \in Requetes, NEW s \in Requetes,
                          requete'[p].etape = "inscription", requete'[s].etape = "inscription",
                          requete'[p].v = requete'[s].v, requete'[p].v \in Noms
                   PROVE  p = s
      BY DEF SeulAInscrire, En
    <3>3. CASE p # q /\ s # q
      BY <2>2, <3>2, <3>3 DEF KInv, SeulAInscrire, En
    <3>4. CASE p = q /\ s # q
      BY <2>2, <3>1, <3>2, <3>4 DEF En
    <3>5. CASE p # q /\ s = q
      BY <2>2, <3>1, <3>2, <3>5 DEF En
    <3>6. QED
      BY <3>3, <3>4, <3>5
  <2>8. CompteDuNom'
    <3>1. SUFFICES ASSUME NEW w \in Noms
                   PROVE  /\ ticket[w].status # "ABSENT" => ticket[w].cible
                          /\ ticket[w].um => Compte(w) \in comptes'
                          /\ ticket[w].status \in {"SOLD", "ACTIVE"} => ticket[w].um
                          /\ Comptes(w)' # {} => \E s \in References : paiement[s].voucherId = w
      BY <1>2 DEF CompteDuNom, Connu, Compte
    <3>2. /\ ticket[w].status # "ABSENT" => ticket[w].cible
          /\ ticket[w].um => Compte(w) \in comptes'
          /\ ticket[w].status \in {"SOLD", "ACTIVE"} => ticket[w].um
      BY <2>1 DEF KInv, CompteDuNom, Connu
    <3>3. CASE w = v
      BY <1>2, <3>2, <3>3
    <3>4. CASE w # v
      BY <2>3, <3>2, <3>4 DEF KInv, CompteDuNom
    <3>5. QED
      BY <3>3, <3>4
  <2>9. AttenteSuivie'
    <3>1. SUFFICES ASSUME NEW s \in References, NEW w, w = paiement[s].voucherId,
                          paiement[s].status = "PENDING", w # SansCode
                   PROVE  w \in Noms /\ (Comptes(w)' # {} => EnCours(s)')
      BY <1>2 DEF AttenteSuivie
    <3>2. w \in Noms /\ (Comptes(w) # {} => EnCours(s))
      BY <3>1 DEF KInv, AttenteSuivie
    <3>3. CASE w = v
      <4>1. s = r
        BY <1>2, <3>1, <3>2, <3>3 DEF KInv, JInv, Livre
      <4>2. EnCours(s)'
        BY <2>2, <4>1 DEF EnCours
      <4>3. QED
        BY <3>2, <4>2
    <3>4. CASE w # v
      <4>1. EnCours(s) => EnCours(s)'
        BY <1>2, <2>2 DEF EnCours
      <4>2. QED
        BY <2>3, <3>2, <3>4, <4>1
    <3>5. QED
      BY <3>3, <3>4
  <2>10. QED
    BY <2>6, <2>7, <2>8, <2>9 DEF KInv
<1>5. QED
  BY <1>3, <1>4

-----------------------------------------------------------------------------
LEMMA InitKInv == Init => KInv
<1>. SUFFICES ASSUME Init
              PROVE  KInv
  OBVIOUS
<1>1. JInv
  BY InitJInv
<1>2. \A q \in Requetes : requete[q] = Repos /\ Repos.etape = "repos"
  BY ReposDemande DEF Init
<1>3. \A r \in References : paiement[r].status = "ABSENT"
  BY DEF Init, PasDePaiement
<1>4. AttenteSuivie
  BY <1>3 DEF AttenteSuivie
<1>5. CompteDuNom
  <2>1. SUFFICES ASSUME NEW v \in Noms
                 PROVE  ticket[v] = PasDeTicket /\ Comptes(v) = {}
    BY DEF CompteDuNom, Connu, PasDeTicket
  <2>2. v \in Codes /\ v \notin Stock
    BY ConstantesVentes DEF ConstantesVentes
  <2>3. Comptes(v) = {}
    BY <2>2 DEF Init, Comptes
  <2>4. QED
    BY <2>2, <2>3 DEF Init
<1>6. (\A q \in Requetes : SuitNom(q)) /\ SeulAInscrire
  BY <1>2 DEF SuitNom, SeulAInscrire, En
<1>7. QED
  BY <1>1, <1>4, <1>5, <1>6 DEF KInv

LEMMA AvancerKInv ==
  ASSUME KInv, JInv', NEW q \in Requetes, Avancer(q)
  PROVE  KInv'
<1>1. CASE ChercherIdentifiant(q) \/ CouperAcces(q)
  BY <1>1, IdentifiantKInv
<1>2. CASE Reserver(q) \/ Rattacher(q) \/ Racheter(q)
  BY <1>2, ReserverKInv, RattacherKInv
<1>3. CASE Choisir(q) \/ OuvrirCompte(q) \/ OuvrirHotspot(q) \/ InscrireCompte(q)
  BY <1>3, ChoisirKInv, CreerCompteKInv, InscrireKInv
<1>4. CASE Activer(q) \/ Vendre(q) \/ Reclamer(q)
  BY <1>4, ActiverKInv, VendreKInv, ReclamerKInv
<1>5. CASE ReclamerReabonnement(q) \/ Prolonger(q)
  BY <1>5, ReclamerReabonnementKInv, ProlongerKInv
<1>6. CASE EcrireRejet(q) \/ EcrireRetrait(q) \/ EcrireProlongation(q)
  BY <1>6, EcrireRejetKInv, EcrireStatutKInv
<1>7. QED
  BY <1>1, <1>2, <1>3, <1>4, <1>5, <1>6 DEF Avancer

LEMMA NextKInv == KInv /\ [Next]_vars => KInv'
<1>. SUFFICES ASSUME KInv, [Next]_vars
              PROVE  KInv'
  OBVIOUS
<1>0. JInv'
  BY NextJInv DEF KInv
<1>1. CASE \E r \in References, c \in Clients : Enregistrer(r, c)
  BY <1>0, <1>1, EnregistrerKInv
<1>2. CASE \E q \in Requetes, r \in References, c \in Clients, v \in Noms, ou \in Pages :
             Declarer(q, r, c, v, ou)
  BY <1>0, <1>2, DeclarerKInv
<1>3. CASE \E q \in Requetes, r \in References : Verifier(q, r)
  BY <1>0, <1>3, VerifierKInv
<1>4. CASE \E q \in Requetes, r \in References : Rejeter(q, r)
  BY <1>0, <1>4, RejeterKInv
<1>5. CASE \E q \in Requetes, v \in Codes, s \in {"CANCELLED", "DISABLED"} : Retirer(q, v, s)
  BY <1>0, <1>5, RetirerKInv
<1>6. CASE \E q \in Requetes : Avancer(q)
  BY <1>0, <1>6, AvancerKInv
<1>7. CASE \E q \in Requetes : Echouer(q)
  BY <1>0, <1>7, EchouerKInv
<1>8. CASE UNCHANGED vars
  <2>1. UNCHANGED <<ticket, paiement, comptes, rompus, requete>> /\ rompus \subseteq rompus'
    BY <1>8 DEF vars, routeur, temoins
  <2>2. NomsTenus /\ PaiementsTenus /\ \A p \in Requetes : requete'[p] = requete[p] \/ Avance(p)
    BY <2>1, TicketsTenus, MemesPaiements
  <2>3. QED
    BY <1>0, <2>1, <2>2, PasKInv
<1>9. QED
  BY <1>1, <1>2, <1>3, <1>4, <1>5, <1>6, <1>7, <1>8 DEF Next

\* The account of a reserved ticket is followed in every behaviour.
THEOREM InvarianceDesComptes == Spec => []KInv
  BY InitKInv, NextKInv, PTL DEF Spec

LEMMA Reglable ==
  ASSUME KInv
  PROVE  EnAttenteReglable
<1>1. SUFFICES ASSUME NEW r \in References, NEW v, v = paiement[r].voucherId,
                      paiement[r].status = "PENDING", v # SansCode
               PROVE  \/ ticket[v].status \in {"CANCELLED", "DISABLED"}
                      \/ /\ ticket[v].status = "CREATED"
                         /\ \/ ticket[v].um \/ Comptes(v) = {}
                            \/ \E q \in Requetes : requete[q].v = v /\ requete[q].etape = "inscription"
                      \/ \E q \in Requetes : requete[q].r = r /\ requete[q].etape \in {"vente", "reclamation"}
                      \/ r \in rompus
  BY DEF EnAttenteReglable
<1>2. v \in Noms /\ v \in Codes /\ (Comptes(v) # {} => EnCours(r))
  BY <1>1, SansCodeHors DEF KInv, AttenteSuivie
<1>3. ticket[v].status \in Statuts \ {"ABSENT"}
  BY <1>1, <1>2 DEF KInv, JInv, Livre, Memoire, UnBillet, Connu
<1>4. ticket[v].status \in {"SOLD", "ACTIVE"} => ticket[v].um
  BY <1>2 DEF KInv, CompteDuNom
<1>5. ticket[v].um => Comptes(v) # {}
  BY <1>2 DEF KInv, JInv, Billets
\* The verification that inscribes the account works on this ticket, which has no
\* account for anybody else yet.
<1>6. ASSUME NEW q \in Requetes, requete[q].r = r, requete[q].etape = "inscription"
      PROVE  requete[q].v = v /\ ~ticket[v].um
  <2>1. requete[q].v = v
    BY <1>1, <1>2, <1>6 DEF KInv, JInv, Suit, EtapesDeVente
  <2>2. QED
    BY <1>2, <1>6, <2>1 DEF KInv, SuitNom
<1>7. CASE Comptes(v) = {}
  BY <1>3, <1>4, <1>5, <1>7 DEF Statuts
<1>8. CASE r \in rompus
  BY <1>8
<1>9. ASSUME NEW q \in Requetes, requete[q].r = r,
             requete[q].etape \in {"inscription", "vente", "reclamation"}
      PROVE  \/ requete[q].etape \in {"vente", "reclamation"}
             \/ ticket[v].status \in {"CANCELLED", "DISABLED"}
             \/ ticket[v].status = "CREATED" /\ requete[q].v = v /\ requete[q].etape = "inscription"
  BY <1>3, <1>4, <1>6, <1>9 DEF Statuts
<1>10. QED
  BY <1>2, <1>7, <1>8, <1>9 DEF EnCours

\* A declared payment that waits can be verified: its ticket was retired, or it is
\* still CREATED and its account does not stand in the way, or a verification is
\* about to claim it, unless one was cut short.
THEOREM AttentesReglables == Spec => []EnAttenteReglable
  BY InvarianceDesComptes, Reglable, PTL

-----------------------------------------------------------------------------
(***************************************************************************)
(* The ledger: every step of the sale is an entry of PaymentLedger or      *)
(* leaves it as it is.  JInv supplies what a request has sold before it    *)
(* claims, IInv that one request at most owes the period of a payment.     *)
(***************************************************************************)

\* A payment that waits is bound to a ticket that it reserves, or to none: the stock
\* is bound by the claim, which ends the waiting.
EnAttenteReserve ==
  \A r \in References :
    paiement[r].status = "PENDING" => paiement[r].voucherId \in Noms \union {SansCode}

LInv == IInv /\ JInv /\ EnAttenteReserve

\* Nobody comes to the prolongation, nobody leaves it.
LEMMA DusInchanges ==
  ASSUME NEW q \in Requetes, ~En(q, "prolongation"), requete'[q].etape # "prolongation",
         \A p \in Requetes : p # q => requete'[p] = requete[p]
  PROVE  PeriodesDues' = PeriodesDues
<1>1. \A p \in Requetes, r \in References :
        (En(p, "prolongation") /\ requete[p].r = r) <=> (En(p, "prolongation") /\ requete[p].r = r)'
  BY DEF En
<1>2. QED
  BY <1>1 DEF PeriodesDues

\* The request that leaves it was the only one that owed the period.
LEMMA DusQuitte ==
  ASSUME LInv, NEW q \in Requetes, En(q, "prolongation"), requete'[q].etape # "prolongation",
         \A p \in Requetes : p # q => requete'[p] = requete[p]
  PROVE  /\ requete[q].r \in PeriodesDues
         /\ PeriodesDues' = PeriodesDues \ {requete[q].r}
<1>1. requete[q].r \in References
  BY DEF LInv, JInv, Suit, En, EtapesDeRachat
<1>2. \A p \in Requetes : En(p, "prolongation") /\ requete[p].r = requete[q].r => p = q
  BY <1>1 DEF LInv, IInv, SeulAProlonger
<1>3. \A p \in Requetes, r \in References :
        (En(p, "prolongation") /\ requete[p].r = r)'
          <=> (En(p, "prolongation") /\ requete[p].r = r) /\ r # requete[q].r
  BY <1>2 DEF En
<1>4. QED
  BY <1>1, <1>3 DEF PeriodesDues

\* A step that is only for the requests and the tickets.
LEMMA HorsDuLivre ==
  ASSUME UNCHANGED <<paiement, vendus, periodes, renvois>>, PeriodesDues' = PeriodesDues
  PROVE  UNCHANGED GrandLivre!vars
  BY DEF GrandLivre!vars, Etat, Objet, Rachats

LEMMA EffetRequete ==
  ASSUME LInv, NEW q \in Requetes, NEW rec, requete' = [requete EXCEPT ![q] = rec]
  PROVE  requete'[q] = rec /\ \A p \in Requetes : p # q => requete'[p] = requete[p]
  BY DEF LInv, JInv

LEMMA EffetAller ==
  ASSUME LInv, NEW q \in Requetes, NEW e, Aller(q, e)
  PROVE  requete'[q].etape = e /\ \A p \in Requetes : p # q => requete'[p] = requete[p]
<1>1. requete \in [Requetes -> UneDemande]
  BY DEF LInv, JInv
<1>2. QED
  BY <1>1 DEF Aller, UneDemande

LEMMA EffetFinir ==
  ASSUME LInv, NEW q \in Requetes, Finir(q)
  PROVE  requete'[q].etape = "repos" /\ \A p \in Requetes : p # q => requete'[p] = requete[p]
<1>1. requete' = [requete EXCEPT ![q] = Repos]
  BY DEF Finir
<1>2. requete'[q] = Repos /\ \A p \in Requetes : p # q => requete'[p] = requete[p]
  BY <1>1, EffetRequete
<1>3. QED
  BY <1>2 DEF Repos

-----------------------------------------------------------------------------
(* The steps that write nothing in the ledger.                             *)

LEMMA CommencerLivre ==
  ASSUME LInv, NEW q \in Requetes, En(q, "repos"), NEW rec, rec.etape # "prolongation",
         requete' = [requete EXCEPT ![q] = rec], UNCHANGED <<paiement, vendus, periodes, renvois>>
  PROVE  UNCHANGED GrandLivre!vars
<1>1. requete'[q] = rec /\ \A p \in Requetes : p # q => requete'[p] = requete[p]
  BY EffetRequete
<1>2. ~En(q, "prolongation")
  BY DEF En
<1>3. QED
  BY <1>1, <1>2, DusInchanges, HorsDuLivre

LEMMA AllerLivre ==
  ASSUME LInv, NEW q \in Requetes, ~En(q, "prolongation"), NEW e, e # "prolongation",
         Aller(q, e) \/ Finir(q), UNCHANGED <<paiement, vendus, periodes, renvois>>
  PROVE  UNCHANGED GrandLivre!vars
<1>1. requete'[q].etape # "prolongation" /\ \A p \in Requetes : p # q => requete'[p] = requete[p]
  BY EffetAller, EffetFinir
<1>2. QED
  BY <1>1, DusInchanges, HorsDuLivre

LEMMA DeclarerLivre ==
  ASSUME LInv, NEW q \in Requetes, NEW r \in References, NEW c \in Clients, NEW v \in Noms,
         NEW ou \in Pages, Declarer(q, r, c, v, ou)
  PROVE  UNCHANGED GrandLivre!vars
<1> DEFINE rec == [Repos EXCEPT !.etape = "identifiant", !.r = r, !.v = v, !.c = c, !.ou = ou]
<1>1. rec.etape # "prolongation"
  BY DEF Repos
<1> HIDE DEF rec
<1>2. requete' = [requete EXCEPT ![q] = rec]
  BY DEF Declarer, rec
<1>3. QED
  BY <1>1, <1>2, CommencerLivre DEF Declarer, temoins

LEMMA VerifierLivre ==
  ASSUME LInv, NEW q \in Requetes, NEW r \in References, Verifier(q, r)
  PROVE  UNCHANGED GrandLivre!vars
<1> DEFINE e == CASE paiement[r].renews # SansCode -> "reabonnement"
                  [] paiement[r].voucherId # SansCode -> "activation"
                  [] OTHER -> "choix"
           w == IF paiement[r].renews # SansCode THEN paiement[r].renews ELSE paiement[r].voucherId
           rec == [Repos EXCEPT !.r = r, !.etape = e, !.v = w]
<1>1. e # "prolongation"
  OBVIOUS
<1> HIDE DEF e, w
<1>2. rec.etape # "prolongation"
  BY <1>1 DEF Repos
<1>3. requete' = [requete EXCEPT ![q] = rec]
  BY DEF Verifier, e, w
<1> HIDE DEF rec
<1>4. QED
  BY <1>2, <1>3, CommencerLivre DEF Verifier, temoins

LEMMA RejeterLivre ==
  ASSUME LInv, NEW q \in Requetes, NEW r \in References, Rejeter(q, r)
  PROVE  UNCHANGED GrandLivre!vars
<1> DEFINE rec == [Repos EXCEPT !.r = r, !.etape = "rejet"]
<1>1. rec.etape # "prolongation"
  BY DEF Repos
<1> HIDE DEF rec
<1>2. requete' = [requete EXCEPT ![q] = rec]
  BY DEF Rejeter, rec
<1>3. QED
  BY <1>1, <1>2, CommencerLivre DEF Rejeter, temoins

LEMMA RetirerLivre ==
  ASSUME LInv, NEW q \in Requetes, NEW v \in Codes, NEW s \in {"CANCELLED", "DISABLED"},
         Retirer(q, v, s)
  PROVE  UNCHANGED GrandLivre!vars
<1> DEFINE e == CASE ticket[v].um -> "revocation"
                  [] ~ticket[v].um /\ ticket[v].status \in {"SOLD", "ACTIVE"} -> "fermeture"
                  [] OTHER -> "retrait"
           rec == [Repos EXCEPT !.v = v, !.suite = s, !.etape = e]
<1>1. e # "prolongation"
  OBVIOUS
<1> HIDE DEF e
<1>2. rec.etape # "prolongation"
  BY <1>1 DEF Repos
<1>3. requete' = [requete EXCEPT ![q] = rec]
  BY DEF Retirer, e
<1> HIDE DEF rec
<1>4. QED
  BY <1>2, <1>3, CommencerLivre DEF Retirer, temoins

LEMMA PasseLivre ==
  ASSUME LInv, NEW q \in Requetes,
         \/ ChercherIdentifiant(q) \/ Reserver(q)
         \/ OuvrirCompte(q) \/ OuvrirHotspot(q) \/ InscrireCompte(q)
         \/ CouperAcces(q) \/ EcrireRetrait(q) \/ EcrireProlongation(q)
  PROVE  UNCHANGED GrandLivre!vars
<1>1. ~En(q, "prolongation")
  BY DEF ChercherIdentifiant, Reserver, OuvrirCompte, OuvrirHotspot, InscrireCompte, CouperAcces,
         EcrireRetrait, EcrireProlongation, En
<1>2. UNCHANGED <<paiement, vendus, periodes, renvois>>
  BY DEF ChercherIdentifiant, Reserver, OuvrirCompte, OuvrirHotspot, InscrireCompte, CouperAcces,
         EcrireRetrait, EcrireProlongation, CreerCompte, temoins
<1>3. requete[q].suite # "prolongation"
  BY DEF LInv, JInv, UneDemande, Suites
<1>4. \/ Finir(q) \/ Aller(q, "reservation") \/ Aller(q, "rachat") \/ Aller(q, "rattachement")
      \/ Aller(q, "inscription") \/ Aller(q, "vente") \/ Aller(q, "retrait")
      \/ Aller(q, requete[q].suite)
  BY DEF ChercherIdentifiant, Reserver, OuvrirCompte, OuvrirHotspot, InscrireCompte, CouperAcces,
         EcrireRetrait, EcrireProlongation, CreerCompte
<1>5. QED
  BY <1>1, <1>2, <1>3, <1>4, AllerLivre

LEMMA ChoisirLivre ==
  ASSUME LInv, NEW q \in Requetes, Choisir(q)
  PROVE  UNCHANGED GrandLivre!vars
<1> DEFINE ou == IF paiement[requete[q].r].routerId = SansRouteur THEN Defaut
                 ELSE paiement[requete[q].r].routerId
<1>1. requete \in [Requetes -> UneDemande] /\ ~En(q, "prolongation")
  BY DEF LInv, JInv, Choisir, En
<1> HIDE DEF ou
<1>2. \/ \E v \in Codes : requete' = [requete EXCEPT ![q].v = v, ![q].etape = "activation"]
      \/ \E v \in Codes : requete' = [requete EXCEPT ![q].v = v, ![q].etape = "ouverture",
                             ![q].suite = "activation", ![q].ou = ou]
  BY DEF Choisir, Disponibles, ou
<1>3. requete'[q].etape # "prolongation" /\ \A p \in Requetes : p # q => requete'[p] = requete[p]
  <2>1. ASSUME NEW v \in Codes, requete' = [requete EXCEPT ![q].v = v, ![q].etape = "activation"]
        PROVE  requete'[q].etape # "prolongation" /\ \A p \in Requetes : p # q => requete'[p] = requete[p]
    BY <1>1, <2>1 DEF UneDemande
  <2>2. ASSUME NEW v \in Codes,
               requete' = [requete EXCEPT ![q].v = v, ![q].etape = "ouverture",
                             ![q].suite = "activation", ![q].ou = ou]
        PROVE  requete'[q].etape # "prolongation" /\ \A p \in Requetes : p # q => requete'[p] = requete[p]
    BY <1>1, <2>2 DEF UneDemande
  <2>3. QED
    BY <1>2, <2>1, <2>2
<1>4. QED
  BY <1>1, <1>3, DusInchanges, HorsDuLivre DEF Choisir, temoins

LEMMA ActiverLivre ==
  ASSUME LInv, NEW q \in Requetes, Activer(q)
  PROVE  UNCHANGED GrandLivre!vars
<1> DEFINE e == IF ticket[requete[q].v].um THEN "vente"
                ELSE IF ticket[requete[q].v].cible THEN "ouverture" ELSE "hotspot"
<1>1. requete \in [Requetes -> UneDemande] /\ ~En(q, "prolongation") /\ e # "prolongation"
  BY DEF LInv, JInv, Activer, En
<1> HIDE DEF e
<1>2. Finir(q) \/ requete' = [requete EXCEPT ![q].suite = "vente", ![q].ou = Defaut, ![q].etape = e]
  BY DEF Activer, e, Finir
<1>3. requete'[q].etape # "prolongation" /\ \A p \in Requetes : p # q => requete'[p] = requete[p]
  BY <1>1, <1>2, EffetFinir DEF UneDemande
<1>4. QED
  BY <1>1, <1>3, DusInchanges, HorsDuLivre DEF Activer, temoins

-----------------------------------------------------------------------------
(* The entries.                                                            *)

\* Who is not at the prolongation and ends leaves the periods owed as they are.
LEMMA FinirDus ==
  ASSUME LInv, NEW q \in Requetes, ~En(q, "prolongation"), Finir(q)
  PROVE  PeriodesDues' = PeriodesDues
  BY EffetFinir, DusInchanges

LEMMA CreerPaiementLivre ==
  ASSUME LInv, NEW q \in Requetes, ~En(q, "prolongation"), requete[q].r \in References,
         NEW v \in Codes \union {SansCode}, NEW w \in Codes \union {SansCode},
         v # SansCode => v \in Noms /\ (\A s \in References : paiement[s].voucherId # v),
         w # SansCode => v = SansCode,
         CreerPaiement(q, v, w)
  PROVE  GrandLivre!Next \/ UNCHANGED GrandLivre!vars
<1> DEFINE r == requete[q].r
<1>1. PeriodesDues' = PeriodesDues
  BY FinirDus DEF CreerPaiement
<1>2. CASE paiement[r].status # "ABSENT"
  BY <1>1, <1>2, HorsDuLivre DEF CreerPaiement, temoins
<1>3. CASE paiement[r].status = "ABSENT"
  <2> DEFINE p == [status |-> "PENDING", customerId |-> requete[q].c, voucherId |-> v, renews |-> w,
                   routerId |-> requete[q].ou]
  <2>1. paiement \in [References -> UnReglement]
    BY DEF LInv, JInv, Memoire
  <2>2. paiement' = [paiement EXCEPT ![r] = p] /\ UNCHANGED <<vendus, periodes, renvois>>
    BY <1>3 DEF CreerPaiement, temoins
  <2>3. r \notin Rachats
    BY <1>3 DEF LInv, JInv, Livre, Rachats
  <2>4. GrandLivre!Inscrire(r, v, w # SansCode)
    <3>1. Etat[r] = "ABSENT" /\ \A s \in References : Objet[s] = paiement[s].voucherId
      BY <1>3 DEF Etat, Objet
    <3>2. Etat' = [Etat EXCEPT ![r] = "PENDING"]
      BY <2>1, <2>2 DEF Etat
    <3>3. Objet' = [Objet EXCEPT ![r] = v]
      BY <2>1, <2>2 DEF Objet
    <3>4. Rachats' = IF w # SansCode THEN Rachats \union {r} ELSE Rachats
      BY <2>1, <2>2, <2>3 DEF Rachats
    <3>5. QED
      BY <1>1, <2>2, <3>1, <3>2, <3>3, <3>4 DEF GrandLivre!Inscrire
  <2>5. (w # SansCode) \in BOOLEAN
    OBVIOUS
  <2>6. QED
    BY <2>4, <2>5 DEF GrandLivre!Next
<1>4. QED
  BY <1>2, <1>3

LEMMA RattacherLivre ==
  ASSUME LInv, NEW q \in Requetes, Rattacher(q) \/ Racheter(q)
  PROVE  GrandLivre!Next \/ UNCHANGED GrandLivre!vars
<1>1. /\ ~En(q, "prolongation") /\ requete[q].r \in References
      /\ requete[q].v \in Noms /\ requete[q].v \in Codes
  BY SansCodeHors DEF LInv, JInv, Suit, EtapesDeDeclaration, Rattacher, Racheter, En
<1>2. CASE Rattacher(q)
  <2>1. \A s \in References : paiement[s].voucherId # requete[q].v
    BY <1>2 DEF LInv, JInv, Suit, Rattacher, En
  <2>2. QED
    BY <1>1, <1>2, <2>1, CreerPaiementLivre DEF Rattacher
<1>3. CASE Racheter(q)
  BY <1>1, <1>3, CreerPaiementLivre DEF Racheter
<1>4. QED
  BY <1>2, <1>3

LEMMA EnregistrerLivre ==
  ASSUME LInv, NEW r \in References, NEW c \in Clients, Enregistrer(r, c)
  PROVE  GrandLivre!Inscrire(r, SansCode, FALSE)
<1> DEFINE p == [PasDePaiement EXCEPT !.status = "PENDING", !.customerId = c]
<1>1. paiement \in [References -> UnReglement] /\ r \notin Rachats
  BY DEF LInv, JInv, Memoire, Livre, Rachats, Enregistrer
<1>2. p.status = "PENDING" /\ p.voucherId = SansCode /\ p.renews = SansCode
  BY DEF PasDePaiement
<1> HIDE DEF p
<1>3. paiement' = [paiement EXCEPT ![r] = p] /\ UNCHANGED <<vendus, periodes, renvois, requete>>
  BY DEF Enregistrer, p, temoins
<1>4. Etat[r] = "ABSENT" /\ Etat' = [Etat EXCEPT ![r] = "PENDING"]
  BY <1>1, <1>2, <1>3 DEF Etat, Enregistrer
<1>5. Objet' = [Objet EXCEPT ![r] = SansCode]
  BY <1>1, <1>2, <1>3 DEF Objet
<1>6. Rachats' = Rachats
  BY <1>1, <1>2, <1>3 DEF Rachats
<1>7. PeriodesDues' = PeriodesDues
  BY <1>3 DEF PeriodesDues, En
<1>8. QED
  BY <1>3, <1>4, <1>5, <1>6, <1>7 DEF GrandLivre!Inscrire

LEMMA VendreLivre ==
  ASSUME LInv, NEW q \in Requetes, Vendre(q)
  PROVE  GrandLivre!Next
<1> DEFINE r == requete[q].r
           v == requete[q].v
<1>1. En(q, "vente")
  BY DEF Vendre
<1>2. /\ r \in References /\ v \in Codes
      /\ paiement[r].status # "ABSENT" /\ paiement[r].renews = SansCode
      /\ v \in Noms \/ paiement[r].voucherId \in Noms => v = paiement[r].voucherId
  BY <1>1 DEF LInv, JInv, Suit, EtapesDeVente, En
<1>3. PeriodesDues' = PeriodesDues
  BY <1>1, EffetAller, DusInchanges DEF Vendre, En
<1>4. GrandLivre!Servir(r, v)
  BY <1>2, <1>3 DEF GrandLivre!Servir, Vendre, Etat, Objet, Rachats
<1>5. QED
  BY <1>2, <1>4 DEF GrandLivre!Next

LEMMA ReclamerLivre ==
  ASSUME LInv, NEW q \in Requetes, Reclamer(q)
  PROVE  GrandLivre!Next \/ UNCHANGED GrandLivre!vars
<1> DEFINE r == requete[q].r
           v == requete[q].v
<1>1. En(q, "reclamation") /\ Finir(q) /\ UNCHANGED <<vendus, periodes, renvois>>
  BY DEF Reclamer
<1>2. PeriodesDues' = PeriodesDues
  BY <1>1, FinirDus DEF En
<1>3. CASE ~PeutReclamer(q)
  BY <1>1, <1>2, <1>3, HorsDuLivre DEF Reclamer
<1>4. CASE PeutReclamer(q)
  <2>1. /\ r \in References /\ v \in Codes /\ paiement[r].renews = SansCode /\ v \in vendus[r]
        /\ paiement[r].voucherId \in Noms => v = paiement[r].voucherId
    BY <1>1 DEF LInv, JInv, Suit, EtapesDeVente, En
  <2>2. /\ paiement[r].status = "PENDING"
        /\ \A s \in References \ {r} : paiement[s].voucherId # v
        /\ paiement[r].voucherId \in {SansCode, v}
    BY <1>4, <2>1 DEF PeutReclamer, LInv, EnAttenteReserve
  <2>3. /\ paiement \in [References -> UnReglement]
        /\ paiement' = [paiement EXCEPT ![r].status = "VERIFIED", ![r].voucherId = v]
    BY <1>4 DEF Reclamer, LInv, JInv, Memoire
  <2>4. Etat' = [Etat EXCEPT ![r] = "VERIFIED"]
    BY <2>1, <2>3 DEF Etat, UnReglement
  <2>5. Objet' = [Objet EXCEPT ![r] = v]
    BY <2>1, <2>3 DEF Objet, UnReglement
  <2>6. Rachats' = Rachats
    BY <2>1, <2>3 DEF Rachats, UnReglement
  <2>7. GrandLivre!HonorerParTicket(r, v)
    BY <1>1, <1>2, <2>1, <2>2, <2>4, <2>5, <2>6 DEF GrandLivre!HonorerParTicket, Etat, Objet, Rachats
  <2>8. QED
    BY <2>1, <2>7 DEF GrandLivre!Next
<1>5. QED
  BY <1>3, <1>4

LEMMA ReclamerReabonnementLivre ==
  ASSUME LInv, NEW q \in Requetes, ReclamerReabonnement(q)
  PROVE  GrandLivre!Next \/ UNCHANGED GrandLivre!vars
<1> DEFINE r == requete[q].r
<1>1. En(q, "reabonnement") /\ UNCHANGED <<vendus, periodes, renvois>>
  BY DEF ReclamerReabonnement
<1>2. r \in References /\ paiement[r].renews # SansCode
  BY <1>1 DEF LInv, JInv, Suit, EtapesDeRachat, En
<1>3. CASE paiement[r].status # "PENDING"
  <2>1. Finir(q) /\ UNCHANGED paiement
    BY <1>3 DEF ReclamerReabonnement
  <2>2. PeriodesDues' = PeriodesDues
    BY <1>1, <2>1, FinirDus DEF En
  <2>3. QED
    BY <1>1, <2>1, <2>2, HorsDuLivre
<1>4. CASE paiement[r].status = "PENDING"
  <2>1. /\ paiement \in [References -> UnReglement]
        /\ paiement' = [paiement EXCEPT ![r].status = "VERIFIED"]
        /\ Aller(q, "prolongation")
    BY <1>4 DEF ReclamerReabonnement, LInv, JInv, Memoire
  <2>2. /\ requete'[q].etape = "prolongation" /\ requete'[q].r = r
        /\ \A p \in Requetes : p # q => requete'[p] = requete[p]
    BY <2>1 DEF Aller, LInv, JInv, UneDemande
  <2>3. PeriodesDues' = PeriodesDues \union {r}
    <3>1. \A p \in Requetes, s \in References :
            (En(p, "prolongation") /\ requete[p].r = s)'
              <=> (En(p, "prolongation") /\ requete[p].r = s) \/ (p = q /\ s = r)
      BY <1>1, <2>2 DEF En
    <3>2. QED
      BY <1>2, <3>1 DEF PeriodesDues
  <2>4. Etat' = [Etat EXCEPT ![r] = "VERIFIED"]
    BY <1>2, <2>1 DEF Etat, UnReglement
  <2>5. Objet' = Objet
    BY <1>2, <2>1 DEF Objet, UnReglement
  <2>6. Rachats' = Rachats
    BY <1>2, <2>1 DEF Rachats, UnReglement
  <2>7. GrandLivre!HonorerParPeriode(r)
    BY <1>1, <1>2, <1>4, <2>3, <2>4, <2>5, <2>6 DEF GrandLivre!HonorerParPeriode, Etat, Rachats
  <2>8. QED
    BY <1>2, <2>7 DEF GrandLivre!Next
<1>5. QED
  BY <1>3, <1>4

LEMMA ProlongerLivre ==
  ASSUME LInv, NEW q \in Requetes, Prolonger(q)
  PROVE  GrandLivre!Next
<1> DEFINE r == requete[q].r
<1>1. En(q, "prolongation") /\ UNCHANGED <<paiement, vendus>> /\ r \in References
  BY DEF Prolonger, LInv, JInv, Suit, EtapesDeRachat, En
<1>2. Aller(q, "ecriture") \/ Finir(q)
  BY DEF Prolonger
<1>3. r \in PeriodesDues /\ PeriodesDues' = PeriodesDues \ {r}
  BY <1>1, <1>2, EffetAller, EffetFinir, DusQuitte
<1>4. UNCHANGED <<Etat, Objet, Rachats>>
  BY <1>1 DEF Etat, Objet, Rachats
<1>5. CASE ticket[requete[q].v].um
  <2>1. PICK perdues \in 0..MaxRetries :
          /\ periodes' = [periodes EXCEPT ![r] = @ + 1 + perdues]
          /\ renvois' = [renvois EXCEPT ![r] = @ + perdues]
    BY <1>5 DEF Prolonger
  <2>2. GrandLivre!Ajouter(r, perdues)
    BY <1>1, <1>3, <1>4, <2>1 DEF GrandLivre!Ajouter
  <2>3. QED
    BY <1>1, <2>2 DEF GrandLivre!Next
<1>6. CASE ~ticket[requete[q].v].um
  BY <1>1, <1>3, <1>4, <1>6 DEF Prolonger, GrandLivre!Perdre, GrandLivre!Next
<1>7. QED
  BY <1>5, <1>6

LEMMA EcrireRejetLivre ==
  ASSUME LInv, NEW q \in Requetes, EcrireRejet(q)
  PROVE  GrandLivre!Next
<1> DEFINE r == requete[q].r
<1>1. En(q, "rejet") /\ Finir(q) /\ UNCHANGED <<vendus, periodes, renvois>>
  BY DEF EcrireRejet, temoins
<1>2. r \in References /\ paiement[r].status # "ABSENT"
  BY <1>1 DEF LInv, JInv, Suit, En
<1>3. PeriodesDues' = PeriodesDues
  BY <1>1, FinirDus DEF En
<1>4. /\ paiement \in [References -> UnReglement]
      /\ paiement' = [paiement EXCEPT ![r].status = "REJECTED"]
  BY DEF EcrireRejet, LInv, JInv, Memoire
<1>5. Etat' = [Etat EXCEPT ![r] = "REJECTED"]
  BY <1>2, <1>4 DEF Etat, UnReglement
<1>6. Objet' = Objet
  BY <1>2, <1>4 DEF Objet, UnReglement
<1>7. Rachats' = Rachats
  BY <1>2, <1>4 DEF Rachats, UnReglement
<1>8. GrandLivre!Refuser(r)
  BY <1>1, <1>2, <1>3, <1>5, <1>6, <1>7 DEF GrandLivre!Refuser, Etat
<1>9. QED
  BY <1>2, <1>8 DEF GrandLivre!Next

\* A request that is cut short at the prolongation loses the period; elsewhere the
\* ledger does not notice.
LEMMA EchouerLivre ==
  ASSUME LInv, NEW q \in Requetes, Echouer(q)
  PROVE  GrandLivre!Next \/ UNCHANGED GrandLivre!vars
<1>1. Finir(q) /\ UNCHANGED <<paiement, vendus, periodes, renvois>>
  BY DEF Echouer
<1>2. CASE ~En(q, "prolongation")
  BY <1>1, <1>2, FinirDus, HorsDuLivre
<1>3. CASE En(q, "prolongation")
  <2>1. requete[q].r \in References
    BY <1>3 DEF LInv, JInv, Suit, EtapesDeRachat, En
  <2>2. requete[q].r \in PeriodesDues /\ PeriodesDues' = PeriodesDues \ {requete[q].r}
    BY <1>1, <1>3, EffetFinir, DusQuitte
  <2>3. UNCHANGED <<Etat, Objet, Rachats>>
    BY <1>1 DEF Etat, Objet, Rachats
  <2>4. QED
    BY <1>1, <2>1, <2>2, <2>3 DEF GrandLivre!Perdre, GrandLivre!Next
<1>4. QED
  BY <1>2, <1>3

LEMMA InitLivre == Init => GrandLivre!Init
<1> SUFFICES ASSUME Init
             PROVE  GrandLivre!Init
  OBVIOUS
<1>1. /\ paiement = [r \in References |-> PasDePaiement]
      /\ \A q \in Requetes : requete[q].etape = "repos"
      /\ vendus = [r \in References |-> {}] /\ periodes = [r \in References |-> 0]
      /\ renvois = [r \in References |-> 0]
  BY DEF Init, Repos
<1>2. /\ Etat = [r \in References |-> "ABSENT"]
      /\ Objet = [r \in References |-> SansCode]
      /\ Rachats = {}
  BY <1>1 DEF Etat, Objet, Rachats, PasDePaiement
<1>3. PeriodesDues = {}
  BY <1>1 DEF PeriodesDues, En
<1>4. QED
  BY <1>1, <1>2, <1>3 DEF GrandLivre!Init

LEMMA NextLivre == LInv /\ [Next]_vars => [GrandLivre!Next]_GrandLivre!vars
<1> SUFFICES ASSUME LInv, [Next]_vars
             PROVE  GrandLivre!Next \/ UNCHANGED GrandLivre!vars
  OBVIOUS
<1>1. CASE \E r \in References, c \in Clients : Enregistrer(r, c)
  BY <1>1, EnregistrerLivre DEF GrandLivre!Next
<1>2. CASE \E q \in Requetes, r \in References, c \in Clients, v \in Noms, ou \in Pages :
             Declarer(q, r, c, v, ou)
  BY <1>2, DeclarerLivre
<1>3. CASE \E q \in Requetes, r \in References : Verifier(q, r) \/ Rejeter(q, r)
  BY <1>3, VerifierLivre, RejeterLivre
<1>4. CASE \E q \in Requetes, v \in Codes, s \in {"CANCELLED", "DISABLED"} : Retirer(q, v, s)
  BY <1>4, RetirerLivre
<1>5. ASSUME NEW q \in Requetes, Avancer(q)
      PROVE  GrandLivre!Next \/ UNCHANGED GrandLivre!vars
  <2>1. CASE Rattacher(q) \/ Racheter(q)
    BY <2>1, RattacherLivre
  <2>2. CASE Choisir(q) \/ Activer(q)
    BY <2>2, ChoisirLivre, ActiverLivre
  <2>3. CASE Vendre(q) \/ Reclamer(q)
    BY <2>3, VendreLivre, ReclamerLivre
  <2>4. CASE ReclamerReabonnement(q) \/ Prolonger(q)
    BY <2>4, ReclamerReabonnementLivre, ProlongerLivre
  <2>5. CASE EcrireRejet(q)
    BY <2>5, EcrireRejetLivre
  <2>6. QED
    BY <1>5, <2>1, <2>2, <2>3, <2>4, <2>5, PasseLivre DEF Avancer
<1>6. CASE \E q \in Requetes : Echouer(q)
  BY <1>6, EchouerLivre
<1>7. CASE UNCHANGED vars
  BY <1>7, HorsDuLivre DEF vars, temoins, PeriodesDues, En
<1>8. QED
  BY <1>1, <1>2, <1>3, <1>4, <1>5, <1>6, <1>7 DEF Next

\* A payment that waits keeps what it was recorded for: only the claim binds it.
LEMMA AttenteReserve ==
  ASSUME LInv, [Next]_vars
  PROVE  EnAttenteReserve'
<1>0. paiement \in [References -> UnReglement]
  BY DEF LInv, JInv, Memoire
<1>1. CASE GrandLivre!Next
  <2>1. PICK r \in References :
          \/ \E v \in Codes \union {SansCode}, rachat \in BOOLEAN : GrandLivre!Inscrire(r, v, rachat)
          \/ \E v \in Codes : GrandLivre!Servir(r, v) \/ GrandLivre!HonorerParTicket(r, v)
          \/ GrandLivre!HonorerParPeriode(r) \/ GrandLivre!Perdre(r)
          \/ \E perdues \in 0..MaxRetries : GrandLivre!Ajouter(r, perdues)
          \/ GrandLivre!Refuser(r)
    BY <1>1 DEF GrandLivre!Next
  <2>2. \A s \in References :
          /\ Etat[s] = paiement[s].status /\ Objet[s] = paiement[s].voucherId
          /\ Etat'[s] = paiement'[s].status /\ Objet'[s] = paiement'[s].voucherId
    BY DEF Etat, Objet
  <2>3. \A s \in References :
          Etat'[s] = "PENDING" => \/ Etat[s] = "PENDING" /\ Objet'[s] = Objet[s]
                                  \/ Objet'[s] \in Noms \union {SansCode}
    BY <2>1 DEF GrandLivre!Inscrire, GrandLivre!Servir, GrandLivre!HonorerParTicket,
                GrandLivre!HonorerParPeriode, GrandLivre!Ajouter, GrandLivre!Perdre, GrandLivre!Refuser,
                Etat, Objet
  <2>4. QED
    BY <2>2, <2>3 DEF LInv, EnAttenteReserve
<1>2. CASE UNCHANGED GrandLivre!vars
  <2>1. \A s \in References : paiement'[s].status = paiement[s].status
                              /\ paiement'[s].voucherId = paiement[s].voucherId
    BY <1>2 DEF GrandLivre!vars, Etat, Objet
  <2>2. QED
    BY <2>1 DEF LInv, EnAttenteReserve
<1>3. QED
  BY <1>1, <1>2, NextLivre

\* The invariant of the ledger holds in every behaviour.
THEOREM InvarianceDuLivre == Spec => []LInv
<1>1. Init => EnAttenteReserve
  BY DEF Init, EnAttenteReserve, PasDePaiement
<1>2. Init => LInv
  BY <1>1, InitIInv, InitJInv DEF LInv
<1>3. LInv /\ [Next]_vars => LInv'
  BY NextIInv, NextJInv, AttenteReserve DEF LInv
<1>4. QED
  BY <1>2, <1>3, PTL DEF Spec

\* Requests, interruptions and retired tickets included, what the till sees of the
\* sale is PaymentLedger: a payment is honoured once and never waits again, and
\* adds no more than one period and those of the answers that were lost.
THEOREM LeGrandLivreEstTenu == Spec => TientLeGrandLivre
<1>1. Init => GrandLivre!Init
  BY InitLivre
<1>2. LInv /\ [Next]_vars => [GrandLivre!Next]_GrandLivre!vars
  BY NextLivre
<1>3. QED
  BY <1>1, <1>2, InvarianceDuLivre, PTL DEF Spec, TientLeGrandLivre, GrandLivre!Spec
=============================================================================
