--------------------------- MODULE LoginPageProofs ---------------------------
(***************************************************************************)
(* The row of a publication is true to the page, for any number of         *)
(* gestures, folders and addresses.                                        *)
(*                                                                         *)
(* The row gets the first reading of the settings and the page the second: *)
(* the invariant says what a gesture knows of the two at each of its       *)
(* steps, until somebody saves or rewrites behind its back.                *)
(***************************************************************************)
EXTENDS LoginPage, TLAPS

\* What a gesture holds, with the settings (p) and the pages (pg) as they are.
Juste(b, p, pg) ==
  /\ b.etape \in {"enregistrer", "ouvrir"} => b.cible \in Adresses
  /\ b.etape \in {"composer", "ecrire", "inscrire"} => b.lu \in Adresses
  /\ b.etape = "composer" /\ ~b.sauve => b.lu = p
  /\ b.etape \in {"ecrire", "inscrire"} /\ ~b.sauve => b.gravee = b.lu
  /\ b.etape = "inscrire" => b.c \in Dossiers /\ (~b.double => pg[b.c] = b.gravee)

GestesJustes == \A r \in Requetes : Juste(requete[r], portail, page)

IInv == TypeOK /\ GestesJustes /\ PublicationFidele

-----------------------------------------------------------------------------
\* A gesture that is only disturbed keeps what it holds.
LEMMA DerangeJuste ==
  ASSUME NEW b \in Actes, NEW p, NEW pg, NEW x \in BOOLEAN, Juste(b, p, pg)
  PROVE  [b EXCEPT !.derange = x] \in Actes /\ Juste([b EXCEPT !.derange = x], p, pg)
BY DEF Actes, Juste

\* The settings are saved: what has not composed yet is overtaken.
LEMMA DepasserJuste ==
  ASSUME NEW b \in Actes, NEW p, NEW np, NEW pg, Juste(b, p, pg)
  PROVE  Depasser(b) \in Actes /\ Juste(Depasser(b), np, pg)
<1>1. CASE b.etape = "composer"
  BY <1>1 DEF Actes, Juste, Depasser
<1>2. CASE b.etape # "composer"
  BY <1>2 DEF Actes, Juste, Depasser
<1>3. QED
  BY <1>1, <1>2

\* A page is rewritten under a gesture that was about to write its row.
LEMMA ReecrireJuste ==
  ASSUME NEW b \in Actes, NEW p, NEW d \in Dossiers, NEW v,
         NEW pg \in [Dossiers -> Adresses \union {Vide, Usine}], Juste(b, p, pg)
  PROVE  /\ Reecrire(b, d) \in Actes
         /\ Juste(Reecrire(b, d), p, [pg EXCEPT ![d] = v])
<1>1. CASE b.etape = "inscrire" /\ b.c = d
  BY <1>1 DEF Actes, Juste, Reecrire
<1>2. CASE ~(b.etape = "inscrire" /\ b.c = d)
  BY <1>2 DEF Actes, Juste, Reecrire
<1>3. QED
  BY <1>1, <1>2

\* What every gesture holds and every type, from those of the gestures one by one.
LEMMA ReposJuste == Repos \in Actes /\ \A p, pg : Juste(Repos, p, pg)
BY DEF Repos, Actes, Etapes, Juste

-----------------------------------------------------------------------------
THEOREM InitIInv == Init => IInv
<1> SUFFICES ASSUME Init PROVE IInv
  OBVIOUS
<1>1. TypeOK
  BY ConstantesPage, AdressesPropres, ReposJuste DEF Init, TypeOK, Usine, Absente, ConstantesPage
<1>2. GestesJustes
  BY ReposJuste DEF Init, GestesJustes
<1>3. PublicationFidele
  BY DEF Init, PublicationFidele
<1>4. QED
  BY <1>1, <1>2, <1>3 DEF IInv

\* A step that writes no page and no row: the gestures must stay just, and a gesture
\* that gives up its row must leave the reason.
LEMMA PasCalme ==
  ASSUME IInv, page' = page, publication' = publication,
         console' \in Adresses, portail' \in Adresses \union {Vide},
         servis' \subseteq Dossiers, jardin' \subseteq Adresses,
         gestes' \in 0..MaxGestes, mains' \in 0..MaxMains,
         ecart' \in [Dossiers -> SUBSET Ecarts],
         \A d \in Dossiers : ecart[d] \subseteq ecart'[d],
         requete' \in [Requetes -> Actes],
         \A q \in Requetes : Juste(requete'[q], portail', page),
         \A q \in Requetes : En(q, "inscrire") =>
           \/ requete'[q].etape = "inscrire" /\ requete'[q].c = requete[q].c
           \/ ecart'[requete[q].c] # {}
  PROVE  IInv'
<1>1. TypeOK'
  BY DEF IInv, TypeOK
<1>2. GestesJustes'
  BY DEF GestesJustes
<1>3. PublicationFidele'
  BY DEF IInv, TypeOK, PublicationFidele, En
<1>4. QED
  BY <1>1, <1>2, <1>3 DEF IInv

\* The beginning of a gesture disturbs others, and no more.
LEMMA DebutIInv ==
  ASSUME IInv, NEW r \in Requetes, NEW b \in Actes, \A p, pg : Juste(b, p, pg), Debut(r, b)
  PROVE  IInv'
<1> DEFINE D == {q \in EnCours : Derangent(q, b)}
           n == [b EXCEPT !.derange = D # {}]
           o(q) == [requete[q] EXCEPT !.derange = TRUE]
<1>1. n \in Actes /\ Juste(n, portail, page)
  BY DerangeJuste
<1>2. ASSUME NEW q \in Requetes
      PROVE  /\ requete[q] \in Actes /\ Juste(requete[q], portail, page)
             /\ o(q) \in Actes /\ Juste(o(q), portail, page)
             /\ o(q).etape = requete[q].etape /\ o(q).c = requete[q].c
  <2>1. requete[q] \in Actes /\ Juste(requete[q], portail, page)
    BY DEF IInv, TypeOK, GestesJustes
  <2>2. o(q) \in Actes /\ Juste(o(q), portail, page)
    BY <2>1, DerangeJuste
  <2>3. o(q).etape = requete[q].etape /\ o(q).c = requete[q].c
    BY <2>1 DEF Actes
  <2>4. QED
    BY <2>1, <2>2, <2>3
<1>3. requete' = [q \in Requetes |-> IF q = r THEN n ELSE IF q \in D THEN o(q) ELSE requete[q]]
  BY DEF Debut
<1>4. gestes' \in 0..MaxGestes
  BY ConstantesPage DEF Debut, IInv, TypeOK, ConstantesPage
<1>5. En(r, "repos")
  BY DEF Debut
<1> HIDE DEF D, n, o
<1>6. \A q \in Requetes : /\ requete'[q] \in Actes /\ Juste(requete'[q], portail, page)
                          /\ En(q, "inscrire") => /\ requete'[q].etape = "inscrire"
                                                  /\ requete'[q].c = requete[q].c
  BY <1>1, <1>2, <1>3, <1>5 DEF En
<1>7. requete' \in [Requetes -> Actes]
  BY <1>3, <1>6
<1>8. UNCHANGED <<console, portail, servis, jardin, page, publication, mains, ecart>>
  BY DEF Debut, routeur
<1>9. QED
  BY <1>4, <1>6, <1>7, <1>8, PasCalme DEF IInv, TypeOK

\* One gesture goes one step further, the others stay.
LEMMA SeulIInv ==
  ASSUME IInv, NEW r \in Requetes, NEW n \in Actes, Juste(n, portail, page), Mettre(r, n),
         UNCHANGED <<console, portail, servis, page, publication, bornes>>,
         jardin' \subseteq Adresses,
         ecart' \in [Dossiers -> SUBSET Ecarts],
         \A d \in Dossiers : ecart[d] \subseteq ecart'[d],
         En(r, "inscrire") => ecart'[requete[r].c] # {}
  PROVE  IInv'
<1>1. requete \in [Requetes -> Actes] /\ requete' = [requete EXCEPT ![r] = n]
  BY DEF IInv, TypeOK, Mettre
<1>2. \A q \in Requetes : requete'[q] \in Actes /\ Juste(requete'[q], portail, page)
  BY <1>1 DEF IInv, GestesJustes
<1>3. requete' \in [Requetes -> Actes]
  BY <1>1
<1>4. \A q \in Requetes : En(q, "inscrire") =>
        \/ requete'[q].etape = "inscrire" /\ requete'[q].c = requete[q].c
        \/ ecart'[requete[q].c] # {}
  BY <1>1 DEF En
<1>5. QED
  BY <1>2, <1>3, <1>4, PasCalme DEF IInv, TypeOK, bornes

LEMMA OuvrirIInv ==
  ASSUME IInv, NEW r \in Requetes, Ouvrir(r)
  PROVE  IInv'
<1> DEFINE b == requete[r]
           n == [b EXCEPT !.etape = "etat"]
<1>1. b \in Actes /\ b.etape = "ouvrir" /\ Juste(b, portail, page)
  BY DEF IInv, TypeOK, GestesJustes, Ouvrir, En
<1>2. n \in Actes /\ Juste(n, portail, page)
  BY <1>1 DEF Actes, Etapes, Juste
<1>3. b.cible \in Adresses
  BY <1>1 DEF Juste
<1>4. jardin' \subseteq Adresses
  BY <1>3 DEF Ouvrir, IInv, TypeOK
<1>5. Mettre(r, n) /\ ~En(r, "inscrire")
  BY <1>1 DEF Ouvrir, Aller, En
<1> HIDE DEF n, b
<1>6. QED
  BY <1>2, <1>4, <1>5, SeulIInv DEF Ouvrir, IInv, TypeOK

LEMMA LireEtatIInv ==
  ASSUME IInv, NEW r \in Requetes, LireEtat(r)
  PROVE  IInv'
<1> DEFINE b == requete[r]
           n == [b EXCEPT !.etape = "composer", !.lu = portail, !.reste = servis, !.sauve = FALSE]
<1>1. b \in Actes /\ b.etape = "etat" /\ portail \in Adresses \union {Vide} /\ servis \subseteq Dossiers
  BY DEF IInv, TypeOK, LireEtat, En
<1>2. ~En(r, "inscrire") /\ UNCHANGED <<console, portail, servis, jardin, page, publication, bornes, ecart>>
  BY DEF LireEtat, En, routeur
<1>3. CASE servis = {} \/ portail = Vide
  <2>1. Mettre(r, Repos)
    BY <1>3 DEF LireEtat, Finir
  <2>2. QED
    BY <2>1, <1>2, ReposJuste, SeulIInv DEF IInv, TypeOK
<1>4. CASE ~(servis = {} \/ portail = Vide)
  <2>1. Mettre(r, n)
    BY <1>4 DEF LireEtat
  <2>2. n \in Actes
    BY <1>1 DEF Actes, Etapes
  <2>3. n.etape = "composer" /\ n.lu = portail
    BY <1>1 DEF Actes
  <2>4. Juste(n, portail, page)
    BY <1>1, <1>4, <2>3 DEF Juste
  <2> HIDE DEF n
  <2>5. QED
    BY <2>1, <2>2, <2>4, <1>2, SeulIInv DEF IInv, TypeOK
<1>5. QED
  BY <1>3, <1>4

LEMMA ComposerIInv ==
  ASSUME IInv, NEW r \in Requetes, Composer(r)
  PROVE  IInv'
<1> DEFINE b == requete[r]
           n == [b EXCEPT !.etape = "ecrire", !.gravee = portail]
<1>1. /\ b \in Actes /\ b.etape = "composer" /\ portail \in Adresses \union {Vide}
      /\ Juste(b, portail, page)
  BY DEF IInv, TypeOK, GestesJustes, Composer, En
<1>2. /\ ~En(r, "inscrire") /\ Mettre(r, n)
      /\ UNCHANGED <<console, portail, servis, jardin, page, publication, bornes, ecart>>
  BY DEF Composer, En, routeur
<1>3. n \in Actes
  BY <1>1 DEF Actes, Etapes
<1>4. n.etape = "ecrire" /\ n.gravee = portail /\ n.lu = b.lu /\ n.sauve = b.sauve
  BY <1>1 DEF Actes
<1>5. Juste(n, portail, page)
  BY <1>1, <1>4 DEF Juste
<1> HIDE DEF n, b
<1>6. QED
  BY <1>2, <1>3, <1>5, SeulIInv DEF IInv, TypeOK

\* A gesture that gives up between the page and its row leaves the cut as the reason.
LEMMA CouperIInv ==
  ASSUME IInv, NEW r \in Requetes, Couper(r)
  PROVE  IInv'
<1>1. requete[r] \in Actes /\ Juste(requete[r], portail, page)
  BY DEF IInv, TypeOK, GestesJustes
<1>2. Mettre(r, Repos) /\ UNCHANGED <<console, portail, servis, jardin, page, publication, bornes>>
  BY DEF Couper, Finir, routeur
<1>3. CASE En(r, "inscrire")
  <2>1. requete[r].c \in Dossiers
    BY <1>1, <1>3 DEF Juste, En
  <2>2. ecart' = [ecart EXCEPT ![requete[r].c] = @ \union {"coupure"}]
    BY <1>3 DEF Couper
  <2>3. QED
    BY <1>2, <1>3, <2>1, <2>2, ReposJuste, SeulIInv DEF IInv, TypeOK, Ecarts
<1>4. CASE ~En(r, "inscrire")
  BY <1>2, <1>4, ReposJuste, SeulIInv DEF IInv, TypeOK, Couper
<1>5. QED
  BY <1>3, <1>4

LEMMA RendreIInv ==
  ASSUME IInv, NEW r \in Requetes, Rendre(r)
  PROVE  IInv'
<1>1. /\ Mettre(r, Repos) /\ ~En(r, "inscrire")
      /\ UNCHANGED <<console, portail, servis, jardin, page, publication, bornes, ecart>>
  BY DEF Rendre, Finir, routeur, En
<1>2. QED
  BY <1>1, ReposJuste, SeulIInv DEF IInv, TypeOK

-----------------------------------------------------------------------------
\* The settings are saved, by a repair or by hand: every reading before is overtaken.
LEMMA EnregistrerIInv ==
  ASSUME IInv, NEW r \in Requetes, Enregistrer(r)
  PROVE  IInv'
<1> DEFINE b == requete[r]
           n == [b EXCEPT !.etape = IF b.reste = {} THEN "etat" ELSE "ouvrir"]
<1>1. b \in Actes /\ b.etape = "enregistrer" /\ Juste(b, portail, page)
  BY DEF IInv, TypeOK, GestesJustes, Enregistrer, En
<1>2. b.cible \in Adresses /\ portail' = b.cible
  BY <1>1 DEF Juste, Enregistrer, Sauver
<1>3. n \in Actes
  BY <1>1 DEF Actes, Etapes
<1>4. n.cible = b.cible /\ n.etape \in {"etat", "ouvrir"}
  BY <1>1 DEF Actes
<1>5. Juste(n, portail', page)
  BY <1>2, <1>4 DEF Juste
<1>6. requete' = [q \in Requetes |-> IF q = r THEN n ELSE Depasser(requete[q])]
  BY DEF Enregistrer
<1>7. ASSUME NEW q \in Requetes
      PROVE  /\ Depasser(requete[q]) \in Actes /\ Juste(Depasser(requete[q]), portail', page)
             /\ En(q, "inscrire") => Depasser(requete[q]) = requete[q]
  <2>1. requete[q] \in Actes /\ Juste(requete[q], portail, page)
    BY DEF IInv, TypeOK, GestesJustes
  <2>2. QED
    BY <2>1, DepasserJuste DEF Depasser, En
<1>8. ~En(r, "inscrire")
  BY <1>1 DEF En
<1> HIDE DEF n, b
<1>9. \A q \in Requetes : /\ requete'[q] \in Actes /\ Juste(requete'[q], portail', page)
                          /\ En(q, "inscrire") => requete'[q] = requete[q]
  BY <1>3, <1>5, <1>6, <1>7, <1>8
<1>10. requete' \in [Requetes -> Actes]
  BY <1>6, <1>9
<1>11. UNCHANGED <<console, servis, jardin, page, publication, bornes, ecart>>
  BY DEF Enregistrer, routeur
<1>12. portail' \in Adresses \union {Vide}
  BY <1>2
<1>13. QED
  BY <1>9, <1>10, <1>11, <1>12, PasCalme DEF IInv, TypeOK, bornes, En

\* What a hand does to a gesture in progress, and to one at rest.
LEMMA DerangerJuste ==
  ASSUME IInv, NEW q \in Requetes
  PROVE  LET o == [requete[q] EXCEPT !.derange = TRUE] IN
         /\ o \in Actes /\ Juste(o, portail, page)
         /\ o.etape = requete[q].etape /\ o.c = requete[q].c
<1>1. requete[q] \in Actes /\ Juste(requete[q], portail, page)
  BY DEF IInv, TypeOK, GestesJustes
<1>2. QED
  BY <1>1, DerangeJuste DEF Actes

\* A hand that touches no page and no settings.
LEMMA MainIInv ==
  ASSUME IInv, ALaMain, Deranger, UNCHANGED <<portail, page, ecart>>,
         console' \in Adresses, servis' \subseteq Dossiers, jardin' \subseteq Adresses
  PROVE  IInv'
<1> DEFINE o(q) == [requete[q] EXCEPT !.derange = TRUE]
<1>1. requete' = [q \in Requetes |-> IF q \in EnCours THEN o(q) ELSE Repos]
  BY DEF Deranger
<1>2. \A q \in Requetes : /\ o(q) \in Actes /\ Juste(o(q), portail, page)
                          /\ o(q).etape = requete[q].etape /\ o(q).c = requete[q].c
  BY DerangerJuste
<1>3. gestes' \in 0..MaxGestes /\ mains' \in 0..MaxMains /\ publication' = publication
  BY ConstantesPage DEF ALaMain, IInv, TypeOK, ConstantesPage
<1>4. \A q \in Requetes : q \notin EnCours => ~En(q, "inscrire")
  BY DEF EnCours, En
<1> HIDE DEF o
<1>5. \A q \in Requetes : /\ requete'[q] \in Actes /\ Juste(requete'[q], portail', page)
                          /\ En(q, "inscrire") => /\ requete'[q].etape = "inscrire"
                                                  /\ requete'[q].c = requete[q].c
  BY <1>1, <1>2, <1>4, ReposJuste DEF En
<1>6. requete' \in [Requetes -> Actes]
  BY <1>1, <1>5
<1>7. QED
  BY <1>3, <1>5, <1>6, PasCalme DEF IInv, TypeOK

LEMMA FormulaireIInv ==
  ASSUME IInv, NEW p \in Adresses \union {Vide}, EnregistrerLeFormulaire(p)
  PROVE  IInv'
<1> DEFINE o(q) == [Depasser(requete[q]) EXCEPT !.derange = TRUE]
<1>1. ASSUME NEW q \in Requetes
      PROVE  /\ o(q) \in Actes /\ Juste(o(q), p, page)
             /\ En(q, "inscrire") => o(q).etape = "inscrire" /\ o(q).c = requete[q].c
  <2>1. requete[q] \in Actes /\ Juste(requete[q], portail, page)
    BY DEF IInv, TypeOK, GestesJustes
  <2>2. Depasser(requete[q]) \in Actes /\ Juste(Depasser(requete[q]), p, page)
    BY <2>1, DepasserJuste
  <2>3. o(q) \in Actes /\ Juste(o(q), p, page)
    BY <2>2, DerangeJuste
  <2>4. En(q, "inscrire") => Depasser(requete[q]) = requete[q]
    BY DEF Depasser, En
  <2>5. o(q).etape = Depasser(requete[q]).etape /\ o(q).c = Depasser(requete[q]).c
    BY <2>2 DEF Actes
  <2>6. QED
    BY <2>3, <2>4, <2>5 DEF En
<1>2. requete' = [q \in Requetes |-> IF q \in EnCours THEN o(q) ELSE Repos]
  BY DEF EnregistrerLeFormulaire
<1>3. /\ gestes' \in 0..MaxGestes /\ mains' \in 0..MaxMains /\ publication' = publication
      /\ portail' = p /\ UNCHANGED <<console, servis, jardin, page, ecart>>
  BY ConstantesPage
  DEF EnregistrerLeFormulaire, Sauver, ALaMain, routeur, IInv, TypeOK, ConstantesPage
<1>4. \A q \in Requetes : q \notin EnCours => ~En(q, "inscrire")
  BY DEF EnCours, En
<1> HIDE DEF o
<1>5. \A q \in Requetes : /\ requete'[q] \in Actes /\ Juste(requete'[q], p, page)
                          /\ En(q, "inscrire") => /\ requete'[q].etape = "inscrire"
                                                  /\ requete'[q].c = requete[q].c
  BY <1>1, <1>2, <1>4, ReposJuste
<1>6. requete' \in [Requetes -> Actes]
  BY <1>2, <1>5
<1>7. QED
  BY <1>3, <1>5, <1>6, PasCalme DEF IInv, TypeOK

-----------------------------------------------------------------------------
\* A page is rewritten: its row is about to follow.
LEMMA EcrireIInv ==
  ASSUME IInv, NEW r \in Requetes, NEW d \in Dossiers, Ecrire(r, d)
  PROVE  IInv'
<1> DEFINE b == requete[r]
           n == [b EXCEPT !.etape = "inscrire", !.c = d, !.double = FALSE]
<1>1. b \in Actes /\ b.etape = "ecrire" /\ Juste(b, portail, page)
  BY DEF IInv, TypeOK, GestesJustes, Ecrire, En
<1>2. page \in [Dossiers -> Adresses \union {Vide, Usine}] /\ b.gravee \in Adresses \union {Vide}
  BY <1>1 DEF IInv, TypeOK, Actes
<1>3. page' = [page EXCEPT ![d] = b.gravee]
  BY DEF Ecrire
<1>4. n \in Actes
  BY <1>1 DEF Actes, Etapes
<1>5. /\ n.etape = "inscrire" /\ n.c = d /\ n.gravee = b.gravee /\ n.lu = b.lu
      /\ n.sauve = b.sauve
  BY <1>1 DEF Actes
<1>6. Juste(n, portail, page')
  BY <1>1, <1>2, <1>3, <1>5 DEF Juste
<1>7. requete' = [q \in Requetes |-> IF q = r THEN n ELSE Reecrire(requete[q], d)]
  BY DEF Ecrire
<1>8. ASSUME NEW q \in Requetes
      PROVE  /\ Reecrire(requete[q], d) \in Actes /\ Juste(Reecrire(requete[q], d), portail, page')
             /\ Reecrire(requete[q], d).etape = requete[q].etape
             /\ Reecrire(requete[q], d).c = requete[q].c
  <2>1. requete[q] \in Actes /\ Juste(requete[q], portail, page)
    BY DEF IInv, TypeOK, GestesJustes
  <2>2. Reecrire(requete[q], d) \in Actes /\ Juste(Reecrire(requete[q], d), portail, page')
    BY <2>1, <1>2, <1>3, ReecrireJuste
  <2>3. QED
    BY <2>1, <2>2 DEF Reecrire, Actes
<1>9. requete[r].etape = "ecrire"
  BY <1>1
<1>10. Usine \notin Adresses \union {Vide}
  BY AdressesPropres DEF Usine, Vide
<1>11. UNCHANGED <<console, portail, servis, jardin, publication, gestes, mains, ecart>>
  BY DEF Ecrire, bornes
<1> HIDE DEF n, b
<1>12. \A q \in Requetes : requete'[q] \in Actes /\ Juste(requete'[q], portail, page')
  BY <1>4, <1>6, <1>7, <1>8
<1>13. requete' \in [Requetes -> Actes]
  BY <1>7, <1>12
<1>14. page' \in [Dossiers -> Adresses \union {Vide, Usine}]
  BY <1>2, <1>3
<1>15. \A e \in Dossiers : publication[e] # Absente => page'[e] # Usine \/ ecart[e] # {}
  BY <1>2, <1>3, <1>10 DEF IInv, TypeOK
<1>16. TypeOK'
  BY <1>11, <1>13, <1>14, <1>15 DEF IInv, TypeOK
<1>17. PublicationFidele'
  <2> SUFFICES ASSUME NEW e \in Dossiers, publication[e] \notin {Absente, page'[e]}, ecart[e] = {}
               PROVE  \E q \in Requetes : requete'[q].etape = "inscrire" /\ requete'[q].c = e
    BY <1>11 DEF PublicationFidele, En
  <2>1. CASE e = d
    BY <2>1, <1>5, <1>7
  <2>2. CASE e # d
    <3>1. PICK q \in Requetes : En(q, "inscrire") /\ requete[q].c = e
      BY <2>2, <1>2, <1>3 DEF IInv, PublicationFidele
    <3>2. q # r
      BY <3>1, <1>9 DEF En
    <3>3. QED
      BY <3>1, <3>2, <1>7, <1>8 DEF En
  <2>3. QED
    BY <2>1, <2>2
<1>18. QED
  BY <1>11, <1>12, <1>16, <1>17 DEF IInv, GestesJustes

\* The row is written: it says what the page carries, or the gesture was overtaken.
LEMMA InscrireIInv ==
  ASSUME IInv, NEW r \in Requetes, Inscrire(r)
  PROVE  IInv'
<1> DEFINE b == requete[r]
           n == ApresInscription(b)
<1>1. b \in Actes /\ b.etape = "inscrire" /\ Juste(b, portail, page)
  BY DEF IInv, TypeOK, GestesJustes, Inscrire, En
<1>2. b.lu \in Adresses /\ b.c \in Dossiers /\ b.gravee \in Adresses \union {Vide}
  BY <1>1 DEF Juste, Actes
<1>3. n \in Actes
  BY <1>1 DEF Actes, Etapes, ApresInscription
<1>4. n.etape \in {"fin", "ecrire"} /\ n.lu = b.lu /\ n.gravee = b.gravee /\ n.sauve = b.sauve
  BY <1>1 DEF Actes, ApresInscription
<1>5. Juste(n, portail, page)
  BY <1>1, <1>2, <1>4 DEF Juste
<1>6. /\ publication' = [publication EXCEPT ![b.c] = b.lu]
      /\ ecart' = [ecart EXCEPT ![b.c] = Causes(b)]
      /\ requete' = [requete EXCEPT ![r] = n]
      /\ UNCHANGED <<console, portail, servis, jardin, page, gestes, mains>>
  BY DEF Inscrire, Mettre, routeur, bornes
<1>7. /\ requete \in [Requetes -> Actes]
      /\ publication \in [Dossiers -> Adresses \union {Absente}]
      /\ ecart \in [Dossiers -> SUBSET Ecarts]
  BY DEF IInv, TypeOK
<1>8. Causes(b) \subseteq Ecarts
  BY DEF Causes, Ecarts
<1>9. Causes(b) = {} => page[b.c] = b.lu
  BY <1>1 DEF Causes, Juste
<1>10. Causes(b) = {} => page[b.c] # Usine
  BY <1>2, <1>9, AdressesPropres
<1> HIDE DEF n
<1>11. requete' \in [Requetes -> Actes]
       /\ \A q \in Requetes : Juste(requete'[q], portail, page)
  BY <1>3, <1>5, <1>6, <1>7 DEF IInv, GestesJustes
<1>12. TypeOK'
  <2>1. publication' \in [Dossiers -> Adresses \union {Absente}]
        /\ ecart' \in [Dossiers -> SUBSET Ecarts]
    BY <1>2, <1>6, <1>7, <1>8
  <2>2. \A e \in Dossiers : publication'[e] # Absente => page[e] # Usine \/ ecart'[e] # {}
    BY <1>6, <1>7, <1>10 DEF IInv, TypeOK
  <2>3. QED
    BY <2>1, <2>2, <1>6, <1>11 DEF IInv, TypeOK
<1>13. PublicationFidele'
  <2> SUFFICES ASSUME NEW e \in Dossiers, publication'[e] \notin {Absente, page[e]}, ecart'[e] = {}
               PROVE  \E q \in Requetes : requete'[q].etape = "inscrire" /\ requete'[q].c = e
    BY <1>6 DEF PublicationFidele, En
  <2>1. e # b.c
    BY <1>6, <1>7, <1>9
  <2>2. PICK q \in Requetes : En(q, "inscrire") /\ requete[q].c = e
    BY <2>1, <1>6, <1>7 DEF IInv, PublicationFidele
  <2>3. requete'[q] = requete[q]
    BY <2>1, <2>2, <1>6, <1>7
  <2>4. QED
    BY <2>2, <2>3 DEF En
<1>14. QED
  BY <1>6, <1>11, <1>12, <1>13 DEF IInv, GestesJustes

\* Pages are rewritten by a hand, which is the reason their rows may differ: S are the
\* folders, o(q) what becomes of a gesture in progress.
LEMMA PagesIInv ==
  ASSUME IInv, ALaMain, NEW S \in SUBSET Dossiers,
         UNCHANGED <<console, portail, servis>>, jardin' \subseteq Adresses,
         page' \in [Dossiers -> Adresses \union {Vide, Usine}],
         \A e \in Dossiers \ S : page'[e] = page[e] /\ ecart'[e] = ecart[e],
         ecart' \in [Dossiers -> SUBSET Ecarts],
         \A e \in S : ecart'[e] # {},
         requete' \in [Requetes -> Actes],
         \A q \in Requetes : Juste(requete'[q], portail, page'),
         \A q \in Requetes : En(q, "inscrire") => /\ requete'[q].etape = "inscrire"
                                                 /\ requete'[q].c = requete[q].c
  PROVE  IInv'
<1>1. gestes' \in 0..MaxGestes /\ mains' \in 0..MaxMains /\ publication' = publication
  BY ConstantesPage DEF ALaMain, IInv, TypeOK, ConstantesPage
<1>2. \A e \in Dossiers : publication[e] # Absente => page'[e] # Usine \/ ecart'[e] # {}
  BY DEF IInv, TypeOK
<1>3. TypeOK'
  BY <1>1, <1>2 DEF IInv, TypeOK
<1>4. PublicationFidele'
  <2> SUFFICES ASSUME NEW e \in Dossiers, publication[e] \notin {Absente, page'[e]}, ecart'[e] = {}
               PROVE  \E q \in Requetes : requete'[q].etape = "inscrire" /\ requete'[q].c = e
    BY <1>1 DEF PublicationFidele, En
  <2>1. page'[e] = page[e] /\ ecart[e] = {}
    OBVIOUS
  <2>2. PICK q \in Requetes : En(q, "inscrire") /\ requete[q].c = e
    BY <2>1 DEF IInv, PublicationFidele
  <2>3. QED
    BY <2>2
<1>5. QED
  BY <1>3, <1>4 DEF IInv, GestesJustes

LEMMA RemplacerIInv ==
  ASSUME IInv, NEW d \in Dossiers, NEW v \in Adresses \union {Usine}, RemplacerPage(d, v)
  PROVE  IInv'
<1> DEFINE o(q) == [Reecrire(requete[q], d) EXCEPT !.derange = TRUE]
<1>1. /\ page \in [Dossiers -> Adresses \union {Vide, Usine}]
      /\ ecart \in [Dossiers -> SUBSET Ecarts]
      /\ page' = [page EXCEPT ![d] = v]
      /\ ecart' = [ecart EXCEPT ![d] = @ \union {"main"}]
      /\ requete' = [q \in Requetes |-> IF q \in EnCours THEN o(q) ELSE Repos]
      /\ jardin' \subseteq Adresses
  BY DEF RemplacerPage, IInv, TypeOK
<1>2. ASSUME NEW q \in Requetes
      PROVE  /\ o(q) \in Actes /\ Juste(o(q), portail, page')
             /\ o(q).etape = requete[q].etape /\ o(q).c = requete[q].c
  <2>1. requete[q] \in Actes /\ Juste(requete[q], portail, page)
    BY DEF IInv, TypeOK, GestesJustes
  <2>2. Reecrire(requete[q], d) \in Actes /\ Juste(Reecrire(requete[q], d), portail, page')
    BY <2>1, <1>1, ReecrireJuste
  <2>3. o(q) \in Actes /\ Juste(o(q), portail, page')
    BY <2>2, DerangeJuste
  <2>4. o(q).etape = Reecrire(requete[q], d).etape /\ o(q).c = Reecrire(requete[q], d).c
    BY <2>2 DEF Actes
  <2>5. QED
    BY <2>1, <2>3, <2>4 DEF Reecrire, Actes
<1>3. \A q \in Requetes : q \notin EnCours => ~En(q, "inscrire")
  BY DEF EnCours, En
<1> HIDE DEF o
<1>4. \A q \in Requetes : /\ requete'[q] \in Actes /\ Juste(requete'[q], portail, page')
                          /\ En(q, "inscrire") => /\ requete'[q].etape = "inscrire"
                                                  /\ requete'[q].c = requete[q].c
  BY <1>1, <1>2, <1>3, ReposJuste DEF En
<1>5. requete' \in [Requetes -> Actes]
  BY <1>1, <1>4
<1>6. /\ page' \in [Dossiers -> Adresses \union {Vide, Usine}]
      /\ ecart' \in [Dossiers -> SUBSET Ecarts]
      /\ \A e \in Dossiers \ {d} : page'[e] = page[e] /\ ecart'[e] = ecart[e]
      /\ \A e \in {d} : ecart'[e] # {}
  BY <1>1 DEF Ecarts
<1>7. ALaMain /\ UNCHANGED <<console, portail, servis>> /\ {d} \in SUBSET Dossiers
  BY DEF RemplacerPage
<1>8. QED
  BY <1>1, <1>4, <1>5, <1>6, <1>7, PagesIInv

LEMMA ScriptIInv ==
  ASSUME IInv, PoserParScript
  PROVE  IInv'
<1> DEFINE vise(q) == En(q, "inscrire") /\ requete[q].c \in servis
           o(q) == [requete[q] EXCEPT !.derange = TRUE, !.double = @ \/ vise(q)]
<1>1. /\ page \in [Dossiers -> Adresses \union {Vide, Usine}] /\ servis \subseteq Dossiers
      /\ ecart \in [Dossiers -> SUBSET Ecarts]
      /\ page' = [d \in Dossiers |-> IF d \in servis THEN portail ELSE page[d]]
      /\ ecart' = [d \in Dossiers |-> IF d \in servis THEN ecart[d] \union {"main"} ELSE ecart[d]]
      /\ requete' = [q \in Requetes |-> IF q \in EnCours THEN o(q) ELSE Repos]
      /\ portail \in Adresses \union {Vide}
  BY DEF PoserParScript, IInv, TypeOK
<1>2. jardin' \subseteq Adresses
  <2>1. SansPort[console] \in Adresses /\ jardin \subseteq Adresses
    BY PortsPropres DEF IInv, TypeOK
  <2>2. PICK ancienne \in SUBSET jardin : jardin' = (jardin \ ancienne) \union {SansPort[console]}
    BY DEF PoserParScript
  <2>3. QED
    BY <2>1, <2>2
<1>3. ASSUME NEW q \in Requetes
      PROVE  /\ o(q) \in Actes /\ Juste(o(q), portail, page')
             /\ o(q).etape = requete[q].etape /\ o(q).c = requete[q].c
  <2>1. requete[q] \in Actes /\ Juste(requete[q], portail, page)
    BY DEF IInv, TypeOK, GestesJustes
  <2>2. (requete[q].double \/ vise(q)) \in BOOLEAN
    OBVIOUS
  <2>3. o(q) \in Actes
    BY <2>1, <2>2 DEF Actes
  <2>4. /\ o(q).etape = requete[q].etape /\ o(q).c = requete[q].c
        /\ o(q).lu = requete[q].lu /\ o(q).gravee = requete[q].gravee
        /\ o(q).sauve = requete[q].sauve /\ o(q).cible = requete[q].cible
        /\ o(q).double = (requete[q].double \/ vise(q))
    BY <2>1 DEF Actes
  <2>5. requete[q].etape = "inscrire" /\ ~o(q).double => page'[requete[q].c] = page[requete[q].c]
    BY <2>1, <2>4, <1>1 DEF Juste, En
  <2> HIDE DEF o
  <2>6. Juste(o(q), portail, page')
    BY <2>1, <2>4, <2>5 DEF Juste
  <2>7. QED
    BY <2>3, <2>4, <2>6
<1>4. \A q \in Requetes : q \notin EnCours => ~En(q, "inscrire")
  BY DEF EnCours, En
<1> HIDE DEF o, vise
<1>5. \A q \in Requetes : /\ requete'[q] \in Actes /\ Juste(requete'[q], portail, page')
                          /\ En(q, "inscrire") => /\ requete'[q].etape = "inscrire"
                                                  /\ requete'[q].c = requete[q].c
  BY <1>1, <1>3, <1>4, ReposJuste DEF En
<1>6. requete' \in [Requetes -> Actes]
  BY <1>1, <1>5
<1>7. /\ page' \in [Dossiers -> Adresses \union {Vide, Usine}]
      /\ ecart' \in [Dossiers -> SUBSET Ecarts]
      /\ \A e \in Dossiers \ servis : page'[e] = page[e] /\ ecart'[e] = ecart[e]
      /\ \A e \in servis : ecart'[e] # {}
  BY <1>1 DEF Ecarts
<1>8. ALaMain /\ UNCHANGED <<console, portail, servis>>
  BY DEF PoserParScript
<1>9. QED
  BY <1>1, <1>2, <1>5, <1>6, <1>7, <1>8, PagesIInv

-----------------------------------------------------------------------------
\* What the repair aims at is an address.
LEMMA CibleAdresse == TypeOK => AdresseActuelle \in Adresses
BY PortsPropres DEF TypeOK, AdresseActuelle

\* No row is written: the router that was not named is the reason.
LEMMA NePasInscrireIInv ==
  ASSUME IInv, NEW r \in Requetes, NePasInscrire(r)
  PROVE  IInv'
<1> DEFINE b == requete[r]
           n == ApresInscription(b)
<1>1. b \in Actes /\ b.etape = "inscrire" /\ Juste(b, portail, page)
  BY DEF IInv, TypeOK, GestesJustes, NePasInscrire, En
<1>2. b.lu \in Adresses /\ b.c \in Dossiers
  BY <1>1 DEF Juste
<1>3. n \in Actes
  BY <1>1 DEF Actes, Etapes, ApresInscription
<1>4. n.etape \in {"fin", "ecrire"} /\ n.lu = b.lu /\ n.gravee = b.gravee /\ n.sauve = b.sauve
  BY <1>1 DEF Actes, ApresInscription
<1>5. Juste(n, portail, page)
  BY <1>1, <1>2, <1>4 DEF Juste
<1>6. /\ Mettre(r, n) /\ ecart' = [ecart EXCEPT ![b.c] = @ \union {"anonyme"}]
      /\ UNCHANGED <<console, portail, servis, jardin, page, publication, bornes>>
  BY DEF NePasInscrire, routeur
<1>7. ecart \in [Dossiers -> SUBSET Ecarts]
  BY DEF IInv, TypeOK
<1>8. /\ ecart' \in [Dossiers -> SUBSET Ecarts]
      /\ \A d \in Dossiers : ecart[d] \subseteq ecart'[d]
      /\ ecart'[b.c] # {}
  BY <1>2, <1>6, <1>7 DEF Ecarts
<1> HIDE DEF n
<1>9. QED
  BY <1>3, <1>5, <1>6, <1>8, SeulIInv DEF IInv, TypeOK

LEMMA AvancerIInv ==
  ASSUME IInv, NEW r \in Requetes, Avancer(r)
  PROVE  IInv'
<1>1. ASSUME NEW nomme \in BOOLEAN, Reparer(r, nomme) PROVE IInv'
  <2> DEFINE cible == AdresseActuelle
             b(o) == [Repos EXCEPT !.geste = "reparer", !.nomme = nomme, !.cible = cible,
                                   !.etape = Suite(cible, o),
                                   !.reste = IF o THEN {} ELSE {Nul}]
  <2>1. PICK jardinLu \in {jardin, {}} : Debut(r, b(DejaOuverte(cible, jardinLu)))
    BY <1>1 DEF Reparer
  <2> DEFINE ouverte == DejaOuverte(cible, jardinLu)
  <2>2. Suite(cible, ouverte) \in {"enregistrer", "etat", "ouvrir"}
    BY DEF Suite
  <2>3. cible \in Adresses
    BY CibleAdresse DEF IInv
  <2> HIDE DEF cible, ouverte
  <2>4. b(ouverte) \in Actes
    BY <2>2, <2>3 DEF Repos, Actes, Etapes
  <2>5. b(ouverte).cible = cible /\ b(ouverte).etape = Suite(cible, ouverte)
    BY DEF Repos
  <2>6. \A p, pg : Juste(b(ouverte), p, pg)
    BY <2>2, <2>3, <2>5 DEF Juste
  <2>7. Debut(r, b(ouverte))
    BY <2>1 DEF ouverte
  <2> HIDE DEF b
  <2>8. QED
    BY <2>4, <2>6, <2>7, DebutIInv
<1>2. ASSUME NEW nomme \in BOOLEAN, Publier(r, nomme) PROVE IInv'
  <2> DEFINE b == [Repos EXCEPT !.geste = "publier", !.nomme = nomme, !.etape = "etat"]
  <2>1. b \in Actes
    BY DEF Repos, Actes, Etapes
  <2>2. \A p, pg : Juste(b, p, pg)
    BY DEF Repos, Juste
  <2>3. Debut(r, b)
    BY <1>2 DEF Publier
  <2> HIDE DEF b
  <2>4. QED
    BY <2>1, <2>2, <2>3, DebutIInv
<1>3. QED
  BY <1>1, <1>2, EnregistrerIInv, OuvrirIInv, LireEtatIInv, ComposerIInv, EcrireIInv,
     InscrireIInv, NePasInscrireIInv, RendreIInv, CouperIInv DEF Avancer

LEMMA NextIInv == IInv /\ [Next]_vars => IInv'
<1> SUFFICES ASSUME IInv, [Next]_vars PROVE IInv'
  OBVIOUS
<1>1. ASSUME NEW r \in Requetes, Avancer(r) PROVE IInv'
  BY <1>1, AvancerIInv
<1>2. ASSUME NEW p \in Adresses \union {Vide}, EnregistrerLeFormulaire(p) PROVE IInv'
  BY <1>2, FormulaireIInv
<1>3. ASSUME NEW a \in Adresses, Demenager(a) PROVE IInv'
  BY <1>3, MainIInv DEF Demenager, routeur, IInv, TypeOK
<1>4. ASSUME NEW a \in Adresses, ChangerJardin(a) PROVE IInv'
  <2>1. jardin' \subseteq Adresses
    BY <1>4 DEF ChangerJardin, IInv, TypeOK
  <2>2. QED
    BY <1>4, <2>1, MainIInv DEF ChangerJardin, IInv, TypeOK
<1>5. ASSUME NEW s \in SUBSET Dossiers, ChangerServeurs(s) PROVE IInv'
  BY <1>5, MainIInv DEF ChangerServeurs, IInv, TypeOK
<1>6. ASSUME NEW d \in Dossiers, NEW v \in Adresses \union {Usine}, RemplacerPage(d, v) PROVE IInv'
  BY <1>6, RemplacerIInv
<1>7. CASE PoserParScript
  BY <1>7, ScriptIInv
<1>8. CASE UNCHANGED vars
  BY <1>8 DEF vars, routeur, bornes, IInv, TypeOK, GestesJustes, PublicationFidele, En
<1>9. QED
  BY <1>1, <1>2, <1>3, <1>4, <1>5, <1>6, <1>7, <1>8 DEF Next

-----------------------------------------------------------------------------
THEOREM ParcoursTient == Spec => []IInv
BY InitIInv, NextIInv, PTL DEF Spec

\* The types, and: a folder has a row only once its page was written.
THEOREM TypageParcours == Spec => []TypeOK
<1>1. IInv => TypeOK
  BY DEF IInv
<1>2. QED
  BY <1>1, ParcoursTient, PTL

\* "L'adresse gravee dans la page": whatever publications, repairs, saved settings and
\* hands cross, a row differs from its page only for one of the five reasons.
THEOREM PublicationsFideles == Spec => []PublicationFidele
<1>1. IInv => PublicationFidele
  BY DEF IInv
<1>2. QED
  BY <1>1, ParcoursTient, PTL

-----------------------------------------------------------------------------
(* The repair.  A repair that nobody disturbs has only repairs beside it   *)
(* that aim where it aims, which only ever bring the path nearer to it.    *)

Vif(b) == b.etape # "repos"
Paisible(b) == Vif(b) /\ b.geste = "reparer" /\ ~b.derange

\* How far the path is open at each step of a repair that aims at x.
Chemin(b, x, p, jd, sv, pg) ==
  /\ b.cible = x
  /\ b.etape = "enregistrer" /\ b.reste = {} => DejaOuverte(x, jd)
  /\ b.etape = "ouvrir" => p = x
  /\ b.etape \in {"etat", "composer", "ecrire", "inscrire", "fin"} => p = x /\ DejaOuverte(x, jd)
  /\ b.etape = "composer" => sv \subseteq b.reste
  /\ b.etape \in {"ecrire", "inscrire"} => b.gravee = x /\ \A d \in sv \ b.reste : pg[d] = x
  /\ b.etape = "inscrire" => pg[b.c] = x
  /\ b.etape = "fin" => \A d \in sv : pg[d] = x

Paix ==
  \A r \in Requetes : Paisible(requete[r]) =>
    /\ Chemin(requete[r], AdresseActuelle, portail, jardin, servis, page)
    /\ \A q \in Requetes : Vif(requete[q]) => Paisible(requete[q]) /\ requete[q].cible = AdresseActuelle

\* The address aimed at moves with the console only; a rule that is added closes nothing.
LEMMA MemeAdresse == console' = console => AdresseActuelle' = AdresseActuelle
BY DEF AdresseActuelle

LEMMA JardinCroit ==
  ASSUME NEW x, NEW j1, NEW j2, j1 \subseteq j2, DejaOuverte(x, j1)
  PROVE  DejaOuverte(x, j2)
BY DEF DejaOuverte

\* What the marks of disturbance leave as it is.
Pareil(a, b) ==
  /\ a.geste = b.geste /\ a.etape = b.etape /\ a.cible = b.cible /\ a.gravee = b.gravee
  /\ a.reste = b.reste /\ a.c = b.c /\ a.derange = b.derange

\* A step of one gesture: if it is in peace it may only bring the path nearer.
LEMMA SeulePaix ==
  ASSUME Paix, NEW r \in Requetes, Vif(requete[r]), console' = console, servis' = servis,
         \A q \in Requetes \ {r} : Pareil(requete'[q], requete[q]),
         Vif(requete'[r]) => /\ requete'[r].geste = requete[r].geste
                             /\ requete'[r].derange = requete[r].derange
                             /\ requete'[r].cible = requete[r].cible,
         Paisible(requete[r]) =>
           /\ portail' \in {portail, AdresseActuelle} /\ jardin \subseteq jardin'
           /\ \A q \in Requetes : requete[q].etape = "inscrire" =>
                page'[requete[q].c] \in {page[requete[q].c], AdresseActuelle}
           /\ \A d \in servis : page'[d] \in {page[d], AdresseActuelle}
           /\ Vif(requete'[r]) => Chemin(requete'[r], AdresseActuelle, portail', jardin', servis, page')
  PROVE  Paix'
<1>0. AdresseActuelle' = AdresseActuelle
  BY MemeAdresse
<1> SUFFICES ASSUME NEW q \in Requetes, Paisible(requete'[q])
             PROVE  /\ Chemin(requete'[q], AdresseActuelle, portail', jardin', servis, page')
                    /\ \A s \in Requetes : Vif(requete'[s]) =>
                         Paisible(requete'[s]) /\ requete'[s].cible = AdresseActuelle
  BY <1>0 DEF Paix
<1>1. Paisible(requete[q])
  BY DEF Paisible, Vif, Pareil
<1>2. /\ Paisible(requete[r]) /\ requete[r].cible = AdresseActuelle
      /\ Chemin(requete[q], AdresseActuelle, portail, jardin, servis, page)
  BY <1>1 DEF Paix
<1>3. \A s \in Requetes : Vif(requete'[s]) => Paisible(requete'[s]) /\ requete'[s].cible = AdresseActuelle
  <2> SUFFICES ASSUME NEW s \in Requetes, Vif(requete'[s])
               PROVE  Paisible(requete'[s]) /\ requete'[s].cible = AdresseActuelle
    OBVIOUS
  <2>1. CASE s = r
    BY <2>1, <1>2 DEF Paisible
  <2>2. CASE s # r
    <3>1. Vif(requete[s]) /\ Pareil(requete'[s], requete[s])
      BY <2>2 DEF Vif, Pareil
    <3>2. Paisible(requete[s]) /\ requete[s].cible = AdresseActuelle
      BY <3>1, <1>1 DEF Paix
    <3>3. QED
      BY <3>1, <3>2 DEF Paisible, Vif, Pareil
  <2>3. QED
    BY <2>1, <2>2
<1>4. Chemin(requete'[q], AdresseActuelle, portail', jardin', servis, page')
  <2>1. CASE q = r
    BY <2>1, <1>2 DEF Paisible
  <2>2. CASE q # r
    <3>1. Pareil(requete'[q], requete[q])
      BY <2>2
    <3>2. Chemin(requete[q], AdresseActuelle, portail', jardin', servis, page')
      BY <1>2, JardinCroit DEF Chemin
    <3>3. QED
      BY <3>1, <3>2 DEF Chemin, Pareil
  <2>3. QED
    BY <2>1, <2>2
<1>5. QED
  BY <1>3, <1>4

\* A gesture that begins beside a repair in peace is such a repair, or disturbs it.
LEMMA DebutPaix ==
  ASSUME IInv, Paix, NEW r \in Requetes, NEW b \in Actes, Debut(r, b), ~b.derange,
         b.geste = "reparer" => Chemin(b, AdresseActuelle, portail, jardin, servis, page)
  PROVE  Paix'
<1> DEFINE D == {q \in EnCours : Derangent(q, b)}
           n == [b EXCEPT !.derange = D # {}]
           o(q) == [requete[q] EXCEPT !.derange = TRUE]
<1>1. requete' = [q \in Requetes |-> IF q = r THEN n ELSE IF q \in D THEN o(q) ELSE requete[q]]
  BY DEF Debut
<1>2. UNCHANGED <<AdresseActuelle, portail, servis, jardin, page>>
  BY MemeAdresse DEF Debut, routeur
<1>3. /\ n.geste = b.geste /\ n.etape = b.etape /\ n.cible = b.cible /\ n.gravee = b.gravee
      /\ n.reste = b.reste /\ n.c = b.c
  BY DEF Actes
<1>4. n.derange <=> D # {}
  BY DEF Actes
<1>5. \A q \in Requetes : o(q).derange
  BY DEF IInv, TypeOK, Actes
<1>6. D \subseteq Requetes /\ \A q \in Requetes : Vif(requete[q]) /\ Derangent(q, b) => q \in D
  BY DEF EnCours, En, Vif
<1>7. requete[r].etape = "repos"
  BY DEF Debut, En
<1> HIDE DEF D, n, o
<1> SUFFICES ASSUME NEW q \in Requetes, Paisible(requete'[q])
             PROVE  /\ Chemin(requete'[q], AdresseActuelle, portail, jardin, servis, page)
                    /\ \A s \in Requetes : Vif(requete'[s]) =>
                         Paisible(requete'[s]) /\ requete'[s].cible = AdresseActuelle
  BY <1>2 DEF Paix
<1>8. q \notin D \/ q = r
  BY <1>1, <1>5 DEF Paisible
<1>9. CASE q = r
  <2>1. D = {} /\ n.geste = "reparer" /\ requete'[r] = n
    BY <1>1, <1>4, <1>9 DEF Paisible
  <2>2. b.geste = "reparer" /\ Chemin(b, AdresseActuelle, portail, jardin, servis, page)
    BY <2>1, <1>3
  <2>3. b.cible = AdresseActuelle /\ Chemin(n, AdresseActuelle, portail, jardin, servis, page)
    BY <2>2, <1>3 DEF Chemin
  <2>4. ASSUME NEW s \in Requetes, Vif(requete'[s])
        PROVE  Paisible(requete'[s]) /\ requete'[s].cible = AdresseActuelle
    <3>1. CASE s = r
      BY <3>1, <2>1, <2>3, <1>3, <1>9
    <3>2. CASE s # r
      <4>1. requete'[s] = requete[s] /\ ~Derangent(s, b) /\ requete[s] \in Actes
        BY <3>2, <2>1, <2>4, <1>1, <1>6 DEF IInv, TypeOK
      <4>2. requete[s].geste = "reparer" /\ requete[s].cible = AdresseActuelle /\ ~requete[s].derange
        BY <4>1, <2>3 DEF Derangent
      <4>3. QED
        BY <4>1, <4>2, <2>4 DEF Paisible
    <3>3. QED
      BY <3>1, <3>2
  <2>5. QED
    BY <2>1, <2>3, <2>4, <1>9
<1>10. CASE q # r
  <2>1. requete'[q] = requete[q] /\ Paisible(requete[q]) /\ ~Derangent(q, b)
    BY <1>1, <1>6, <1>8, <1>10 DEF Paisible
  <2>2. /\ Chemin(requete[q], AdresseActuelle, portail, jardin, servis, page)
        /\ \A s \in Requetes : Vif(requete[s]) =>
             Paisible(requete[s]) /\ requete[s].cible = AdresseActuelle
    BY <2>1 DEF Paix
  <2>3. b.geste = "reparer" /\ b.cible = AdresseActuelle
    BY <2>1, <2>2 DEF Derangent, Chemin
  <2>4. \A s \in Requetes : Vif(requete[s]) => ~Derangent(s, b)
    BY <2>2, <2>3 DEF Derangent, Paisible
  <2>5. D = {}
    BY <2>4 DEF D, EnCours, En, Vif
  <2>6. requete'[r] = n /\ n.geste = "reparer" /\ ~n.derange /\ n.cible = AdresseActuelle
    BY <2>3, <2>5, <1>1, <1>3, <1>4
  <2>7. \A s \in Requetes \ {r} : requete'[s] = requete[s]
    BY <2>5, <1>1
  <2>8. QED
    BY <2>1, <2>2, <2>6, <2>7 DEF Paisible
<1>11. QED
  BY <1>9, <1>10

\* What a gesture in peace knows, at hand for each of its steps.
LEMMA CheminDuGeste ==
  ASSUME IInv, Paix, NEW r \in Requetes
  PROVE  /\ requete[r] \in Actes
         /\ Paisible(requete[r]) => Chemin(requete[r], AdresseActuelle, portail, jardin, servis, page)
BY DEF IInv, TypeOK, Paix

LEMMA AvancerPaix ==
  ASSUME IInv, Paix, NEW r \in Requetes, Avancer(r)
  PROVE  Paix'
<1> DEFINE b == requete[r]
<1>0. /\ b \in Actes
      /\ Paisible(b) => Chemin(b, AdresseActuelle, portail, jardin, servis, page)
      /\ requete \in [Requetes -> Actes]
  BY CheminDuGeste DEF IInv, TypeOK
<1>A. ASSUME NEW n, Mettre(r, n)
      PROVE  requete'[r] = n /\ \A q \in Requetes \ {r} : Pareil(requete'[q], requete[q])
  BY <1>A, <1>0 DEF Mettre, Pareil
<1>1. ASSUME NEW nomme \in BOOLEAN, Reparer(r, nomme) PROVE Paix'
  <2> DEFINE cible == AdresseActuelle
             m(o) == [Repos EXCEPT !.geste = "reparer", !.nomme = nomme, !.cible = cible,
                                   !.etape = Suite(cible, o),
                                   !.reste = IF o THEN {} ELSE {Nul}]
  <2>1. PICK jardinLu \in {jardin, {}} : Debut(r, m(DejaOuverte(cible, jardinLu)))
    BY <1>1 DEF Reparer
  <2> DEFINE ouverte == DejaOuverte(cible, jardinLu)
             n == m(ouverte)
  <2>2. /\ Suite(cible, ouverte) \in {"enregistrer", "etat", "ouvrir"}
        /\ Suite(cible, ouverte) \in {"etat", "ouvrir"} => portail = cible
        /\ Suite(cible, ouverte) = "etat" => ouverte
    BY DEF Suite
  <2>3. ouverte => DejaOuverte(cible, jardin)
    BY <2>1 DEF DejaOuverte
  <2>4. cible \in Adresses
    BY CibleAdresse DEF IInv
  <2> HIDE DEF cible, ouverte
  <2>5. n \in Actes
    BY <2>2, <2>4 DEF Repos, Actes, Etapes
  <2>6. /\ n.cible = cible /\ n.etape = Suite(cible, ouverte) /\ ~n.derange
        /\ n.reste = {} => ouverte
    BY DEF Repos
  <2>7. Chemin(n, cible, portail, jardin, servis, page)
    BY <2>2, <2>3, <2>6 DEF Chemin
  <2>8. Debut(r, n)
    BY <2>1 DEF ouverte
  <2> HIDE DEF n
  <2>9. QED
    BY <2>5, <2>6, <2>7, <2>8, DebutPaix DEF cible
<1>2. ASSUME NEW nomme \in BOOLEAN, Publier(r, nomme) PROVE Paix'
  <2> DEFINE n == [Repos EXCEPT !.geste = "publier", !.nomme = nomme, !.etape = "etat"]
  <2>1. n \in Actes /\ ~n.derange /\ n.geste # "reparer"
    BY DEF Repos, Actes, Etapes
  <2>2. Debut(r, n)
    BY <1>2 DEF Publier
  <2> HIDE DEF n
  <2>3. QED
    BY <2>1, <2>2, DebutPaix
<1>3. CASE Enregistrer(r)
  <2> DEFINE n == [b EXCEPT !.etape = IF b.reste = {} THEN "etat" ELSE "ouvrir"]
  <2>1. /\ requete' = [q \in Requetes |-> IF q = r THEN n ELSE Depasser(requete[q])]
        /\ portail' = b.cible /\ b.etape = "enregistrer"
        /\ UNCHANGED <<console, servis, jardin, page>>
    BY <1>3 DEF Enregistrer, Sauver, routeur, En
  <2>2. /\ n.geste = b.geste /\ n.derange = b.derange /\ n.cible = b.cible
        /\ n.etape \in {"etat", "ouvrir"} /\ (n.etape = "etat" => b.reste = {})
    BY <1>0 DEF Actes
  <2>3. \A q \in Requetes : Pareil(Depasser(requete[q]), requete[q])
    BY <1>0 DEF Depasser, Pareil, Actes
  <2> HIDE DEF n, b
  <2>4. Paisible(b) => /\ portail' = AdresseActuelle
                       /\ Chemin(n, AdresseActuelle, portail', jardin, servis, page)
    BY <1>0, <2>1, <2>2 DEF Chemin
  <2>5. requete'[r] = n /\ \A q \in Requetes \ {r} : Pareil(requete'[q], requete[q])
    BY <2>1, <2>3
  <2>6. QED
    BY <2>1, <2>2, <2>4, <2>5, SeulePaix DEF b, Vif
<1>4. CASE Ouvrir(r)
  <2> DEFINE n == [b EXCEPT !.etape = "etat"]
  <2>1. /\ Mettre(r, n) /\ jardin' = jardin \union {b.cible} /\ b.etape = "ouvrir"
        /\ UNCHANGED <<console, portail, servis, page>>
    BY <1>4 DEF Ouvrir, Aller, En
  <2>2. n.geste = b.geste /\ n.derange = b.derange /\ n.cible = b.cible /\ n.etape = "etat"
    BY <1>0 DEF Actes
  <2> HIDE DEF n, b
  <2>3. Paisible(b) => DejaOuverte(AdresseActuelle, jardin')
    BY <1>0, <2>1 DEF Chemin, DejaOuverte
  <2>4. Paisible(b) => Chemin(n, AdresseActuelle, portail, jardin', servis, page)
    BY <1>0, <2>1, <2>2, <2>3 DEF Chemin
  <2>5. QED
    BY <1>A, <2>1, <2>2, <2>4, SeulePaix DEF b, Vif
<1>5. CASE LireEtat(r)
  <2> DEFINE n == [b EXCEPT !.etape = "composer", !.lu = portail, !.reste = servis,
                            !.sauve = FALSE]
  <2>1. /\ b.etape = "etat" /\ UNCHANGED <<console, portail, servis, jardin, page>>
        /\ Mettre(r, Repos) \/ Mettre(r, n)
    BY <1>5 DEF LireEtat, Finir, routeur, En
  <2>2. /\ n.geste = b.geste /\ n.derange = b.derange /\ n.cible = b.cible
        /\ n.etape = "composer" /\ n.reste = servis
    BY <1>0 DEF Actes
  <2>3. ~Vif(Repos)
    BY DEF Vif, Repos
  <2> HIDE DEF n, b
  <2>4. Paisible(b) => Chemin(n, AdresseActuelle, portail, jardin, servis, page)
    BY <1>0, <2>1, <2>2 DEF Chemin
  <2>5. Vif(requete[r])
    BY <2>1 DEF b, Vif
  <2>6. CASE Mettre(r, Repos)
    BY <1>A, <2>1, <2>3, <2>5, <2>6, SeulePaix
  <2>7. CASE Mettre(r, n)
    BY <1>A, <2>1, <2>2, <2>4, <2>5, <2>7, SeulePaix DEF b
  <2>8. QED
    BY <2>1, <2>6, <2>7
<1>6. CASE Composer(r)
  <2> DEFINE n == [b EXCEPT !.etape = "ecrire", !.gravee = portail]
  <2>1. /\ Mettre(r, n) /\ b.etape = "composer"
        /\ UNCHANGED <<console, portail, servis, jardin, page>>
    BY <1>6 DEF Composer, routeur, En
  <2>2. /\ n.geste = b.geste /\ n.derange = b.derange /\ n.cible = b.cible
        /\ n.etape = "ecrire" /\ n.gravee = portail /\ n.reste = b.reste
    BY <1>0 DEF Actes
  <2> HIDE DEF n, b
  <2>3. Paisible(b) => Chemin(n, AdresseActuelle, portail, jardin, servis, page)
    BY <1>0, <2>1, <2>2 DEF Chemin
  <2>4. QED
    BY <1>A, <2>1, <2>2, <2>3, SeulePaix DEF b, Vif
<1>7. ASSUME NEW d \in Dossiers, Ecrire(r, d) PROVE Paix'
  <2> DEFINE n == [b EXCEPT !.etape = "inscrire", !.c = d, !.double = FALSE]
  <2>1. /\ requete' = [q \in Requetes |-> IF q = r THEN n ELSE Reecrire(requete[q], d)]
        /\ page' = [page EXCEPT ![d] = b.gravee] /\ b.etape = "ecrire"
        /\ UNCHANGED <<console, portail, servis, jardin>>
    BY <1>7 DEF Ecrire, En
  <2>2. /\ n.geste = b.geste /\ n.derange = b.derange /\ n.cible = b.cible
        /\ n.etape = "inscrire" /\ n.c = d /\ n.gravee = b.gravee /\ n.reste = b.reste
    BY <1>0 DEF Actes
  <2>3. \A q \in Requetes : Pareil(Reecrire(requete[q], d), requete[q])
    BY <1>0 DEF Reecrire, Pareil, Actes
  <2>4. servis \subseteq Dossiers /\ page \in [Dossiers -> Adresses \union {Vide, Usine}]
    BY DEF IInv, TypeOK
  <2> HIDE DEF n, b
  <2>5. Paisible(b) => b.gravee = AdresseActuelle
    BY <1>0, <2>1 DEF Chemin
  <2>6. Paisible(b) => \A e \in Dossiers : page'[e] \in {page[e], AdresseActuelle}
    BY <2>1, <2>4, <2>5
  <2>7. Paisible(b) => Chemin(n, AdresseActuelle, portail, jardin, servis, page')
    <3>1. ASSUME Paisible(b) PROVE page'[d] = AdresseActuelle
      BY <3>1, <2>1, <2>4, <2>5
    <3>2. ASSUME Paisible(b) PROVE \A e \in servis \ b.reste : page'[e] = AdresseActuelle
      BY <3>2, <1>0, <2>1, <2>4, <2>6 DEF Chemin
    <3>3. QED
      BY <3>1, <3>2, <1>0, <2>1, <2>2 DEF Chemin
  <2>8. \A q \in Requetes : requete[q].etape = "inscrire" => requete[q].c \in Dossiers
    BY DEF IInv, GestesJustes, Juste
  <2>9. requete'[r] = n /\ \A q \in Requetes \ {r} : Pareil(requete'[q], requete[q])
    BY <2>1, <2>3
  <2>10. QED
    BY <2>1, <2>2, <2>4, <2>6, <2>7, <2>8, <2>9, SeulePaix DEF b, Vif
<1>8. CASE Inscrire(r) \/ NePasInscrire(r)
  <2> DEFINE n == ApresInscription(b)
  <2>1. /\ Mettre(r, n) /\ b.etape = "inscrire"
        /\ UNCHANGED <<console, portail, servis, jardin, page>>
    BY <1>8 DEF Inscrire, NePasInscrire, routeur, En
  <2>2. /\ n.geste = b.geste /\ n.derange = b.derange /\ n.cible = b.cible
        /\ n.gravee = b.gravee /\ n.reste = b.reste \ {b.c}
        /\ n.etape \in {"fin", "ecrire"} /\ (n.etape = "fin" => b.reste = {b.c})
    BY <1>0 DEF Actes, ApresInscription
  <2> HIDE DEF n, b
  <2>3. Paisible(b) => Chemin(n, AdresseActuelle, portail, jardin, servis, page)
    BY <1>0, <2>1, <2>2 DEF Chemin
  <2>4. QED
    BY <1>A, <2>1, <2>2, <2>3, SeulePaix DEF b, Vif
<1>9. CASE Rendre(r) \/ Couper(r)
  <2>1. Mettre(r, Repos) /\ UNCHANGED <<console, portail, servis, jardin, page>> /\ Vif(requete[r])
    BY <1>9 DEF Rendre, Couper, Finir, routeur, En, EnCours, Vif
  <2>2. ~Vif(Repos)
    BY DEF Vif, Repos
  <2>3. QED
    BY <1>A, <2>1, <2>2, SeulePaix
<1>10. QED
  BY <1>1, <1>2, <1>3, <1>4, <1>5, <1>6, <1>7, <1>8, <1>9 DEF Avancer

\* After a hand, nothing in progress is in peace.
LEMMA SansPaix ==
  ASSUME \A q \in Requetes : ~Paisible(requete'[q])
  PROVE  Paix'
BY DEF Paix

LEMMA NextPaix == IInv /\ Paix /\ [Next]_vars => Paix'
<1> SUFFICES ASSUME IInv, Paix, [Next]_vars PROVE Paix'
  OBVIOUS
<1>0. requete \in [Requetes -> Actes] /\ ~Paisible(Repos)
  BY DEF IInv, TypeOK, Paisible, Vif, Repos
<1>1. ASSUME NEW r \in Requetes, Avancer(r) PROVE Paix'
  BY <1>1, AvancerPaix
<1>2. ASSUME Deranger PROVE Paix'
  BY <1>0, <1>2, SansPaix DEF Deranger, Paisible, Actes
<1>3. ASSUME NEW p \in Adresses \union {Vide}, EnregistrerLeFormulaire(p) PROVE Paix'
  <2>1. \A q \in Requetes : Depasser(requete[q]) \in Actes
    BY <1>0 DEF Depasser, Actes
  <2>2. QED
    BY <1>0, <1>3, <2>1, SansPaix DEF EnregistrerLeFormulaire, Paisible, Actes
<1>4. ASSUME NEW d \in Dossiers, NEW v \in Adresses \union {Usine}, RemplacerPage(d, v)
      PROVE  Paix'
  <2>1. \A q \in Requetes : Reecrire(requete[q], d) \in Actes
    BY <1>0 DEF Reecrire, Actes
  <2>2. QED
    BY <1>0, <1>4, <2>1, SansPaix DEF RemplacerPage, Paisible, Actes
<1>5. CASE PoserParScript
  <2> DEFINE o(q) == [requete[q] EXCEPT !.derange = TRUE,
                        !.double = @ \/ (En(q, "inscrire") /\ requete[q].c \in servis)]
  <2>1. \A q \in Requetes : o(q).derange
    BY <1>0 DEF Actes
  <2>2. requete' = [q \in Requetes |-> IF q \in EnCours THEN o(q) ELSE Repos]
    BY <1>5 DEF PoserParScript
  <2> HIDE DEF o
  <2>3. QED
    BY <1>0, <2>1, <2>2, SansPaix DEF Paisible
<1>6. CASE UNCHANGED vars
  BY <1>6, MemeAdresse DEF vars, routeur, Paix
<1>7. QED
  BY <1>1, <1>2, <1>3, <1>4, <1>5, <1>6 DEF Next, Demenager, ChangerJardin, ChangerServeurs

THEOREM PaixTient == Spec => []Paix
<1>1. Init => Paix
  BY DEF Init, Paix, Paisible, Vif, Repos
<1>2. QED
  BY <1>1, NextPaix, ParcoursTient, PTL DEF Spec

\* A rule of the garden that the diagnosis accepts for the console lets the console through,
\* unless a rule of its host is limited to another port.
LEMMA JardinOuvert ==
  ASSUME DejaOuverte(console, jardin), ~RegleEtroite(console)
  PROVE  {console, SansPort[console]} \cap jardin # {}
BY DEF DejaOuverte, RegleEtroite

\* A repair that ends undisturbed has engraved the address it aims at in every page served
\* and has it in the garden, whatever was half done before it and whatever other repairs go
\* on beside it: the path is open to every customer where that address is the console's.
THEOREM ReparationsOuvrent == Spec => []ReparationOuvre
<1>1. Paix => ReparationOuvre
  <2> SUFFICES ASSUME Paix, NEW r \in Requetes, En(r, "fin"),
                      requete[r].geste = "reparer", ~requete[r].derange
               PROVE  LET cible == requete[r].cible IN
                      /\ cible = AdresseActuelle /\ DejaOuverte(cible, jardin)
                      /\ \A d \in servis :
                           page[d] = cible /\ (cible = console /\ ~RegleEtroite(console) => Ouvert(d))
    BY DEF ReparationOuvre
  <2>1. Chemin(requete[r], AdresseActuelle, portail, jardin, servis, page)
    BY DEF Paix, Paisible, Vif, En
  <2>2. /\ requete[r].cible = AdresseActuelle /\ DejaOuverte(AdresseActuelle, jardin)
        /\ \A d \in servis : page[d] = AdresseActuelle
    BY <2>1 DEF Chemin, En
  <2>3. QED
    BY <2>2, JardinOuvert DEF Ouvert
<1>2. QED
  BY <1>1, PaixTient, PTL
=============================================================================
