----------------------- MODULE PlatformAccountsProofs -----------------------
(***************************************************************************)
(* The account and the contract of an operator, for any number of requests *)
(* in progress and any ceilings, windows and periods.                      *)
(*                                                                         *)
(* What a request has read stays true until another of its family begins:  *)
(* then both are marked.  The invariant says, per request, what that is.   *)
(***************************************************************************)
EXTENDS PlatformAccounts, FiniteSetTheorems, TLAPS

\* What a request holds, beside the rows as they are.
Tient(b, ex, nr, co, pr) ==
  /\ b.etape = "envoi" => b.geste \in {"inscription", "renvoi"}
  /\ b.geste \in {"inscription", "renvoi"} => b.lu \in Nat
  /\ b.geste \in {"renvoi", "confirmation", "activation", "souscription"} \/ b.etape = "envoi"
       => ex.statut # "ABSENT"
  /\ b.geste = "souscription" => b.lu >= b.du /\ b.du >= Fond
  /\ b.geste = "activation" /\ b.etape = "ecriture" /\ ~b.croise => pr = Fond
  /\ b.etape = "envoi" /\ ~b.croise => co.verifie \/ co.code = b.lu
  /\ b.geste = "routeur" /\ ~b.croise => ex.plafond = Illimite \/ nr < ex.plafond

Tiennent == \A r \in Requetes : Tient(requete[r], exploitant, routeurs, compte, promis)

\* Two requests of one family know of each other.
SeSavent ==
  \A r, q \in Requetes :
    r # q /\ SeCroisent(requete[r].geste, requete[q].geste) => requete[r].croise

PromisJuste == promis >= Fond /\ PlateformePayee /\ (~Existe => promis = Fond)

\* Everything but the throttle.
Contrat == TypeOK /\ Tiennent /\ SeSavent /\ PromisJuste /\ CodeRecuVaut

-----------------------------------------------------------------------------
LEMMA Constantes ==
  /\ Titulaire \in Emails /\ Emails \subseteq Cles
  /\ Fond \in Int /\ Aucune \in Int /\ Illimite \in Nat
  /\ Fond < 0 /\ Aucune < Fond /\ Illimite >= 1
  /\ EssaiJours \in Nat /\ EssaiJours > 0 /\ PeriodeJours \in Nat /\ PeriodeJours > 0
  /\ Validite \in Nat /\ MaxGestes \in Nat /\ MaxRouteurs \in Nat
  /\ Fenetre \in Nat /\ Fenetre > 0
BY ConstantesPlateforme
DEF ConstantesPlateforme, Fond, Aucune, Illimite, Emails, Cles

LEMMA ReposTient ==
  /\ Repos \in Actes
  /\ \A ex, nr, co, pr : Tient(Repos, ex, nr, co, pr)
  /\ \A g : ~SeCroisent(Repos.geste, g) /\ ~SeCroisent(g, Repos.geste)
BY Constantes DEF Repos, Actes, Dates, Tient, SeCroisent, DuContrat, DuCode

Comptes == [code : Nat, age : 0..(Validite + 1), verifie : BOOLEAN]
LEMMA CompteNeuf == SansCompte \in Comptes /\ ~SansCompte.verifie /\ 0 \in 0..(Validite + 1)
BY Constantes DEF SansCompte, Comptes

\* A request that is only marked as crossed keeps what it holds.
LEMMA CroiseTient ==
  ASSUME NEW b \in Actes, NEW ex, NEW nr, NEW co, NEW pr, NEW x \in BOOLEAN,
         Tient(b, ex, nr, co, pr), b.croise => x
  PROVE  LET n == [b EXCEPT !.croise = x] IN
         /\ n \in Actes /\ Tient(n, ex, nr, co, pr)
         /\ n.geste = b.geste /\ n.etape = b.etape /\ n.cle = b.cle /\ n.lu = b.lu
         /\ n.du = b.du /\ n.croise = x
BY DEF Actes, Tient

\* A request begins: it holds what it has read, and those of its family are marked.
LEMMA DebutTient ==
  ASSUME NEW r \in Requetes, NEW b \in Actes, requete \in [Requetes -> Actes],
         gestes \in 0..MaxGestes, SeSavent, Debut(r, b), ~b.croise,
         NEW ex, NEW nr, NEW co, NEW pr,
         Tient(b, ex, nr, co, pr), \A q \in Requetes : Tient(requete[q], ex, nr, co, pr)
  PROVE  /\ requete' \in [Requetes -> Actes] /\ gestes' \in 0..MaxGestes /\ SeSavent'
         /\ \A q \in Requetes : Tient(requete'[q], ex, nr, co, pr)
         /\ \A q \in Requetes \ {r} : /\ requete'[q].geste = requete[q].geste
                                      /\ requete'[q].etape = requete[q].etape
                                      /\ requete'[q].cle = requete[q].cle
         /\ requete[r] = Repos
         /\ requete'[r].geste = b.geste /\ requete'[r].cle = b.cle
<1> DEFINE C == {q \in Requetes : SeCroisent(requete[q].geste, b.geste)}
           x == C # {}
           n == [b EXCEPT !.croise = x]
           o(q) == [requete[q] EXCEPT !.croise = TRUE]
<1>1. requete' = [q \in Requetes |-> IF q = r THEN n ELSE IF q \in C THEN o(q) ELSE requete[q]]
  BY DEF Debut
<1>2. /\ n \in Actes /\ Tient(n, ex, nr, co, pr) /\ n.geste = b.geste /\ n.cle = b.cle
      /\ n.croise = x
  <2>1. x \in BOOLEAN
    OBVIOUS
  <2> HIDE DEF x, C
  <2>2. QED
    BY <2>1, CroiseTient
<1>3. \A q \in Requetes : /\ o(q) \in Actes /\ Tient(o(q), ex, nr, co, pr)
                          /\ o(q).geste = requete[q].geste /\ o(q).etape = requete[q].etape
                          /\ o(q).cle = requete[q].cle /\ o(q).croise
  BY CroiseTient
<1>4. gestes' \in 0..MaxGestes
  BY Constantes DEF Debut
<1>5. requete[r] = Repos
  BY DEF Debut
<1>6. \A q \in Requetes : q \in C <=> SeCroisent(requete[q].geste, b.geste)
  OBVIOUS
<1>7. C \subseteq Requetes
  OBVIOUS
<1> HIDE DEF C, x, n, o
<1>8. requete' \in [Requetes -> Actes] /\ \A q \in Requetes : Tient(requete'[q], ex, nr, co, pr)
  BY <1>1, <1>2, <1>3
<1>9. SeSavent'
  <2> SUFFICES ASSUME NEW s \in Requetes, NEW q \in Requetes, s # q,
                      SeCroisent(requete'[s].geste, requete'[q].geste)
               PROVE  requete'[s].croise
    BY DEF SeSavent
  <2>1. CASE s = r
    <3>1. SeCroisent(requete[q].geste, b.geste)
      BY <2>1, <1>1, <1>2, <1>3 DEF SeCroisent
    <3>2. QED
      BY <2>1, <3>1, <1>1, <1>2, <1>6 DEF x
  <2>2. CASE q = r
    <3>1. SeCroisent(requete[s].geste, b.geste)
      BY <2>2, <1>1, <1>2, <1>3
    <3>2. QED
      BY <2>2, <3>1, <1>1, <1>3, <1>6
  <2>3. CASE s # r /\ q # r
    BY <2>3, <1>1, <1>3 DEF SeSavent
  <2>4. QED
    BY <2>1, <2>2, <2>3
<1>10. QED
  BY <1>1, <1>2, <1>3, <1>4, <1>5, <1>8, <1>9

\* One request goes a step further or ends; the marks are those of before.
LEMMA SeulTient ==
  ASSUME NEW r \in Requetes, NEW n \in Actes, requete \in [Requetes -> Actes], SeSavent,
         requete' = [requete EXCEPT ![r] = n],
         n = Repos \/ (n.geste = requete[r].geste /\ n.croise = requete[r].croise)
  PROVE  /\ requete' \in [Requetes -> Actes] /\ SeSavent'
         /\ \A q \in Requetes \ {r} : requete'[q] = requete[q]
         /\ requete'[r] = n
BY ReposTient DEF SeSavent

-----------------------------------------------------------------------------
(* The steps.  Each keeps the contract: types, what the requests hold, the *)
(* marks, what was promised and the code.                                  *)

\* A request begins and has only read.
LEMMA CommenceContrat ==
  ASSUME Contrat, NEW r \in Requetes, NEW b \in Actes, Debut(r, b), ~b.croise,
         Tient(b, exploitant, routeurs, compte, promis),
         UNCHANGED <<exploitant, routeurs, compte, compteur, temoins>>
  PROVE  Contrat'
<1>1. /\ requete \in [Requetes -> Actes] /\ gestes \in 0..MaxGestes /\ SeSavent
      /\ \A q \in Requetes : Tient(requete[q], exploitant, routeurs, compte, promis)
  BY DEF Contrat, TypeOK, Tiennent
<1>2. /\ requete' \in [Requetes -> Actes] /\ gestes' \in 0..MaxGestes /\ SeSavent'
      /\ \A q \in Requetes : Tient(requete'[q], exploitant, routeurs, compte, promis)
      /\ \A q \in Requetes \ {r} : requete'[q].etape = requete[q].etape
      /\ requete[r] = Repos
  BY <1>1, DebutTient
<1>3. /\ TypeOK' /\ Tiennent' /\ PromisJuste'
  BY <1>2 DEF Contrat, TypeOK, Existe, Tiennent, PromisJuste, PlateformePayee, temoins
<1>4. CodeRecuVaut'
  BY <1>2 DEF Contrat, CodeRecuVaut, temoins, Repos
<1>5. QED
  BY <1>2, <1>3, <1>4 DEF Contrat

\* activate writes the status in its first step.
LEMMA ActiverContrat ==
  ASSUME Contrat, NEW r \in Requetes, Activer(r)
  PROVE  Contrat'
<1> DEFINE b == [Repos EXCEPT !.geste = "activation", !.etape = "lecture"]
           ex == [exploitant EXCEPT !.statut = "ACTIVE"]
<1>1. /\ requete \in [Requetes -> Actes] /\ gestes \in 0..MaxGestes /\ SeSavent
      /\ \A q \in Requetes : Tient(requete[q], exploitant, routeurs, compte, promis)
      /\ exploitant \in [statut : {"ABSENT", "PENDING", "ACTIVE", "SUSPENDED"}, fin : Dates,
                         toleree : BOOLEAN, plafond : {1, Illimite}]
  BY DEF Contrat, TypeOK, Tiennent
<1>2. b \in Actes /\ b.geste = "activation" /\ b.etape = "lecture" /\ ~b.croise
  <2>1. b \in Actes
    BY ReposTient DEF Actes, DuContrat
  <2>2. b.geste = "activation" /\ b.etape = "lecture" /\ ~b.croise
    BY DEF Repos
  <2>3. QED
    BY <2>1, <2>2
<1>3. /\ ex.statut = "ACTIVE" /\ ex.fin = exploitant.fin /\ ex.plafond = exploitant.plafond
      /\ ex \in [statut : {"ABSENT", "PENDING", "ACTIVE", "SUSPENDED"}, fin : Dates,
                 toleree : BOOLEAN, plafond : {1, Illimite}]
  BY <1>1
<1>4. /\ Debut(r, b) /\ exploitant' = ex
      /\ UNCHANGED <<routeurs, compte, compteur, boite, doute, promis>> /\ Existe
  BY DEF Activer, temoins
<1> HIDE DEF b, ex
<1>5. /\ Tient(b, ex, routeurs, compte, promis)
      /\ \A q \in Requetes : Tient(requete[q], ex, routeurs, compte, promis)
  BY <1>1, <1>2, <1>3 DEF Tient
<1>6. /\ requete' \in [Requetes -> Actes] /\ gestes' \in 0..MaxGestes /\ SeSavent'
      /\ \A q \in Requetes : Tient(requete'[q], ex, routeurs, compte, promis)
      /\ \A q \in Requetes \ {r} : requete'[q].etape = requete[q].etape
      /\ requete[r] = Repos
  BY <1>1, <1>2, <1>4, <1>5, DebutTient
<1>7. TypeOK'
  BY <1>3, <1>4, <1>6 DEF Contrat, TypeOK, Existe
<1>8. Tiennent' /\ PromisJuste'
  BY <1>3, <1>4, <1>6 DEF Contrat, Tiennent, PromisJuste, PlateformePayee, Existe
<1>9. CodeRecuVaut'
  BY <1>4, <1>6 DEF Contrat, CodeRecuVaut, Repos
<1>10. QED
  BY <1>6, <1>7, <1>8, <1>9 DEF Contrat

\* A step that writes counters only.
LEMMA SeulContrat ==
  ASSUME Contrat, NEW r \in Requetes, NEW n \in Actes, requete[r].etape # "envoi",
         Tient(n, exploitant, routeurs, compte, promis), requete' = [requete EXCEPT ![r] = n],
         n = Repos \/ (n.geste = requete[r].geste /\ n.croise = requete[r].croise),
         compteur' \in [Cles -> [echecs : Nat, reste : 0..Fenetre]],
         \A c \in Cles : compteur'[c].echecs = 0 <=> compteur'[c].reste = 0,
         UNCHANGED <<exploitant, routeurs, compte, gestes, temoins>>
  PROVE  Contrat'
<1>1. requete \in [Requetes -> Actes] /\ SeSavent
  BY DEF Contrat, TypeOK
<1>2. /\ requete' \in [Requetes -> Actes] /\ SeSavent' /\ requete'[r] = n
      /\ \A q \in Requetes \ {r} : requete'[q] = requete[q]
  BY <1>1, SeulTient
<1>3. TypeOK'
  BY <1>2 DEF Contrat, TypeOK, Existe, temoins
<1>4. Tiennent' /\ PromisJuste'
  BY <1>2 DEF Contrat, Tiennent, PromisJuste, PlateformePayee, Existe, temoins
<1>5. CodeRecuVaut'
  BY <1>2 DEF Contrat, CodeRecuVaut, temoins
<1>6. QED
  BY <1>2, <1>3, <1>4, <1>5 DEF Contrat

LEMMA ComparerContrat ==
  ASSUME Contrat, NEW r \in Requetes, Comparer(r)
  PROVE  Contrat'
<1>1. /\ requete[r].geste = "connexion" /\ requete[r].etape = "comparaison"
      /\ requete' = [requete EXCEPT ![r] = Repos]
      /\ UNCHANGED <<exploitant, routeurs, compte, gestes, temoins>>
  BY DEF Comparer, En, Finir
<1>2. /\ compteur \in [Cles -> [echecs : Nat, reste : 0..Fenetre]]
      /\ \A c \in Cles : compteur[c].echecs = 0 <=> compteur[c].reste = 0
      /\ requete[r].cle \in Cles
  BY Constantes DEF Contrat, TypeOK, Actes
<1>3. /\ compteur' \in [Cles -> [echecs : Nat, reste : 0..Fenetre]]
      /\ \A c \in Cles : compteur'[c].echecs = 0 <=> compteur'[c].reste = 0
  <2>1. CASE Echec(requete[r].cle)
    <3> DEFINE n(c) == IF c \notin ClesDe(requete[r].cle) THEN compteur[c]
                       ELSE IF compteur[c].reste = 0 THEN [echecs |-> 1, reste |-> Fenetre]
                       ELSE [compteur[c] EXCEPT !.echecs = @ + 1]
    <3>1. compteur' = [c \in Cles |-> n(c)]
      BY <2>1 DEF Echec
    <3>2. \A c \in Cles : /\ n(c) \in [echecs : Nat, reste : 0..Fenetre]
                          /\ n(c).echecs = 0 <=> n(c).reste = 0
      BY <1>2, Constantes
    <3> HIDE DEF n
    <3>3. QED
      BY <3>1, <3>2
  <2>2. CASE compteur' = [compteur EXCEPT ![requete[r].cle] = Vierge]
    BY <1>2, <2>2, Constantes DEF Vierge
  <2>3. CASE compteur' = compteur
    BY <1>2, <2>3
  <2>4. QED
    BY <2>1, <2>2, <2>3 DEF Comparer
<1>4. QED
  BY <1>1, <1>3, ReposTient, SeulContrat

LEMMA LireEssaiContrat ==
  ASSUME Contrat, NEW r \in Requetes, LireEssai(r)
  PROVE  Contrat'
<1> DEFINE b == requete[r]
           n == [b EXCEPT !.etape = "ecriture"]
<1>1. /\ b.geste = "activation" /\ b.etape = "lecture" /\ b \in Actes
      /\ Tient(b, exploitant, routeurs, compte, promis)
      /\ UNCHANGED <<exploitant, routeurs, compte, compteur, gestes, temoins>>
  BY DEF LireEssai, En, Contrat, TypeOK, Tiennent
<1>2. /\ compteur \in [Cles -> [echecs : Nat, reste : 0..Fenetre]]
      /\ \A c \in Cles : compteur[c].echecs = 0 <=> compteur[c].reste = 0
  BY DEF Contrat, TypeOK
<1>3. CASE exploitant.fin = Aucune
  <2>1. requete' = [requete EXCEPT ![r] = n]
    BY <1>3 DEF LireEssai, Aller
  <2>2. n \in Actes /\ n.geste = b.geste /\ n.etape = "ecriture" /\ n.croise = b.croise
    BY <1>1 DEF Actes
  <2>3. promis = Fond
    BY <1>3, Constantes DEF Contrat, TypeOK, PromisJuste, PlateformePayee, Dates
  <2>4. Tient(n, exploitant, routeurs, compte, promis)
    BY <1>1, <2>2, <2>3 DEF Tient
  <2> HIDE DEF n
  <2>5. QED
    BY <1>1, <1>2, <2>1, <2>2, <2>4, SeulContrat
<1>4. CASE exploitant.fin # Aucune
  <2>1. requete' = [requete EXCEPT ![r] = Repos]
    BY <1>4 DEF LireEssai, Finir
  <2>2. QED
    BY <1>1, <1>2, <2>1, ReposTient, SeulContrat
<1>5. QED
  BY <1>3, <1>4

\* The other requests of the family know, so that what they hold does not count.
LEMMA Marques ==
  ASSUME Contrat, NEW r \in Requetes
  PROVE  /\ requete \in [Requetes -> Actes] /\ SeSavent /\ requete[r] \in Actes
         /\ Tient(requete[r], exploitant, routeurs, compte, promis)
         /\ \A q \in Requetes \ {r} :
              /\ requete[q] \in Actes
              /\ Tient(requete[q], exploitant, routeurs, compte, promis)
              /\ SeCroisent(requete[q].geste, requete[r].geste) => requete[q].croise
BY DEF Contrat, TypeOK, Tiennent, SeSavent

\* signup creates the account, the operator and its trial.
LEMMA CreerContrat ==
  ASSUME Contrat, NEW r \in Requetes, Creer(r)
  PROVE  Contrat'
<1> DEFINE b == requete[r]
           n == [b EXCEPT !.etape = "envoi"]
           ex == [statut |-> "ACTIVE", fin |-> EssaiJours, toleree |-> FALSE, plafond |-> 1]
           co == [SansCompte EXCEPT !.code = b.lu]
<1>1. /\ b.geste = "inscription" /\ b.etape = "creation" /\ b \in Actes
      /\ Tient(b, exploitant, routeurs, compte, promis)
      /\ UNCHANGED <<routeurs, compteur, gestes, boite, doute, promis>>
  BY Marques DEF Creer, En
<1>2. /\ compteur \in [Cles -> [echecs : Nat, reste : 0..Fenetre]]
      /\ \A c \in Cles : compteur[c].echecs = 0 <=> compteur[c].reste = 0
  BY DEF Contrat, TypeOK
<1>3. CASE Existe
  <2>1. requete' = [requete EXCEPT ![r] = Repos] /\ UNCHANGED <<exploitant, compte>>
    BY <1>3 DEF Creer, Finir
  <2>2. QED
    BY <1>1, <1>2, <2>1, ReposTient, SeulContrat DEF temoins
<1>4. CASE ~Existe
  <2>1. requete' = [requete EXCEPT ![r] = n] /\ exploitant' = ex /\ compte' = co
    BY <1>4 DEF Creer, Aller
  <2>2. n \in Actes /\ n.geste = "inscription" /\ n.etape = "envoi" /\ n.lu = b.lu
        /\ n.croise = b.croise
    BY <1>1 DEF Actes
  <2>3. b.lu \in Nat
    BY <1>1 DEF Tient
  <2>4. /\ ex.statut = "ACTIVE" /\ ex.fin = EssaiJours
        /\ ex \in [statut : {"ABSENT", "PENDING", "ACTIVE", "SUSPENDED"}, fin : Dates,
                   toleree : BOOLEAN, plafond : {1, Illimite}]
    BY Constantes DEF Dates
  <2>5. co.code = b.lu /\ co \in Comptes
    BY <2>3, CompteNeuf DEF Comptes
  <2> HIDE DEF n, ex, co
  <2>6. Tient(n, ex, routeurs, co, promis)
    BY <2>2, <2>3, <2>4, <2>5 DEF Tient
  <2>7. ASSUME NEW q \in Requetes \ {r}
        PROVE  Tient(requete[q], ex, routeurs, co, promis)
    <3>1. /\ Tient(requete[q], exploitant, routeurs, compte, promis)
          /\ SeCroisent(requete[q].geste, "inscription") => requete[q].croise
      BY <1>1, Marques
    <3>2. requete[q].geste \in {"inscription", "renvoi", "routeur"} => requete[q].croise
      BY <3>1 DEF SeCroisent, DuContrat, DuCode
    <3>3. QED
      BY <3>1, <3>2, <2>4 DEF Tient
  <2>8. /\ requete' \in [Requetes -> Actes] /\ SeSavent' /\ requete'[r] = n
        /\ \A q \in Requetes \ {r} : requete'[q] = requete[q]
    BY <1>1, <2>1, <2>2, SeulTient, Marques
  <2>9. TypeOK'
    BY <1>1, <2>1, <2>4, <2>5, <2>8 DEF Contrat, TypeOK, Existe, Comptes
  <2>10. Tiennent'
    BY <1>1, <2>1, <2>6, <2>7, <2>8 DEF Tiennent
  <2>11. PromisJuste'
    BY <1>1, <1>4, <2>1, <2>4 DEF Contrat, PromisJuste, PlateformePayee, Existe
  <2>12. CodeRecuVaut'
    BY <2>2, <2>8 DEF CodeRecuVaut
  <2>13. QED
    BY <2>8, <2>9, <2>10, <2>11, <2>12 DEF Contrat
<1>5. QED
  BY <1>3, <1>4

\* renvoyerLeCode writes the code it is about to send.
LEMMA EcrireCodeContrat ==
  ASSUME Contrat, NEW r \in Requetes, EcrireCode(r)
  PROVE  Contrat'
<1> DEFINE b == requete[r]
           n == [b EXCEPT !.etape = "envoi"]
           co == [compte EXCEPT !.code = b.lu, !.age = 0]
<1>1. /\ b.geste = "renvoi" /\ b.etape = "ecriture" /\ b \in Actes
      /\ Tient(b, exploitant, routeurs, compte, promis)
      /\ requete' = [requete EXCEPT ![r] = n] /\ compte' = co
      /\ UNCHANGED <<exploitant, routeurs, compteur, gestes, boite, doute, promis>>
  BY Marques DEF EcrireCode, En, Aller, temoins
<1>2. n \in Actes /\ n.geste = "renvoi" /\ n.etape = "envoi" /\ n.lu = b.lu
      /\ n.croise = b.croise
  BY <1>1 DEF Actes
<1>3. b.lu \in Nat /\ Existe
  BY <1>1 DEF Tient, Existe
<1>4. co.code = b.lu /\ co \in Comptes
  BY <1>3, CompteNeuf DEF Contrat, TypeOK, Comptes
<1> HIDE DEF n, co
<1>5. Tient(n, exploitant, routeurs, co, promis)
  BY <1>2, <1>3, <1>4 DEF Tient, Existe
<1>6. ASSUME NEW q \in Requetes \ {r}
      PROVE  Tient(requete[q], exploitant, routeurs, co, promis)
  <2>1. /\ Tient(requete[q], exploitant, routeurs, compte, promis)
        /\ SeCroisent(requete[q].geste, "renvoi") => requete[q].croise
    BY <1>1, Marques
  <2>2. requete[q].geste \in {"inscription", "renvoi"} => requete[q].croise
    BY <2>1 DEF SeCroisent, DuCode
  <2>3. QED
    BY <2>1, <2>2 DEF Tient
<1>7. /\ requete' \in [Requetes -> Actes] /\ SeSavent' /\ requete'[r] = n
      /\ \A q \in Requetes \ {r} : requete'[q] = requete[q]
  BY <1>1, <1>2, SeulTient, Marques
<1>8. TypeOK' /\ Tiennent' /\ PromisJuste'
  <2>1. TypeOK'
    BY <1>1, <1>3, <1>4, <1>7 DEF Contrat, TypeOK, Existe, Comptes
  <2>2. Tiennent'
    BY <1>1, <1>5, <1>6, <1>7 DEF Tiennent
  <2>3. PromisJuste'
    BY <1>1 DEF Contrat, PromisJuste, PlateformePayee, Existe
  <2>4. QED
    BY <2>1, <2>2, <2>3
<1>9. CodeRecuVaut'
  BY <1>2, <1>7 DEF CodeRecuVaut
<1>10. QED
  BY <1>7, <1>8, <1>9 DEF Contrat

\* The mail arrives with the code of the row, or something is in doubt.
LEMMA EnvoyerContrat ==
  ASSUME Contrat, NEW r \in Requetes, Envoyer(r)
  PROVE  Contrat'
<1>1. /\ requete[r].etape = "envoi" /\ requete[r] \in Actes
      /\ Tient(requete[r], exploitant, routeurs, compte, promis)
      /\ requete' = [requete EXCEPT ![r] = Repos]
      /\ UNCHANGED <<exploitant, routeurs, compte, compteur, gestes, promis>>
      /\ \/ boite' = requete[r].lu /\ doute' = requete[r].croise
         \/ boite' = boite /\ doute' = TRUE
  BY Marques DEF Envoyer, Finir
<1>2. requete[r].lu \in Nat /\ requete[r].croise \in BOOLEAN
  BY <1>1 DEF Tient, Actes
<1>3. /\ requete' \in [Requetes -> Actes] /\ SeSavent' /\ requete'[r] = Repos
      /\ \A q \in Requetes \ {r} : requete'[q] = requete[q]
  BY <1>1, SeulTient, ReposTient, Marques
<1>4. boite' \in Nat /\ doute' \in BOOLEAN
  BY <1>1, <1>2 DEF Contrat, TypeOK
<1>5. TypeOK'
  BY <1>1, <1>3, <1>4 DEF Contrat, TypeOK, Existe
<1>6. Tiennent' /\ PromisJuste'
  BY <1>1, <1>3, ReposTient DEF Contrat, Tiennent, PromisJuste, PlateformePayee, Existe
<1>7. CodeRecuVaut'
  BY <1>1 DEF Tient, CodeRecuVaut
<1>8. QED
  BY <1>3, <1>5, <1>6, <1>7 DEF Contrat

LEMMA EcrireConfirmationContrat ==
  ASSUME Contrat, NEW r \in Requetes, EcrireConfirmation(r)
  PROVE  Contrat'
<1> DEFINE co == [SansCompte EXCEPT !.verifie = TRUE]
<1>1. /\ requete[r].geste = "confirmation" /\ requete[r].etape = "ecriture"
      /\ Tient(requete[r], exploitant, routeurs, compte, promis)
      /\ requete' = [requete EXCEPT ![r] = Repos] /\ compte' = co
      /\ UNCHANGED <<exploitant, routeurs, compteur, gestes, boite, doute, promis>>
  BY Marques DEF EcrireConfirmation, En, Finir, temoins
<1>2. co.verifie /\ co \in Comptes
  BY CompteNeuf DEF Comptes
<1>3. Existe
  BY <1>1 DEF Tient, Existe
<1> HIDE DEF co
<1>4. /\ requete' \in [Requetes -> Actes] /\ SeSavent' /\ requete'[r] = Repos
      /\ \A q \in Requetes \ {r} : requete'[q] = requete[q]
  BY <1>1, SeulTient, ReposTient, Marques
<1>5. TypeOK'
  BY <1>1, <1>2, <1>3, <1>4 DEF Contrat, TypeOK, Existe, Comptes
<1>6. \A q \in Requetes : Tient(requete[q], exploitant, routeurs, co, promis)
  BY <1>2 DEF Contrat, Tiennent, Tient
<1>7. Tiennent' /\ PromisJuste' /\ CodeRecuVaut'
  BY <1>1, <1>2, <1>4, <1>6, ReposTient
  DEF Contrat, Tiennent, PromisJuste, PlateformePayee, Existe, CodeRecuVaut
<1>8. QED
  BY <1>4, <1>5, <1>7 DEF Contrat

-----------------------------------------------------------------------------
(* The contract with the platform.                                         *)

\* What a step that writes the end, the offer and what is promised keeps.
LEMMA EcheanceContrat ==
  ASSUME Contrat, NEW r \in Requetes, requete[r].geste \in {"activation", "souscription"},
         requete[r].etape = "ecriture",
         requete' = [requete EXCEPT ![r] = Repos],
         NEW fin \in Dates, NEW toleree \in BOOLEAN, NEW plafond \in {1, Illimite},
         exploitant' = [exploitant EXCEPT !.fin = fin, !.toleree = toleree, !.plafond = plafond],
         promis' \in Dates, promis' >= Fond, fin >= promis' \/ promis' = Fond,
         UNCHANGED <<routeurs, compte, compteur, gestes, boite, doute>>
  PROVE  Contrat'
<1>1. /\ requete' \in [Requetes -> Actes] /\ SeSavent' /\ requete'[r] = Repos
      /\ \A q \in Requetes \ {r} : requete'[q] = requete[q]
  BY SeulTient, ReposTient, Marques
<1>2. Existe
  BY Marques DEF Tient, Existe
<1>3. /\ exploitant' \in [statut : {"ABSENT", "PENDING", "ACTIVE", "SUSPENDED"}, fin : Dates,
                          toleree : BOOLEAN, plafond : {1, Illimite}]
      /\ exploitant'.statut = exploitant.statut /\ exploitant'.fin = fin
  BY DEF Contrat, TypeOK
<1>4. TypeOK'
  BY <1>1, <1>2, <1>3 DEF Contrat, TypeOK, Existe
<1>5. ASSUME NEW q \in Requetes \ {r}
      PROVE  Tient(requete[q], exploitant', routeurs, compte, promis')
  <2>1. /\ Tient(requete[q], exploitant, routeurs, compte, promis)
        /\ SeCroisent(requete[q].geste, requete[r].geste) => requete[q].croise
    BY Marques
  <2>2. requete[q].geste \in DuContrat => requete[q].croise
    BY <2>1 DEF SeCroisent, DuContrat
  <2>3. QED
    BY <2>1, <2>2, <1>3 DEF Tient, DuContrat
<1>6. Tiennent'
  BY <1>1, <1>5, ReposTient DEF Tiennent
<1>7. PromisJuste' /\ CodeRecuVaut'
  BY <1>1, <1>2, <1>3 DEF Contrat, PromisJuste, PlateformePayee, Existe, CodeRecuVaut
<1>8. QED
  BY <1>1, <1>4, <1>6, <1>7 DEF Contrat

LEMMA EcrireEssaiContrat ==
  ASSUME Contrat, NEW r \in Requetes, EcrireEssai(r)
  PROVE  Contrat'
<1>1. /\ requete[r].geste = "activation" /\ requete[r].etape = "ecriture"
      /\ requete' = [requete EXCEPT ![r] = Repos]
      /\ exploitant' = [exploitant EXCEPT !.fin = EssaiJours, !.toleree = FALSE, !.plafond = 1]
      /\ promis' = IF requete[r].croise THEN Fond ELSE promis
      /\ UNCHANGED <<routeurs, compte, compteur, gestes, boite, doute>>
  BY DEF EcrireEssai, En, Finir
<1>2. promis' = Fond
  BY <1>1, Marques DEF Tient
<1>3. EssaiJours \in Dates /\ Fond \in Dates /\ Fond >= Fond
  BY Constantes DEF Dates
<1>4. QED
  BY <1>1, <1>2, <1>3, EcheanceContrat

LEMMA EcrireEcheanceContrat ==
  ASSUME Contrat, NEW r \in Requetes, EcrireEcheance(r)
  PROVE  Contrat'
<1>1. /\ requete[r].geste = "souscription" /\ requete[r].etape = "ecriture"
      /\ requete' = [requete EXCEPT ![r] = Repos]
      /\ exploitant' = [exploitant EXCEPT !.fin = requete[r].lu, !.toleree = TRUE,
                                          !.plafond = Illimite]
      /\ promis' = IF requete[r].croise THEN requete[r].lu ELSE requete[r].du
      /\ UNCHANGED <<routeurs, compte, compteur, gestes, boite, doute>>
  BY DEF EcrireEcheance, En, Finir
<1>2. /\ requete[r].lu \in Dates /\ requete[r].du \in Dates
      /\ requete[r].lu >= requete[r].du /\ requete[r].du >= Fond
  BY <1>1, Marques DEF Tient, Actes
<1>3. promis' \in Dates /\ promis' >= Fond /\ requete[r].lu >= promis'
  BY <1>1, <1>2, Constantes DEF Dates
<1>4. QED
  BY <1>1, <1>2, <1>3, EcheanceContrat

\* Every request of a family is marked when another hand writes what it works on.
LEMMA CroiserContrat ==
  ASSUME Contrat, NEW famille, requete' = Croiser(famille)
  PROVE  /\ requete' \in [Requetes -> Actes] /\ SeSavent'
         /\ \A q \in Requetes :
              /\ Tient(requete'[q], exploitant, routeurs, compte, promis)
              /\ requete'[q].geste = requete[q].geste /\ requete'[q].etape = requete[q].etape
              /\ requete[q].croise \/ requete[q].geste \in famille => requete'[q].croise
<1> DEFINE o(q) == [requete[q] EXCEPT !.croise = TRUE]
<1>1. requete' = [q \in Requetes |-> IF requete[q].geste \in famille THEN o(q) ELSE requete[q]]
  BY DEF Croiser, EnCours
<1>2. \A q \in Requetes : /\ o(q) \in Actes /\ o(q).croise
                          /\ Tient(o(q), exploitant, routeurs, compte, promis)
                          /\ o(q).geste = requete[q].geste /\ o(q).etape = requete[q].etape
  BY CroiseTient DEF Contrat, TypeOK, Tiennent
<1>3. \A q \in Requetes : /\ requete[q] \in Actes
                          /\ Tient(requete[q], exploitant, routeurs, compte, promis)
  BY DEF Contrat, TypeOK, Tiennent
<1> HIDE DEF o
<1>4. \A q \in Requetes :
        /\ requete'[q] \in Actes /\ Tient(requete'[q], exploitant, routeurs, compte, promis)
        /\ requete'[q].geste = requete[q].geste /\ requete'[q].etape = requete[q].etape
        /\ requete[q].croise \/ requete[q].geste \in famille => requete'[q].croise
  BY <1>1, <1>2, <1>3
<1>5. SeSavent'
  BY <1>4 DEF Contrat, SeSavent
<1>6. QED
  BY <1>1, <1>4, <1>5

\* A router that calls back is counted for nobody: the creations that are in progress know.
LEMMA EnrolerRouteurContrat ==
  ASSUME Contrat, EnrolerRouteur
  PROVE  Contrat'
<1>1. /\ requete' \in [Requetes -> Actes] /\ SeSavent'
      /\ \A q \in Requetes :
           /\ Tient(requete'[q], exploitant, routeurs, compte, promis)
           /\ requete'[q].geste = requete[q].geste /\ requete'[q].etape = requete[q].etape
           /\ requete[q].croise \/ requete[q].geste \in {"routeur"} => requete'[q].croise
  BY CroiserContrat DEF EnrolerRouteur
<1>2. /\ routeurs' = routeurs + 1 /\ routeurs < MaxRouteurs
      /\ UNCHANGED <<exploitant, compte, compteur, gestes, boite, doute, promis>>
  BY DEF EnrolerRouteur, temoins
<1>3. routeurs' \in 0..MaxRouteurs
  BY <1>2, Constantes DEF Contrat, TypeOK
<1>4. TypeOK'
  BY <1>1, <1>2, <1>3 DEF Contrat, TypeOK, Existe
<1>5. Tiennent'
  <2> SUFFICES ASSUME NEW q \in Requetes
               PROVE  Tient(requete'[q], exploitant, routeurs', compte, promis)
    BY <1>2 DEF Tiennent
  <2>1. /\ Tient(requete'[q], exploitant, routeurs, compte, promis)
        /\ requete'[q].geste = "routeur" => requete'[q].croise
    BY <1>1
  <2>2. QED
    BY <2>1 DEF Tient
<1>6. PromisJuste' /\ CodeRecuVaut'
  BY <1>1, <1>2 DEF Contrat, PromisJuste, PlateformePayee, Existe, CodeRecuVaut
<1>7. QED
  BY <1>1, <1>4, <1>5, <1>6 DEF Contrat

LEMMA DefinirContrat ==
  ASSUME Contrat, NEW fin \in {Aucune, PeriodeJours}, NEW toleree \in BOOLEAN,
         NEW plafond \in {1, Illimite}, Definir(fin, toleree, plafond)
  PROVE  Contrat'
<1>1. /\ requete' \in [Requetes -> Actes] /\ SeSavent'
      /\ \A q \in Requetes :
           /\ Tient(requete'[q], exploitant, routeurs, compte, promis)
           /\ requete'[q].geste = requete[q].geste /\ requete'[q].etape = requete[q].etape
           /\ requete[q].croise \/ requete[q].geste \in DuContrat => requete'[q].croise
  BY CroiserContrat DEF Definir
<1>2. /\ exploitant' = [exploitant EXCEPT !.fin = fin, !.toleree = toleree, !.plafond = plafond]
      /\ promis' = IF fin = Aucune THEN Fond ELSE fin
      /\ Existe /\ gestes < MaxGestes /\ gestes' = gestes + 1
      /\ UNCHANGED <<routeurs, compte, compteur, boite, doute>>
  BY DEF Definir
<1>3. fin \in Dates /\ promis' \in Dates /\ promis' >= Fond /\ (fin >= promis' \/ promis' = Fond)
  BY <1>2, Constantes DEF Dates
<1>4. /\ exploitant' \in [statut : {"ABSENT", "PENDING", "ACTIVE", "SUSPENDED"}, fin : Dates,
                          toleree : BOOLEAN, plafond : {1, Illimite}]
      /\ exploitant'.statut = exploitant.statut /\ exploitant'.fin = fin
  BY <1>2, <1>3 DEF Contrat, TypeOK
<1>5. gestes' \in 0..MaxGestes
  BY <1>2, Constantes DEF Contrat, TypeOK
<1>6. TypeOK'
  BY <1>1, <1>2, <1>3, <1>4, <1>5 DEF Contrat, TypeOK, Existe
<1>7. Tiennent'
  <2> SUFFICES ASSUME NEW q \in Requetes
               PROVE  Tient(requete'[q], exploitant', routeurs, compte, promis')
    BY <1>2 DEF Tiennent
  <2>1. /\ Tient(requete'[q], exploitant, routeurs, compte, promis)
        /\ requete'[q].geste \in {"activation", "routeur"} => requete'[q].croise
    BY <1>1 DEF DuContrat
  <2>2. QED
    BY <2>1, <1>4 DEF Tient
<1>8. PromisJuste' /\ CodeRecuVaut'
  BY <1>1, <1>2, <1>3, <1>4 DEF Contrat, PromisJuste, PlateformePayee, Existe, CodeRecuVaut
<1>9. QED
  BY <1>1, <1>6, <1>7, <1>8 DEF Contrat

LEMMA SuspendreContrat ==
  ASSUME Contrat, Suspendre
  PROVE  Contrat'
<1>1. /\ exploitant' = [exploitant EXCEPT !.statut = "SUSPENDED"] /\ Existe
      /\ UNCHANGED <<routeurs, compte, compteur, requete, gestes, boite, doute, promis>>
  BY DEF Suspendre, temoins
<1>2. /\ exploitant' \in [statut : {"ABSENT", "PENDING", "ACTIVE", "SUSPENDED"}, fin : Dates,
                          toleree : BOOLEAN, plafond : {1, Illimite}]
      /\ exploitant'.statut # "ABSENT" /\ exploitant'.fin = exploitant.fin
      /\ exploitant'.plafond = exploitant.plafond
  BY <1>1 DEF Contrat, TypeOK
<1>3. TypeOK' /\ SeSavent' /\ PromisJuste' /\ CodeRecuVaut'
  <2>1. TypeOK'
    BY <1>1, <1>2 DEF Contrat, TypeOK, Existe
  <2>2. QED
    BY <2>1, <1>1, <1>2
    DEF Contrat, SeSavent, PromisJuste, PlateformePayee, Existe, CodeRecuVaut
<1>4. Tiennent'
  BY <1>1, <1>2 DEF Contrat, Tiennent, Tient
<1>5. QED
  BY <1>3, <1>4 DEF Contrat

LEMMA CreerRouteurContrat ==
  ASSUME Contrat, NEW r \in Requetes, CreerRouteur(r)
  PROVE  Contrat'
<1>1. /\ requete[r].geste = "routeur" /\ routeurs < MaxRouteurs /\ routeurs' = routeurs + 1
      /\ requete' = [requete EXCEPT ![r] = Repos]
      /\ UNCHANGED <<exploitant, compte, compteur, gestes, boite, doute, promis>>
      /\ requete[r].etape = "ecriture"
  BY DEF CreerRouteur, En, Finir, temoins
<1>2. /\ requete' \in [Requetes -> Actes] /\ SeSavent' /\ requete'[r] = Repos
      /\ \A q \in Requetes \ {r} : requete'[q] = requete[q]
  BY <1>1, SeulTient, ReposTient, Marques
<1>3. routeurs' \in 0..MaxRouteurs
  BY <1>1, Constantes DEF Contrat, TypeOK
<1>4. TypeOK'
  BY <1>1, <1>2, <1>3 DEF Contrat, TypeOK, Existe
<1>5. ASSUME NEW q \in Requetes \ {r}
      PROVE  Tient(requete[q], exploitant, routeurs', compte, promis)
  <2>1. /\ Tient(requete[q], exploitant, routeurs, compte, promis)
        /\ requete[q].geste = "routeur" => requete[q].croise
    BY <1>1, Marques DEF SeCroisent, DuContrat
  <2>2. QED
    BY <2>1 DEF Tient
<1>6. Tiennent'
  BY <1>1, <1>2, <1>5, ReposTient DEF Tiennent
<1>7. PromisJuste' /\ CodeRecuVaut'
  BY <1>1, <1>2 DEF Contrat, PromisJuste, PlateformePayee, Existe, CodeRecuVaut
<1>8. QED
  BY <1>2, <1>4, <1>6, <1>7 DEF Contrat

LEMMA SupprimerRouteurContrat ==
  ASSUME Contrat, SupprimerRouteur
  PROVE  Contrat'
<1>1. /\ routeurs > 0 /\ routeurs' = routeurs - 1
      /\ UNCHANGED <<exploitant, compte, compteur, requete, gestes, boite, doute, promis>>
  BY DEF SupprimerRouteur, temoins
<1>2. routeurs \in 0..MaxRouteurs /\ routeurs' \in 0..MaxRouteurs /\ routeurs' < routeurs
  BY <1>1, Constantes DEF Contrat, TypeOK
<1>3. TypeOK' /\ SeSavent' /\ PromisJuste' /\ CodeRecuVaut'
  <2>1. TypeOK'
    BY <1>1, <1>2 DEF Contrat, TypeOK, Existe
  <2>2. QED
    BY <2>1, <1>1
    DEF Contrat, SeSavent, PromisJuste, PlateformePayee, Existe, CodeRecuVaut
<1>4. exploitant.plafond \in Int
  BY Constantes DEF Contrat, TypeOK
<1>5. Tiennent'
  BY <1>1, <1>2, <1>4 DEF Contrat, Tiennent, Tient
<1>6. QED
  BY <1>3, <1>5 DEF Contrat

\* The counters and the requests go; a mail that had not left is a doubt.
LEMMA RedemarrerContrat ==
  ASSUME Contrat, Redemarrer
  PROVE  Contrat'
<1>1. /\ compteur' = [c \in Cles |-> Vierge] /\ requete' = [r \in Requetes |-> Repos]
      /\ doute' = (doute \/ \E r \in Requetes : requete[r].etape = "envoi")
      /\ UNCHANGED <<exploitant, routeurs, compte, gestes, boite, promis>>
  BY DEF Redemarrer
<1>2. Vierge \in [echecs : Nat, reste : 0..Fenetre] /\ Vierge.echecs = 0 /\ Vierge.reste = 0
  BY Constantes DEF Vierge
<1>3. doute' \in BOOLEAN
  BY <1>1
<1>4. /\ requete' \in [Requetes -> Actes]
      /\ compteur' \in [Cles -> [echecs : Nat, reste : 0..Fenetre]]
      /\ \A c \in Cles : compteur'[c].echecs = 0 <=> compteur'[c].reste = 0
  BY <1>1, <1>2, ReposTient
<1>5. TypeOK'
  BY <1>1, <1>3, <1>4 DEF Contrat, TypeOK, Existe
<1>6. Tiennent' /\ SeSavent'
  BY <1>1, ReposTient DEF Tiennent, SeSavent
<1>7. PromisJuste'
  BY <1>1 DEF Contrat, PromisJuste, PlateformePayee, Existe
<1>8. CodeRecuVaut'
  BY <1>1 DEF Contrat, CodeRecuVaut
<1>9. QED
  BY <1>5, <1>6, <1>7, <1>8 DEF Contrat

LEMMA VieillirDates ==
  ASSUME NEW d \in Dates
  PROVE  /\ Vieillir(d) \in Dates /\ (d >= Fond => Vieillir(d) >= Fond)
         /\ (d = Aucune => Vieillir(d) = Aucune) /\ (d = Fond => Vieillir(d) = Fond)
BY Constantes DEF Vieillir, Dates

LEMMA VieillirCroit ==
  ASSUME NEW d \in Dates, NEW e \in Dates, d >= e, e >= Fond
  PROVE  Vieillir(d) >= Vieillir(e)
BY Constantes DEF Vieillir, Dates

\* Time passes for the row, for what was promised and for what is about to be written.
LEMMA TicContrat ==
  ASSUME Contrat, Tic
  PROVE  Contrat'
<1> DEFINE v(q) == [requete[q] EXCEPT !.lu = Vieillir(@), !.du = Vieillir(@)]
           w(c) == IF compteur[c].reste <= 1 THEN Vierge
                   ELSE [compteur[c] EXCEPT !.reste = @ - 1]
<1>1. /\ exploitant' = [exploitant EXCEPT !.fin = Vieillir(@)]
      /\ promis' = Vieillir(promis)
      /\ compte' = [compte EXCEPT !.age = IF compte.code = 0 \/ @ > Validite THEN @ ELSE @ + 1]
      /\ compteur' = [c \in Cles |-> w(c)]
      /\ requete' = [q \in Requetes |-> IF requete[q].geste # "souscription" THEN requete[q]
                                        ELSE v(q)]
      /\ UNCHANGED <<routeurs, gestes, boite, doute>>
  BY DEF Tic
<1>2. /\ exploitant' \in [statut : {"ABSENT", "PENDING", "ACTIVE", "SUSPENDED"}, fin : Dates,
                          toleree : BOOLEAN, plafond : {1, Illimite}]
      /\ exploitant'.statut = exploitant.statut /\ exploitant'.plafond = exploitant.plafond
      /\ exploitant'.fin = Vieillir(exploitant.fin) /\ exploitant.fin \in Dates
  BY <1>1, VieillirDates DEF Contrat, TypeOK
<1>3. /\ promis \in Dates /\ promis >= Fond /\ promis' \in Dates /\ promis' >= Fond
      /\ (promis = Fond => promis' = Fond)
  BY <1>1, VieillirDates DEF Contrat, TypeOK, PromisJuste
<1>4. compte' \in Comptes /\ compte'.code = compte.code /\ compte'.verifie = compte.verifie
      /\ (compte = SansCompte => compte' = SansCompte)
  <2>1. compte \in Comptes
    BY DEF Contrat, TypeOK, Comptes
  <2> DEFINE a == IF compte.code = 0 \/ compte.age > Validite THEN compte.age ELSE compte.age + 1
  <2>2. a \in 0..(Validite + 1)
    <3>1. compte.age \in 0..(Validite + 1)
      BY <2>1 DEF Comptes
    <3>2. QED
      BY <3>1, Constantes
  <2>3. compte' = [compte EXCEPT !.age = a]
    BY <1>1
  <2> HIDE DEF a
  <2>4. compte'.code = compte.code /\ compte'.verifie = compte.verifie /\ compte' \in Comptes
    BY <2>1, <2>2, <2>3 DEF Comptes
  <2>5. ASSUME compte = SansCompte PROVE compte' = SansCompte
    <3>1. compte.code = 0
      BY <2>5 DEF SansCompte
    <3>2. compte' = [compte EXCEPT !.age = compte.age]
      BY <1>1, <3>1
    <3>3. QED
      BY <2>1, <2>5, <3>2 DEF Comptes
  <2>6. QED
    BY <2>4, <2>5
<1>5. /\ compteur' \in [Cles -> [echecs : Nat, reste : 0..Fenetre]]
      /\ \A c \in Cles : compteur'[c].echecs = 0 <=> compteur'[c].reste = 0
  <2>1. ASSUME NEW c \in Cles
        PROVE  /\ w(c) \in [echecs : Nat, reste : 0..Fenetre]
               /\ w(c).echecs = 0 <=> w(c).reste = 0
    <3>1. /\ compteur[c] \in [echecs : Nat, reste : 0..Fenetre]
          /\ compteur[c].echecs = 0 <=> compteur[c].reste = 0
      BY DEF Contrat, TypeOK
    <3>2. QED
      BY <3>1, Constantes DEF Vierge
  <2> HIDE DEF w
  <2>2. QED
    BY <1>1, <2>1
<1>6. ASSUME NEW q \in Requetes
      PROVE  /\ requete'[q] \in Actes
             /\ Tient(requete'[q], exploitant', routeurs, compte', promis')
             /\ requete'[q].geste = requete[q].geste /\ requete'[q].etape = requete[q].etape
             /\ requete'[q].croise = requete[q].croise
  <2>1. requete[q] \in Actes /\ Tient(requete[q], exploitant, routeurs, compte, promis)
    BY DEF Contrat, TypeOK, Tiennent
  <2>2. CASE requete[q].geste # "souscription"
    <3>1. requete'[q] = requete[q]
      BY <1>1, <2>2
    <3>2. QED
      BY <2>1, <3>1, <1>2, <1>3, <1>4 DEF Tient
  <2>3. CASE requete[q].geste = "souscription"
    <3>1. requete'[q] = v(q)
      BY <1>1, <2>3
    <3>2. /\ requete[q].lu \in Dates /\ requete[q].du \in Dates
          /\ requete[q].lu >= requete[q].du /\ requete[q].du >= Fond
      BY <2>1, <2>3 DEF Tient, Actes
    <3>3. /\ v(q) \in Actes /\ v(q).lu = Vieillir(requete[q].lu)
          /\ v(q).du = Vieillir(requete[q].du) /\ v(q).geste = requete[q].geste
          /\ v(q).etape = requete[q].etape /\ v(q).croise = requete[q].croise
      BY <2>1, <3>2, VieillirDates DEF Actes
    <3>4. v(q).lu >= v(q).du /\ v(q).du >= Fond
      BY <3>2, <3>3, VieillirDates, VieillirCroit
    <3>5. v(q).etape # "envoi"
      BY <2>1, <2>3, <3>3 DEF Tient
    <3> HIDE DEF v
    <3>6. Tient(v(q), exploitant', routeurs, compte', promis')
      BY <2>1, <2>3, <3>3, <3>4, <3>5, <1>2 DEF Tient
    <3>7. QED
      BY <3>1, <3>3, <3>6
  <2>4. QED
    BY <2>2, <2>3
<1>7. requete' \in [Requetes -> Actes]
  BY <1>1, <1>6
<1>8. TypeOK'
  <2>1. ~Existe' => exploitant'.fin = Aucune /\ compte' = SansCompte
    BY <1>2, <1>4, VieillirDates DEF Contrat, TypeOK, Existe
  <2>2. QED
    BY <1>1, <1>2, <1>3, <1>4, <1>5, <1>7, <2>1 DEF Contrat, TypeOK, Comptes
<1>9. Tiennent' /\ SeSavent'
  BY <1>1, <1>6 DEF Contrat, Tiennent, SeSavent
<1>10. PromisJuste'
  <2>1. exploitant'.fin >= promis' \/ promis' = Fond
    BY <1>1, <1>2, <1>3, VieillirCroit DEF Contrat, PromisJuste, PlateformePayee
  <2>2. QED
    BY <2>1, <1>2, <1>3 DEF Contrat, PromisJuste, PlateformePayee, Existe
<1>11. CodeRecuVaut'
  BY <1>1, <1>4, <1>6 DEF Contrat, CodeRecuVaut
<1>12. QED
  BY <1>8, <1>9, <1>10, <1>11 DEF Contrat

-----------------------------------------------------------------------------
LEMMA ConnexionContrat ==
  ASSUME Contrat, NEW r \in Requetes, NEW email \in Emails, NEW bon \in BOOLEAN,
         Connexion(r, email, bon)
  PROVE  Contrat'
<1> DEFINE b == [Repos EXCEPT !.geste = "connexion", !.etape = "comparaison", !.cle = email,
                              !.lu = IF ~bon THEN Mauvais
                        ELSE IF exploitant.statut = "ACTIVE" THEN Actif ELSE Inactif]
<1>1. Debut(r, b) /\ UNCHANGED <<exploitant, routeurs, compte, compteur, temoins>>
  BY DEF Connexion
<1>2. b \in Actes /\ ~b.croise /\ b.geste = "connexion" /\ b.etape = "comparaison"
  <2> DEFINE l == IF ~bon THEN Mauvais
                  ELSE IF exploitant.statut = "ACTIVE" THEN Actif ELSE Inactif
  <2>1. l \in Dates
    BY Constantes DEF Dates, Mauvais, Inactif, Actif
  <2> HIDE DEF l
  <2>2. b = [Repos EXCEPT !.geste = "connexion", !.etape = "comparaison", !.cle = email, !.lu = l]
    BY DEF l
  <2>3. QED
    BY <2>1, <2>2, ReposTient DEF Actes, Repos
<1>3. Tient(b, exploitant, routeurs, compte, promis)
  <2> HIDE DEF b
  <2>1. QED
    BY <1>2 DEF Tient
<1> HIDE DEF b
<1>4. QED
  BY <1>1, <1>2, <1>3, CommenceContrat

LEMMA InscrireContrat ==
  ASSUME Contrat, NEW r \in Requetes, Inscrire(r)
  PROVE  Contrat'
<1> DEFINE b == [Repos EXCEPT !.geste = "inscription", !.etape = "creation", !.lu = Tirage]
<1>1. Debut(r, b) /\ UNCHANGED <<exploitant, routeurs, compte, compteur, temoins>>
  BY DEF Inscrire
<1>2. Tirage \in Nat /\ Tirage \in Dates
  BY Constantes DEF Contrat, TypeOK, Tirage, Dates
<1>3. b \in Actes /\ ~b.croise /\ b.geste = "inscription" /\ b.etape = "creation" /\ b.lu = Tirage
  BY <1>2, ReposTient DEF Actes, Repos, DuContrat
<1> HIDE DEF b
<1>4. Tient(b, exploitant, routeurs, compte, promis)
  BY <1>2, <1>3 DEF Tient
<1>5. QED
  BY <1>1, <1>3, <1>4, CommenceContrat

LEMMA RenvoyerContrat ==
  ASSUME Contrat, NEW r \in Requetes, Renvoyer(r)
  PROVE  Contrat'
<1> DEFINE b == [Repos EXCEPT !.geste = "renvoi", !.etape = "ecriture", !.lu = Tirage]
<1>1. Debut(r, b) /\ UNCHANGED <<exploitant, routeurs, compte, compteur, temoins>> /\ Existe
  BY DEF Renvoyer
<1>2. Tirage \in Nat /\ Tirage \in Dates
  BY Constantes DEF Contrat, TypeOK, Tirage, Dates
<1>3. b \in Actes /\ ~b.croise /\ b.geste = "renvoi" /\ b.etape = "ecriture" /\ b.lu = Tirage
  BY <1>2, ReposTient DEF Actes, Repos, DuCode
<1> HIDE DEF b
<1>4. Tient(b, exploitant, routeurs, compte, promis)
  BY <1>1, <1>2, <1>3 DEF Tient, Existe
<1>5. QED
  BY <1>1, <1>3, <1>4, CommenceContrat

LEMMA ConfirmerContrat ==
  ASSUME Contrat, NEW r \in Requetes, Confirmer(r, boite)
  PROVE  Contrat'
<1> DEFINE b == [Repos EXCEPT !.geste = "confirmation", !.etape = "ecriture"]
<1>1. Debut(r, b) /\ UNCHANGED <<exploitant, routeurs, compte, compteur, temoins>> /\ Existe
  BY DEF Confirmer
<1>2. b \in Actes /\ ~b.croise /\ b.geste = "confirmation" /\ b.etape = "ecriture"
  BY ReposTient DEF Actes, Repos, DuCode
<1> HIDE DEF b
<1>3. Tient(b, exploitant, routeurs, compte, promis)
  BY <1>1, <1>2 DEF Tient, Existe
<1>4. QED
  BY <1>1, <1>2, <1>3, CommenceContrat

\* What the request works out is at least what was promised: it has read the row.
LEMMA SouscrireContrat ==
  ASSUME Contrat, NEW r \in Requetes, Souscrire(r)
  PROVE  Contrat'
<1> DEFINE l == Prochaine(exploitant.fin)
           d == PeriodeJours + (IF promis > 0 THEN promis ELSE 0)
           b == [Repos EXCEPT !.geste = "souscription", !.etape = "ecriture",
                              !.lu = l, !.du = d]
<1>1. Debut(r, b) /\ UNCHANGED <<exploitant, routeurs, compte, compteur, temoins>> /\ Existe
  BY DEF Souscrire
<1>2. /\ exploitant.fin \in Dates /\ promis \in Dates
      /\ (exploitant.fin >= promis \/ promis = Fond)
  BY DEF Contrat, TypeOK, PromisJuste, PlateformePayee
<1>3. l \in Dates /\ d \in Dates /\ l >= d /\ d >= Fond
  BY <1>2, Constantes DEF Dates, Prochaine
<1> HIDE DEF l, d
<1>4. /\ b \in Actes /\ ~b.croise /\ b.geste = "souscription" /\ b.etape = "ecriture"
      /\ b.lu = l /\ b.du = d
  BY <1>3, ReposTient DEF Actes, Repos, DuContrat
<1> HIDE DEF b
<1>5. Tient(b, exploitant, routeurs, compte, promis)
  BY <1>1, <1>3, <1>4 DEF Tient, Existe
<1>6. QED
  BY <1>1, <1>4, <1>5, CommenceContrat

LEMMA DemanderRouteurContrat ==
  ASSUME Contrat, NEW r \in Requetes, DemanderRouteur(r)
  PROVE  Contrat'
<1> DEFINE b == [Repos EXCEPT !.geste = "routeur", !.etape = "ecriture"]
<1>1. /\ Debut(r, b) /\ UNCHANGED <<exploitant, routeurs, compte, compteur, temoins>>
      /\ RouteurDisponible
  BY DEF DemanderRouteur
<1>2. b \in Actes /\ ~b.croise /\ b.geste = "routeur" /\ b.etape = "ecriture"
  BY ReposTient DEF Actes, Repos, DuContrat
<1> HIDE DEF b
<1>3. Tient(b, exploitant, routeurs, compte, promis)
  BY <1>1, <1>2 DEF Tient, RouteurDisponible
<1>4. QED
  BY <1>1, <1>2, <1>3, CommenceContrat

LEMMA NextContrat == Contrat /\ [Next]_vars => Contrat'
<1> SUFFICES ASSUME Contrat, [Next]_vars PROVE Contrat'
  OBVIOUS
<1>1. CASE UNCHANGED vars
  BY <1>1 DEF vars, temoins, Contrat, TypeOK, Existe, Tiennent, SeSavent, PromisJuste,
              PlateformePayee, CodeRecuVaut
<1>2. ASSUME NEW r \in Requetes, DuCompte(r) PROVE Contrat'
  BY <1>2, ConnexionContrat, ComparerContrat, InscrireContrat, CreerContrat, RenvoyerContrat,
     EcrireCodeContrat, EnvoyerContrat, ConfirmerContrat, EcrireConfirmationContrat
  DEF DuCompte
<1>3. ASSUME NEW r \in Requetes, DuContratAvec(r) PROVE Contrat'
  BY <1>3, ActiverContrat, LireEssaiContrat, EcrireEssaiContrat, SouscrireContrat,
     EcrireEcheanceContrat, DemanderRouteurContrat, CreerRouteurContrat
  DEF DuContratAvec
<1>4. ASSUME NEW fin \in {Aucune, PeriodeJours}, NEW toleree \in BOOLEAN,
             NEW plafond \in {1, Illimite}, Definir(fin, toleree, plafond)
      PROVE  Contrat'
  BY <1>4, DefinirContrat
<1>5. CASE Suspendre \/ EnrolerRouteur \/ SupprimerRouteur \/ Redemarrer \/ Tic
  BY <1>5, SuspendreContrat, EnrolerRouteurContrat, SupprimerRouteurContrat,
     RedemarrerContrat, TicContrat
<1>6. QED
  BY <1>1, <1>2, <1>3, <1>4, <1>5 DEF Next

LEMMA InitContrat == Init => Contrat
<1> SUFFICES ASSUME Init PROVE Contrat
  OBVIOUS
<1>1. /\ exploitant \in [statut : {"ABSENT", "PENDING", "ACTIVE", "SUSPENDED"}, fin : Dates,
                         toleree : BOOLEAN, plafond : {1, Illimite}]
      /\ exploitant.fin = Aucune
  <2>1. Aucune \in Dates
    BY Constantes DEF Dates
  <2>2. exploitant \in [statut : {"ABSENT", "PENDING"}, fin : {Aucune}, toleree : {TRUE},
                        plafond : {Illimite}]
    BY DEF Init
  <2> HIDE DEF Dates
  <2>3. QED
    BY <2>1, <2>2
<1>2. Vierge \in [echecs : Nat, reste : 0..Fenetre] /\ Vierge.echecs = 0 /\ Vierge.reste = 0
  BY Constantes DEF Vierge
<1>3. compte = SansCompte /\ compte \in Comptes /\ promis = Fond /\ promis \in Dates
  BY CompteNeuf, Constantes DEF Init, Dates
<1>4. /\ requete \in [Requetes -> Actes] /\ \A r \in Requetes : requete[r] = Repos
      /\ compteur \in [Cles -> [echecs : Nat, reste : 0..Fenetre]]
      /\ \A c \in Cles : compteur[c].echecs = 0 <=> compteur[c].reste = 0
  BY <1>2, ReposTient DEF Init
<1>5. /\ routeurs \in 0..MaxRouteurs /\ gestes \in 0..MaxGestes /\ boite = 0 /\ boite \in Nat
      /\ doute \in BOOLEAN
  <2>1. doute \in BOOLEAN
    BY DEF Init
  <2>2. QED
    BY <2>1, Constantes DEF Init
<1>6. TypeOK
  BY <1>1, <1>3, <1>4, <1>5 DEF TypeOK, Comptes
<1>7. Tiennent /\ SeSavent /\ PromisJuste /\ CodeRecuVaut
  BY <1>3, <1>4, <1>5, ReposTient, Constantes
  DEF Tiennent, SeSavent, PromisJuste, PlateformePayee, CodeRecuVaut
<1>8. QED
  BY <1>6, <1>7 DEF Contrat

\* Types and what each request has read hold in every reachable state.
THEOREM ContratTient == Spec => []Contrat
BY InitContrat, NextContrat, PTL DEF Spec

\* The rows, the counters and the requests keep their types, an account is there with
\* its operator, and a key has a window as long as it has failures.
THEOREM TypageComptes == Spec => []TypeOK
<1>1. Contrat => TypeOK
  BY DEF Contrat
<1>2. QED
  BY <1>1, ContratTient, PTL

\* What was paid or set is never shorter in the row of the operator.
THEOREM PeriodeGardee == Spec => []PlateformePayee
<1>1. Contrat => PlateformePayee
  BY DEF Contrat, PromisJuste
<1>2. QED
  BY <1>1, ContratTient, PTL

\* The last code that arrived opens, unless a mail was lost since or two codes crossed.
THEOREM CodeOuvre == Spec => []CodeRecuVaut
<1>1. Contrat => CodeRecuVaut
  BY DEF Contrat
<1>2. QED
  BY <1>1, ContratTient, PTL

-----------------------------------------------------------------------------
\* Only the end of a creation and a router that calls back add one.
LEMMA SeulLaCreation ==
  ASSUME Contrat, Next, routeurs' > routeurs
  PROVE  EnrolerRouteur \/ \E s \in Requetes : CreerRouteur(s)
<1>1. routeurs \in Int
  BY Constantes DEF Contrat, TypeOK
<1>2. ASSUME NEW r \in Requetes, DuCompte(r) PROVE routeurs' = routeurs
  BY <1>2 DEF DuCompte, Connexion, Comparer, Inscrire, Creer, Renvoyer, EcrireCode, Envoyer,
              Confirmer, EcrireConfirmation
<1>3. ASSUME NEW r \in Requetes, DuContratAvec(r) PROVE routeurs' = routeurs \/ CreerRouteur(r)
  BY <1>3 DEF DuContratAvec, Activer, LireEssai, EcrireEssai, Souscrire, EcrireEcheance,
              DemanderRouteur
<1>4. ASSUME NEW fin, NEW toleree, NEW plafond, Definir(fin, toleree, plafond)
      PROVE  routeurs' = routeurs
  BY <1>4 DEF Definir
<1>5. Suspendre \/ SupprimerRouteur \/ Redemarrer \/ Tic => ~(routeurs' > routeurs)
  <2>1. Suspendre \/ Redemarrer \/ Tic => routeurs' = routeurs
    BY Zenon DEF Suspendre, Redemarrer, Tic
  <2>2. SupprimerRouteur => routeurs' = routeurs - 1
    BY DEF SupprimerRouteur
  <2>3. QED
    BY <1>1, <2>1, <2>2
<1>6. routeurs' # routeurs
  BY <1>1
<1>7. QED
  BY <1>2, <1>3, <1>4, <1>5, <1>6 DEF Next

\* A router that the console creates is over the ceiling of the offer only beside another
\* creation or an enrolment, or while the offer changes.
THEOREM RouteursSousPlafond == Spec => PlafondTenu
<1> DEFINE Pas ==
  \A r \in Requetes :
       En(r, "routeur", "ecriture") /\ ~requete[r].croise /\ routeurs' > routeurs
         /\ requete'[r] = Repos
       => exploitant.plafond = Illimite \/ routeurs' <= exploitant.plafond
<1>1. Contrat /\ [Next]_vars => [Pas]_vars
  <2> SUFFICES ASSUME Contrat, Next, NEW r \in Requetes, En(r, "routeur", "ecriture"),
                      ~requete[r].croise, routeurs' > routeurs, requete'[r] = Repos
               PROVE  exploitant.plafond = Illimite \/ routeurs' <= exploitant.plafond
    OBVIOUS
  <2>0. requete \in [Requetes -> Actes] /\ requete[r].geste = "routeur"
        /\ Repos.geste # "routeur"
    BY DEF Contrat, TypeOK, En, Repos
  <2>7. ~EnrolerRouteur
    <3>1. EnrolerRouteur => requete'[r].geste = requete[r].geste
      BY CroiserContrat DEF EnrolerRouteur
    <3>2. QED
      BY <3>1, <2>0
  <2>1. PICK s \in Requetes : CreerRouteur(s)
    BY <2>7, SeulLaCreation
  <2>2. s = r
    <3>1. requete' = [requete EXCEPT ![s] = Repos]
      BY <2>1 DEF CreerRouteur, Finir
    <3>2. QED
      BY <2>0, <3>1
  <2>3. routeurs' = routeurs + 1
    BY <2>1 DEF CreerRouteur
  <2>4. exploitant.plafond = Illimite \/ routeurs < exploitant.plafond
    BY Marques DEF Tient, En
  <2>5. routeurs \in Int /\ exploitant.plafond \in Int
    BY Constantes DEF Contrat, TypeOK
  <2>6. QED
    BY <2>3, <2>4, <2>5
<1>2. QED
  BY <1>1, ContratTient, PTL DEF Spec, PlafondTenu

-----------------------------------------------------------------------------
(* The throttle.                                                           *)

Voisins(c) == {r \in EnCours({"connexion"}) : c \in ClesDe(requete[r].cle)}

LEMMA NombreDeVoisins ==
  /\ IsFiniteSet(Requetes) /\ Cardinality(Requetes) \in Nat
  /\ \A S : S \subseteq Requetes =>
       /\ IsFiniteSet(S) /\ Cardinality(S) \in Nat /\ Cardinality(S) <= Cardinality(Requetes)
       /\ \A T : T \subseteq S => Cardinality(T) <= Cardinality(S)
       /\ \A r \in S : Cardinality(S \ {r}) = Cardinality(S) - 1
<1>1. IsFiniteSet(Requetes)
  BY ConstantesPlateforme DEF ConstantesPlateforme
<1>2. QED
  BY <1>1, FS_Subset, FS_CardinalityType, FS_RemoveElement

LEMMA Plafonds == \A c \in Cles : Plafond(c) \in Nat /\ Plafond(c) >= 1
BY ConstantesPlateforme DEF ConstantesPlateforme, Plafond

\* No request starts to compare, and no counter rises.
Calme ==
  /\ \A q \in Requetes :
       requete'[q].geste = "connexion" =>
         requete[q].geste = "connexion" /\ requete'[q].cle = requete[q].cle
  /\ \A c \in Cles : compteur'[c].echecs <= compteur[c].echecs

LEMMA CalmeBorne ==
  ASSUME Contrat, EssaisBornes, Calme, Contrat'
  PROVE  EssaisBornes'
<1> SUFFICES ASSUME NEW c \in Cles
             PROVE  compteur'[c].echecs + Cardinality(Voisins(c)')
                      <= Plafond(c) - 1 + Cardinality(Requetes)
  BY DEF EssaisBornes, Voisins
<1>1. Voisins(c)' \subseteq Voisins(c) /\ Voisins(c) \subseteq Requetes
  BY DEF Calme, Voisins, EnCours
<1>2. compteur[c].echecs + Cardinality(Voisins(c)) <= Plafond(c) - 1 + Cardinality(Requetes)
  BY DEF EssaisBornes, Voisins
<1>3. compteur[c].echecs \in Nat /\ compteur'[c].echecs \in Nat
  BY DEF Contrat, TypeOK
<1>4. /\ Cardinality(Voisins(c)') <= Cardinality(Voisins(c))
      /\ Cardinality(Voisins(c)') \in Nat /\ Cardinality(Voisins(c)) \in Nat
  BY <1>1, NombreDeVoisins
<1>5. compteur'[c].echecs <= compteur[c].echecs
  BY DEF Calme
<1>6. QED
  BY <1>2, <1>3, <1>4, <1>5, Plafonds, NombreDeVoisins

LEMMA DebutCalme ==
  ASSUME Contrat, NEW r \in Requetes, NEW b \in Actes, Debut(r, b), b.geste # "connexion",
         UNCHANGED compteur
  PROVE  Calme
<1> DEFINE x == {q \in Requetes : SeCroisent(requete[q].geste, b.geste)} # {}
           n == [b EXCEPT !.croise = x]
           o(q) == [requete[q] EXCEPT !.croise = TRUE]
<1>1. requete \in [Requetes -> Actes] /\ \A c \in Cles : compteur[c].echecs \in Nat
  BY DEF Contrat, TypeOK
<1>2. \A q \in Requetes : requete'[q] = n \/ requete'[q] = o(q) \/ requete'[q] = requete[q]
  BY DEF Debut
<1>3. n.geste # "connexion"
  <2> HIDE DEF x
  <2>1. QED
    BY DEF Actes
<1>4. \A q \in Requetes : o(q).geste = requete[q].geste /\ o(q).cle = requete[q].cle
  BY <1>1 DEF Actes
<1> HIDE DEF n, o
<1>5. QED
  BY <1>1, <1>2, <1>3, <1>4 DEF Calme

LEMMA CompteCalme ==
  ASSUME Contrat, NEW r \in Requetes,
         \/ Inscrire(r) \/ Creer(r) \/ Renvoyer(r) \/ EcrireCode(r) \/ Envoyer(r)
         \/ Confirmer(r, boite) \/ EcrireConfirmation(r)
  PROVE  Calme
<1>1. requete \in [Requetes -> Actes] /\ \A c \in Cles : compteur[c].echecs \in Nat
  BY DEF Contrat, TypeOK
<1>2. CASE Inscrire(r)
  <2> DEFINE b == [Repos EXCEPT !.geste = "inscription", !.etape = "creation", !.lu = Tirage]
  <2>1. Debut(r, b) /\ UNCHANGED compteur
    BY <1>2 DEF Inscrire
  <2>3. Tirage \in Dates
    BY Constantes DEF Contrat, TypeOK, Tirage, Dates
  <2>2. b \in Actes /\ b.geste # "connexion"
    BY <2>3, ReposTient DEF Actes, Repos, DuContrat
  <2> HIDE DEF b
  <2>4. QED
    BY <2>1, <2>2, DebutCalme
<1>3. CASE Renvoyer(r)
  <2> DEFINE b == [Repos EXCEPT !.geste = "renvoi", !.etape = "ecriture", !.lu = Tirage]
  <2>1. Debut(r, b) /\ UNCHANGED compteur
    BY <1>3 DEF Renvoyer
  <2>3. Tirage \in Dates
    BY Constantes DEF Contrat, TypeOK, Tirage, Dates
  <2>2. b \in Actes /\ b.geste # "connexion"
    BY <2>3, ReposTient DEF Actes, Repos, DuCode
  <2> HIDE DEF b
  <2>4. QED
    BY <2>1, <2>2, DebutCalme
<1>4. CASE Confirmer(r, boite)
  <2> DEFINE b == [Repos EXCEPT !.geste = "confirmation", !.etape = "ecriture"]
  <2>1. Debut(r, b) /\ UNCHANGED compteur
    BY <1>4 DEF Confirmer
  <2>2. b \in Actes /\ b.geste # "connexion"
    BY ReposTient DEF Actes, Repos, DuCode
  <2> HIDE DEF b
  <2>4. QED
    BY <2>1, <2>2, DebutCalme
<1>5. CASE Creer(r)
  BY <1>1, <1>5 DEF Creer, En, Aller, Finir, Calme, Repos, Actes
<1>6. CASE EcrireCode(r)
  BY <1>1, <1>6 DEF EcrireCode, En, Aller, Calme, Repos, Actes
<1>7. CASE Envoyer(r) \/ EcrireConfirmation(r)
  BY <1>1, <1>7 DEF Envoyer, EcrireConfirmation, Finir, Calme, Repos, Actes
<1>8. QED
  BY <1>2, <1>3, <1>4, <1>5, <1>6, <1>7

LEMMA ContratCalme ==
  ASSUME Contrat, NEW r \in Requetes, DuContratAvec(r)
  PROVE  Calme
<1>1. requete \in [Requetes -> Actes] /\ \A c \in Cles : compteur[c].echecs \in Nat
  BY DEF Contrat, TypeOK
<1>2. CASE Activer(r)
  <2> DEFINE b == [Repos EXCEPT !.geste = "activation", !.etape = "lecture"]
  <2>1. Debut(r, b) /\ UNCHANGED compteur
    BY <1>2 DEF Activer
  <2>2. b \in Actes /\ b.geste # "connexion"
    BY ReposTient DEF Actes, Repos, DuContrat
  <2> HIDE DEF b
  <2>4. QED
    BY <2>1, <2>2, DebutCalme
<1>3. CASE Souscrire(r)
  <2> DEFINE b == [Repos EXCEPT !.geste = "souscription", !.etape = "ecriture",
                     !.lu = Prochaine(exploitant.fin),
                     !.du = PeriodeJours + (IF promis > 0 THEN promis ELSE 0)]
  <2>1. Debut(r, b) /\ UNCHANGED compteur
    BY <1>3 DEF Souscrire
  <2>3. /\ Prochaine(exploitant.fin) \in Dates
        /\ PeriodeJours + (IF promis > 0 THEN promis ELSE 0) \in Dates
    BY Constantes DEF Contrat, TypeOK, Prochaine, Dates
  <2>2. b \in Actes /\ b.geste # "connexion"
    BY <2>3, ReposTient DEF Actes, Repos, DuContrat
  <2> HIDE DEF b
  <2>4. QED
    BY <2>1, <2>2, DebutCalme
<1>4. CASE DemanderRouteur(r)
  <2> DEFINE b == [Repos EXCEPT !.geste = "routeur", !.etape = "ecriture"]
  <2>1. Debut(r, b) /\ UNCHANGED compteur
    BY <1>4 DEF DemanderRouteur
  <2>2. b \in Actes /\ b.geste # "connexion"
    BY ReposTient DEF Actes, Repos, DuContrat
  <2> HIDE DEF b
  <2>4. QED
    BY <2>1, <2>2, DebutCalme
<1>5. CASE LireEssai(r)
  BY <1>1, <1>5 DEF LireEssai, En, Aller, Finir, Calme, Repos, Actes
<1>6. CASE EcrireEssai(r) \/ EcrireEcheance(r) \/ CreerRouteur(r)
  BY <1>1, <1>6 DEF EcrireEssai, EcrireEcheance, CreerRouteur, Finir, Calme, Repos, Actes
<1>7. QED
  BY <1>2, <1>3, <1>4, <1>5, <1>6 DEF DuContratAvec

LEMMA LibreCalme ==
  ASSUME Contrat,
         \/ \E fin, toleree, plafond : Definir(fin, toleree, plafond)
         \/ Suspendre \/ EnrolerRouteur \/ SupprimerRouteur \/ Redemarrer \/ Tic
         \/ UNCHANGED vars
  PROVE  Calme
<1>1. /\ requete \in [Requetes -> Actes]
      /\ \A c \in Cles : compteur[c].echecs \in Nat /\ compteur[c].echecs >= 0
      /\ compteur \in [Cles -> [echecs : Nat, reste : 0..Fenetre]]
  BY DEF Contrat, TypeOK
<1>2. ASSUME NEW fin, NEW toleree, NEW plafond, Definir(fin, toleree, plafond) PROVE Calme
  <2>1. \A q \in Requetes : requete'[q].geste = requete[q].geste /\ requete'[q].cle = requete[q].cle
    BY <1>1, <1>2 DEF Definir, Croiser, Actes
  <2>2. UNCHANGED compteur
    BY <1>2 DEF Definir
  <2>3. QED
    BY <1>1, <2>1, <2>2 DEF Calme
<1>3. CASE Redemarrer
  <2>1. compteur' = [c \in Cles |-> Vierge] /\ requete' = [r \in Requetes |-> Repos]
    BY <1>3, Zenon DEF Redemarrer
  <2>2. QED
    BY <1>1, <2>1 DEF Calme, Vierge, Repos
<1>4. CASE Tic
  <2> DEFINE v(q) == [requete[q] EXCEPT !.lu = Vieillir(@), !.du = Vieillir(@)]
             w(c) == IF compteur[c].reste <= 1 THEN Vierge
                     ELSE [compteur[c] EXCEPT !.reste = @ - 1]
  <2>1. /\ requete' = [r \in Requetes |-> IF requete[r].geste # "souscription" THEN requete[r]
                                          ELSE v(r)]
        /\ compteur' = [c \in Cles |-> w(c)]
    BY <1>4 DEF Tic
  <2>2. \A q \in Requetes : v(q).geste = requete[q].geste /\ v(q).cle = requete[q].cle
    BY <1>1 DEF Actes
  <2>3. \A c \in Cles : w(c).echecs <= compteur[c].echecs
    BY <1>1 DEF Vierge
  <2> HIDE DEF v, w
  <2>4. QED
    BY <2>1, <2>2, <2>3 DEF Calme
<1>5. CASE Suspendre \/ SupprimerRouteur \/ UNCHANGED vars
  <2>1. UNCHANGED <<compteur, requete>>
    BY <1>5 DEF Suspendre, SupprimerRouteur, vars
  <2>2. QED
    BY <1>1, <2>1 DEF Calme
<1>7. CASE EnrolerRouteur
  <2>1. \A q \in Requetes : requete'[q].geste = requete[q].geste /\ requete'[q].cle = requete[q].cle
    BY <1>1, <1>7 DEF EnrolerRouteur, Croiser, Actes
  <2>2. UNCHANGED compteur
    BY <1>7 DEF EnrolerRouteur
  <2>3. QED
    BY <1>1, <2>1, <2>2 DEF Calme
<1>6. QED
  BY <1>2, <1>3, <1>4, <1>5, <1>7

\* A request is let in under the ceiling of both keys.
LEMMA ConnexionBorne ==
  ASSUME Contrat, EssaisBornes, NEW r \in Requetes, NEW email \in Emails, NEW bon \in BOOLEAN,
         Connexion(r, email, bon)
  PROVE  EssaisBornes'
<1> DEFINE b == [Repos EXCEPT !.geste = "connexion", !.etape = "comparaison", !.cle = email,
                              !.lu = IF ~bon THEN Mauvais
                        ELSE IF exploitant.statut = "ACTIVE" THEN Actif ELSE Inactif]
<1>1. /\ Debut(r, b) /\ UNCHANGED compteur
      /\ \A cle \in ClesDe(email) : ~Bloque(cle)
  BY DEF Connexion
<1>2. /\ requete \in [Requetes -> Actes]
      /\ compteur \in [Cles -> [echecs : Nat, reste : 0..Fenetre]]
      /\ \A c \in Cles : compteur[c].echecs = 0 <=> compteur[c].reste = 0
  BY DEF Contrat, TypeOK
<1>3. requete'[r].geste = "connexion" => requete'[r].cle = email
  <2> DEFINE x == {q \in Requetes : SeCroisent(requete[q].geste, b.geste)} # {}
  <2>1. requete'[r] = [b EXCEPT !.croise = x]
    BY <1>1, <1>2 DEF Debut
  <2> HIDE DEF x
  <2>2. QED
    BY <2>1 DEF Repos
<1>4. \A q \in Requetes \ {r} : /\ requete'[q].geste = requete[q].geste
                                /\ requete'[q].cle = requete[q].cle
  <2> DEFINE o(q) == [requete[q] EXCEPT !.croise = TRUE]
  <2>1. \A q \in Requetes \ {r} : requete'[q] = o(q) \/ requete'[q] = requete[q]
    BY <1>1, <1>2 DEF Debut
  <2>2. \A q \in Requetes : o(q).geste = requete[q].geste /\ o(q).cle = requete[q].cle
    BY <1>2 DEF Actes
  <2> HIDE DEF o
  <2>3. QED
    BY <2>1, <2>2
<1>5. Repos.geste # "connexion" /\ requete[r] = Repos
  BY <1>1 DEF Repos, Debut
<1> HIDE DEF b
<1> SUFFICES ASSUME NEW c \in Cles
             PROVE  compteur'[c].echecs + Cardinality(Voisins(c)')
                      <= Plafond(c) - 1 + Cardinality(Requetes)
  BY DEF EssaisBornes, Voisins
<1>6. CASE c \in ClesDe(email)
  <2>1. compteur[c].echecs <= Plafond(c) - 1 /\ compteur[c].echecs \in Nat
    BY <1>1, <1>2, <1>6, Plafonds, Constantes DEF Bloque
  <2>2. Cardinality(Voisins(c)') <= Cardinality(Requetes) /\ Cardinality(Voisins(c)') \in Nat
    BY NombreDeVoisins DEF Voisins, EnCours
  <2>3. QED
    BY <1>1, <2>1, <2>2, Plafonds, NombreDeVoisins
<1>7. CASE c \notin ClesDe(email)
  <2>1. Voisins(c)' = Voisins(c)
    BY <1>3, <1>4, <1>5, <1>7 DEF Voisins, EnCours
  <2>2. QED
    BY <1>1, <2>1 DEF EssaisBornes, Voisins
<1>8. QED
  BY <1>6, <1>7

\* A failure counts once the request that made it is no longer comparing.
LEMMA ComparerBorne ==
  ASSUME Contrat, EssaisBornes, NEW r \in Requetes, Comparer(r)
  PROVE  EssaisBornes'
<1> DEFINE k == requete[r].cle
<1>1. /\ requete[r].geste = "connexion" /\ requete' = [requete EXCEPT ![r] = Repos]
      /\ Repos.geste # "connexion"
  BY DEF Comparer, En, Finir, Repos
<1>2. /\ requete \in [Requetes -> Actes] /\ k \in Cles
      /\ compteur \in [Cles -> [echecs : Nat, reste : 0..Fenetre]]
      /\ \A c \in Cles : compteur[c].echecs = 0 <=> compteur[c].reste = 0
  BY Constantes DEF Contrat, TypeOK, Actes
<1> HIDE DEF k
<1> SUFFICES ASSUME NEW c \in Cles
             PROVE  compteur'[c].echecs + Cardinality(Voisins(c)')
                      <= Plafond(c) - 1 + Cardinality(Requetes)
  BY DEF EssaisBornes, Voisins
<1>3. /\ Voisins(c)' = Voisins(c) \ {r} /\ Voisins(c) \subseteq Requetes
      /\ c \in ClesDe(k) <=> r \in Voisins(c)
  BY <1>1, <1>2 DEF Voisins, EnCours, k
<1>4. /\ Cardinality(Voisins(c)) \in Nat /\ Cardinality(Voisins(c)') \in Nat
      /\ Cardinality(Voisins(c)') <= Cardinality(Voisins(c))
      /\ c \in ClesDe(k) => Cardinality(Voisins(c)') = Cardinality(Voisins(c)) - 1
  BY <1>3, NombreDeVoisins
<1>5. compteur[c].echecs + Cardinality(Voisins(c)) <= Plafond(c) - 1 + Cardinality(Requetes)
  BY DEF EssaisBornes, Voisins
<1>6. /\ compteur'[c].echecs \in Nat /\ compteur'[c].echecs <= compteur[c].echecs + 1
      /\ c \notin ClesDe(k) => compteur'[c].echecs <= compteur[c].echecs
  <2>1. CASE Echec(k)
    <3> DEFINE n == IF c \notin ClesDe(k) THEN compteur[c]
                    ELSE IF compteur[c].reste = 0 THEN [echecs |-> 1, reste |-> Fenetre]
                    ELSE [compteur[c] EXCEPT !.echecs = @ + 1]
    <3>1. compteur'[c] = n
      BY <2>1 DEF Echec
    <3>2. n.echecs \in Nat /\ n.echecs <= compteur[c].echecs + 1
          /\ (c \notin ClesDe(k) => n.echecs <= compteur[c].echecs)
      BY <1>2
    <3> HIDE DEF n
    <3>3. QED
      BY <3>1, <3>2
  <2>2. CASE compteur' = [compteur EXCEPT ![k] = Vierge]
    BY <1>2, <2>2 DEF Vierge
  <2>3. CASE compteur' = compteur
    BY <1>2, <2>3
  <2>4. QED
    BY <2>1, <2>2, <2>3 DEF Comparer, k
<1>7. QED
  BY <1>2, <1>4, <1>5, <1>6, Plafonds, NombreDeVoisins

LEMMA NextBorne == Contrat /\ EssaisBornes /\ [Next]_vars => EssaisBornes'
<1> SUFFICES ASSUME Contrat, EssaisBornes, [Next]_vars PROVE EssaisBornes'
  OBVIOUS
<1>1. Contrat'
  BY NextContrat
<1>2. ASSUME NEW r \in Requetes, DuCompte(r) PROVE EssaisBornes'
  <2>1. CASE \E email \in Emails, bon \in BOOLEAN : Connexion(r, email, bon)
    BY <2>1, ConnexionBorne
  <2>2. CASE Comparer(r)
    BY <2>2, ComparerBorne
  <2>3. CASE Calme
    BY <1>1, <2>3, CalmeBorne
  <2>4. QED
    BY <1>2, <2>1, <2>2, <2>3, CompteCalme DEF DuCompte
<1>3. ASSUME NEW r \in Requetes, DuContratAvec(r) PROVE EssaisBornes'
  BY <1>1, <1>3, ContratCalme, CalmeBorne
<1>4. ASSUME NEW fin, NEW toleree, NEW plafond, Definir(fin, toleree, plafond)
      PROVE  EssaisBornes'
  BY <1>1, <1>4, LibreCalme, CalmeBorne
<1>5. CASE \/ Suspendre \/ EnrolerRouteur \/ SupprimerRouteur \/ Redemarrer \/ Tic
           \/ UNCHANGED vars
  BY <1>1, <1>5, LibreCalme, CalmeBorne
<1>6. QED
  BY <1>2, <1>3, <1>4, <1>5 DEF Next

\* Within one window a key never counts more failures than its ceiling allows plus the
\* requests that were let in together.
THEOREM EssaisLimites == Spec => []EssaisBornes
<1>1. Init => EssaisBornes
  <2> SUFFICES ASSUME Init, NEW c \in Cles
               PROVE  compteur[c].echecs + Cardinality(Voisins(c))
                      <= Plafond(c) - 1 + Cardinality(Requetes)
    BY DEF EssaisBornes, Voisins
  <2>1. compteur[c].echecs = 0
    BY DEF Init, Vierge
  <2>2. Cardinality(Voisins(c)) <= Cardinality(Requetes) /\ Cardinality(Voisins(c)) \in Nat
    BY NombreDeVoisins DEF Voisins, EnCours
  <2>3. QED
    BY <2>1, <2>2, Plafonds, NombreDeVoisins
<1>2. QED
  BY <1>1, NextBorne, ContratTient, PTL DEF Spec
=============================================================================
