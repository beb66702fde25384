----------------------- MODULE RouterEnrolmentProofs -----------------------
(***************************************************************************)
(* The enrolment of routers, for any number of routers, invitations, rows, *)
(* addresses and requests.                                                 *)
(*                                                                         *)
(* The hard part is that a connection which ends well must leave its       *)
(* router right although others have run since it laid the tunnel, put the *)
(* peer and wrote the row.  It holds because a router has only one         *)
(* connection at work on it (Exclusives), or copies of one script of which *)
(* one only has burnt the token; the invariant says what that connection   *)
(* knows at each of its steps (Tient).                                     *)
(***************************************************************************)
EXTENDS RouterEnrolment, TLAPS

\* The steps of a callback, and those after its token was burnt.
ApresJeton == ApresBrulure \union {"pair"}
Rappels == ApresJeton \union {"brulure"}

\* The steps of an assistant that has put its peer.  One that an operator drives
\* by hand (Ajouter) has no address of the tunnel.
ApresPair == {"reconnaissance", "place", "inscription", "completion"}
Assistes == ApresPair \union {"pose", "pairAssiste"}

\* The request is connecting its router.
AuTravail(r) == r.etape \in Rappels \union Assistes /\ r.x # SansAdresse

\* The file has one peer for this router and this address, and no other for either.
Seul(pairs, a, x) ==
  /\ <<a, x>> \in pairs
  /\ \A p \in pairs : p[1] = a \/ p[2] = x => p = <<a, x>>

-----------------------------------------------------------------------------
(* The rows.                                                               *)

LignesJustes ==
  /\ \A i \in Invitations : invitation[i].etat = "ouverte" => invitation[i].adresse \in Adresses
  /\ \A i \in Invitations :
       invitation[i].fiche # SansFiche =>
         /\ invitation[i].etat = "servie"
         /\ fiche[invitation[i].fiche].hote = ParTunnel
  /\ \A f \in Fiches :
       /\ fiche[f].appareil = SansAppareil <=> fiche[f].adresse = SansAdresse
       /\ fiche[f].hote = ParTunnel \/ fiche[f].appareil \in {SansAppareil, fiche[f].hote}
       /\ ~fiche[f].existe => fiche[f] = PasDeFiche

(* What a request knows at each of its steps.                              *)

\* A callback, with the invitations, the rows and what the routers carry.
TientRappel(r, inv, fi, po) ==
  /\ r.i \in Invitations /\ r.a \in Appareils /\ r.x \in Adresses
  /\ po[r.a] = r.x
  /\ r.etape = "brulure" /\ inv[r.i].etat = "ouverte" => inv[r.i].adresse = r.x
  /\ r.etape \in ApresJeton => inv[r.i].etat # "ouverte"
  /\ r.etape \in ApresBrulure /\ inv[r.i].etat = "servie" => inv[r.i].adresse = r.x
  /\ r.etape = "fiche" /\ r.f # SansFiche /\ fi[r.f].existe => fi[r.f].appareil = r.a
  /\ r.etape \in {"menage", "lien", "pair"} =>
       /\ r.f \in Fiches
       /\ \A f \in Fiches : fi[f].appareil = r.a => fi[f].adresse = r.x
  /\ r.etape \in {"menage", "lien"} /\ fi[r.f].existe =>
       fi[r.f].appareil = r.a /\ fi[r.f].hote = ParTunnel

\* An assistant, or an operator who types an address, with the peers and the
\* routers that are not right as well.
TientAssiste(r, fi, po, pairs, der) ==
  /\ r.i = SansInvitation /\ r.a \in Appareils
  /\ r.etape \notin {"place", "inscription"} => r.x \in Adresses
  /\ r.etape # "pose" /\ r.x # SansAdresse => po[r.a] = r.x
  /\ r.etape \in ApresPair /\ r.x # SansAdresse => r.a \in der \/ Seul(pairs, r.a, r.x)
  /\ r.etape = "completion" => r.f \in Fiches /\ (fi[r.f].existe => fi[r.f].hote = r.a)

\* A deletion, a rewriting, and what has no router.
TientAutre(r, fi) ==
  /\ r.etape \in {"retraitPair", "suppression"} =>
       /\ r.f \in Fiches
       /\ r.a = SansAppareil <=> r.x = SansAdresse
       /\ r.a # SansAppareil /\ fi[r.f].existe => fi[r.f].appareil = r.a
  /\ r.etape = "reecriture" => r.a \in Appareils /\ r.x \in Adresses
  /\ r.etape \in {"repos", "annulation"} => r.x = SansAdresse
  /\ r.etape = "creation" => r.x \in Adresses

Tient(r, inv, fi, po, pairs, der) ==
  IF r.etape \in Rappels THEN TientRappel(r, inv, fi, po)
  ELSE IF r.etape \in Assistes THEN TientAssiste(r, fi, po, pairs, der) ELSE TientAutre(r, fi)

RequetesJustes ==
  \A q \in Requetes : Tient(requete[q], invitation, fiche, pose, fichier, deranges)

\* Two requests that connect one router run the same script, and one only of them
\* has burnt its token.
Exclusives ==
  \A p, q \in Requetes :
    /\ p # q /\ AuTravail(requete[p]) /\ AuTravail(requete[q]) /\ requete[p].a = requete[q].a =>
         requete[p].etape \in Rappels /\ requete[q].etape \in Rappels /\ requete[p].i = requete[q].i
    /\ p # q /\ requete[p].etape \in ApresJeton /\ requete[q].etape \in ApresJeton =>
         requete[p].i # requete[q].i

\* A used invitation is linked to a row that has its address, or its callback has
\* not ended, or was cut.
Rendue(i) ==
  \/ \E q \in Requetes : i \in PerduPar(q)
  \/ i \in perdues
  \/ /\ invitation[i].fiche # SansFiche
     /\ fiche[invitation[i].fiche].adresse = invitation[i].adresse

ServiesRendues == \A i \in Invitations : invitation[i].etat = "servie" => Rendue(i)

\* A router whose row has a key is right, or is said not to be.
Derange(a) == a \in deranges \/ \E q \in Requetes : a \in DerangePar(q)
Droit(f) ==
  LET a == fiche[f].appareil IN
  a # SansAppareil => Derange(a) \/ (pose[a] = fiche[f].adresse /\ Seul(fichier, a, fiche[f].adresse))
RouteursDroits == \A f \in Fiches : Droit(f)

IInv == TypeOK /\ LignesJustes /\ RequetesJustes /\ Exclusives /\ ServiesRendues /\ RouteursDroits

-----------------------------------------------------------------------------
Demandes == [etape : Etapes, i : Invitations \union {SansInvitation},
             a : Appareils \union {SansAppareil}, x : Adresses \union {SansAdresse},
             f : Fiches \union {SansFiche}]

\* The step that a request takes does not make it a worker, and keeps its router
\* and its script if it is one.
Suit(r, n) ==
  /\ AuTravail(n) =>
       /\ AuTravail(r) /\ n.a = r.a /\ n.i = r.i
       /\ r.etape \in Rappels => n.etape \in Rappels
  /\ n.etape \in ApresJeton => r.etape \in ApresJeton /\ n.i = r.i

LEMMA ReposJuste ==
  /\ Repos \in Demandes /\ ~AuTravail(Repos)
  /\ \A r : Suit(r, Repos)
  /\ \A inv, fi, po, pairs, der : Tient(Repos, inv, fi, po, pairs, der)
BY DEF Repos, Demandes, Etapes, ApresPose, ApresBrulure, Tient, TientAutre, AuTravail, Rappels,
       ApresJeton, Assistes, ApresPair, SansAdresse, Suit

\* A step of one request that follows this rule leaves the workers exclusive.
LEMMA ResteExclusif ==
  ASSUME TypeOK, Exclusives, NEW q \in Requetes, NEW n \in Demandes,
         requete' = [requete EXCEPT ![q] = n], Suit(requete[q], n)
  PROVE  Exclusives'
<1>1. requete \in [Requetes -> Demandes]
  BY DEF TypeOK, Demandes
<1>2. requete'[q] = n /\ \A p \in Requetes : p # q => requete'[p] = requete[p]
  BY <1>1
<1>3. ASSUME NEW p \in Requetes, NEW s \in Requetes, p # s,
             AuTravail(requete'[p]), AuTravail(requete'[s]), requete'[p].a = requete'[s].a
      PROVE  requete'[p].etape \in Rappels /\ requete'[s].etape \in Rappels
               /\ requete'[p].i = requete'[s].i
  <2>1. AuTravail(requete[p]) /\ AuTravail(requete[s]) /\ requete[p].a = requete[s].a
    BY <1>2, <1>3 DEF Suit
  <2>2. requete[p].etape \in Rappels /\ requete[s].etape \in Rappels /\ requete[p].i = requete[s].i
    BY <2>1, <1>3 DEF Exclusives
  <2>3. QED
    BY <1>2, <1>3, <2>2 DEF Suit
<1>4. ASSUME NEW p \in Requetes, NEW s \in Requetes, p # s,
             requete'[p].etape \in ApresJeton, requete'[s].etape \in ApresJeton
      PROVE  requete'[p].i # requete'[s].i
  <2>1. requete[p].etape \in ApresJeton /\ requete[s].etape \in ApresJeton
    BY <1>2, <1>4 DEF Suit
  <2>2. requete[p].i # requete[s].i
    BY <2>1, <1>4 DEF Exclusives
  <2>3. QED
    BY <1>2, <1>4, <2>2 DEF Suit
<1>5. QED
  BY <1>3, <1>4 DEF Exclusives, AuTravail

\* What DerangePar and PerduPar look at.
Derange1(r) == IF r.etape \in ApresPose /\ r.x # SansAdresse THEN {r.a} ELSE {}
Perdu1(r, inv) ==
  (IF r.etape \in ApresBrulure THEN {r.i} ELSE {})
    \union (IF r.etape = "menage" THEN {i \in Invitations : inv[i].fiche = r.f} ELSE {})

LEMMA VuesDUneDemande ==
  ASSUME NEW q \in Requetes
  PROVE  DerangePar(q) = Derange1(requete[q]) /\ PerduPar(q) = Perdu1(requete[q], invitation)
BY DEF DerangePar, Derange1, PerduPar, Perdu1

\* What a request may leave behind it is typed.
LEMMA SuitesTypees ==
  ASSUME TypeOK, RequetesJustes, NEW q \in Requetes
  PROVE  DerangePar(q) \subseteq Appareils /\ PerduPar(q) \subseteq Invitations
<1>. DEFINE r == requete[q]
<1>1. r \in Demandes /\ Tient(r, invitation, fiche, pose, fichier, deranges)
  BY DEF TypeOK, Demandes, RequetesJustes
<1>2. DerangePar(q) \subseteq Appareils
  BY <1>1 DEF DerangePar, Tient, TientRappel, TientAssiste, TientAutre, Rappels, Assistes,
              ApresJeton, ApresPair, ApresPose, ApresBrulure, Demandes
<1>3. PerduPar(q) \subseteq Invitations
  BY <1>1 DEF PerduPar, Tient, TientRappel, Rappels, ApresJeton, ApresBrulure
<1>4. QED
  BY <1>2, <1>3

-----------------------------------------------------------------------------
(* Steps that only change a request.                                       *)

\* What a request knows is the same as long as nothing it speaks of changes.
LEMMA TientPareil ==
  ASSUME NEW r, NEW inv, NEW fi, NEW po, NEW pairs, NEW der, NEW nder,
         Tient(r, inv, fi, po, pairs, der), der \subseteq nder
  PROVE  Tient(r, inv, fi, po, pairs, nder)
BY DEF Tient, TientRappel, TientAssiste, TientAutre

LEMMA AvanceJuste ==
  ASSUME IInv, NEW q \in Requetes, NEW n \in Demandes,
         requete' = [requete EXCEPT ![q] = n], Tient(n, invitation, fiche, pose, fichier, deranges),
         Suit(requete[q], n),
         Derange1(requete[q]) \subseteq Derange1(n) \union deranges',
         Perdu1(requete[q], invitation) \subseteq Perdu1(n, invitation) \union perdues',
         UNCHANGED <<invitation, fiche, fichier, pose>>,
         deranges \subseteq deranges', deranges' \subseteq Appareils,
         perdues \subseteq perdues', perdues' \subseteq Invitations, aleas' \in 0..MaxAleas
  PROVE  IInv'
<1>1. requete \in [Requetes -> Demandes]
  BY DEF IInv, TypeOK, Demandes
<1>2. requete'[q] = n /\ \A p \in Requetes : p # q => requete'[p] = requete[p]
  BY <1>1
<1>3. TypeOK'
  <2>1. requete' \in [Requetes -> Demandes]
    BY <1>1
  <2>2. QED
    BY <2>1 DEF IInv, TypeOK, Demandes
<1>4. LignesJustes'
  BY DEF IInv, LignesJustes
<1>5. RequetesJustes'
  <2>1. SUFFICES ASSUME NEW p \in Requetes 
                 PROVE  Tient(requete'[p], invitation', fiche', pose', fichier', deranges')
    BY DEF RequetesJustes
  <2>2. Tient(requete'[p], invitation, fiche, pose, fichier, deranges)
    BY <1>2 DEF IInv, RequetesJustes
  <2>3. QED
    BY <2>2, TientPareil
<1>6. Exclusives'
  BY ResteExclusif DEF IInv
<1>7. ServiesRendues'
  <2>1. SUFFICES ASSUME NEW i \in Invitations, invitation[i].etat = "servie"
                 PROVE  Rendue(i)'
    BY DEF ServiesRendues
  <2>2. Rendue(i)
    BY <2>1 DEF IInv, ServiesRendues
  <2>3. ASSUME NEW p \in Requetes, i \in PerduPar(p) PROVE i \in perdues' \/ i \in PerduPar(p)'
    <3>1. CASE p = q
      <4>1. i \in Perdu1(n, invitation) \/ i \in perdues'
        BY <2>3, <3>1, VuesDUneDemande
      <4>2. Perdu1(n, invitation) = PerduPar(q)'
        BY <1>2 DEF Perdu1, PerduPar
      <4>3. QED
        BY <3>1, <4>1, <4>2
    <3>2. CASE p # q
      BY <1>2, <2>3, <3>2 DEF PerduPar
    <3>3. QED
      BY <3>1, <3>2
  <2>4. QED
    BY <2>2, <2>3 DEF Rendue
<1>8. RouteursDroits'
  <2>1. SUFFICES ASSUME NEW f \in Fiches PROVE Droit(f)'
    BY DEF RouteursDroits
  <2>2. Droit(f)
    BY DEF IInv, RouteursDroits
  <2>3. ASSUME NEW a, NEW p \in Requetes, a \in DerangePar(p)
        PROVE  a \in deranges' \/ a \in DerangePar(p)'
    <3>1. CASE p = q
      <4>1. a \in Derange1(n) \/ a \in deranges'
        BY <2>3, <3>1, VuesDUneDemande
      <4>2. Derange1(n) = DerangePar(q)'
        BY <1>2 DEF Derange1, DerangePar
      <4>3. QED
        BY <3>1, <4>1, <4>2
    <3>2. CASE p # q
      BY <1>2, <2>3, <3>2 DEF DerangePar
    <3>3. QED
      BY <3>1, <3>2
  <2>4. \A a : Derange(a) => Derange(a)'
    BY <2>3 DEF Derange
  <2>5. QED
    BY <2>2, <2>4 DEF Droit
<1>9. QED
  BY <1>3, <1>4, <1>5, <1>6, <1>7, <1>8 DEF IInv

\* A request that is refused, or throws.
LEMMA ArretJuste ==
  ASSUME IInv, NEW q \in Requetes, Finir(q),
         deranges' = deranges \union DerangePar(q), perdues' = perdues \union PerduPar(q),
         UNCHANGED <<invitation, fiche, fichier, pose>>, aleas' \in 0..MaxAleas
  PROVE  IInv'
<1>1. DerangePar(q) \subseteq Appareils /\ PerduPar(q) \subseteq Invitations
  BY SuitesTypees DEF IInv
<1>2. deranges \subseteq Appareils /\ perdues \subseteq Invitations
  BY DEF IInv, TypeOK
<1>3. Derange1(requete[q]) \subseteq deranges' /\ Perdu1(requete[q], invitation) \subseteq perdues'
  BY VuesDUneDemande
<1>4. Suit(requete[q], Repos)
  BY ReposJuste
<1>5. QED
  BY <1>1, <1>2, <1>3, <1>4, ReposJuste, AvanceJuste DEF Finir

LEMMA RefuserJuste ==
  ASSUME IInv, NEW q \in Requetes, Refuser(q)
  PROVE  IInv'
<1>1. aleas' \in 0..MaxAleas
  BY DEF IInv, TypeOK, Refuser
<1>2. QED
  BY <1>1, ArretJuste DEF Refuser, tables

LEMMA EchouerJuste ==
  ASSUME IInv, NEW q \in Requetes, Echouer(q)
  PROVE  IInv'
<1>1. aleas' \in 0..MaxAleas
  BY ConstantesEnrolement DEF IInv, TypeOK, Echouer, Compter
<1>2. QED
  BY <1>1, ArretJuste DEF Echouer, tables

\* A request that begins without a hold on a router.
LEMMA DebutJuste ==
  ASSUME IInv, NEW q \in Requetes, NEW n \in Demandes, Commencer(q, n),
         Tient(n, invitation, fiche, pose, fichier, deranges), ~AuTravail(n), n.etape \notin ApresJeton,
         UNCHANGED <<tables, fichier, pose, temoins>>, aleas' \in 0..MaxAleas
  PROVE  IInv'
<1>1. requete[q].etape = "repos" /\ requete' = [requete EXCEPT ![q] = n]
  BY DEF Commencer, En
<1>2. Derange1(requete[q]) = {} /\ Perdu1(requete[q], invitation) = {}
  BY <1>1 DEF Derange1, Perdu1, ApresPose, ApresBrulure
<1>3. Suit(requete[q], n)
  BY DEF Suit
<1>4. deranges \subseteq Appareils /\ perdues \subseteq Invitations
  BY DEF IInv, TypeOK
<1>5. QED
  BY <1>1, <1>2, <1>3, <1>4, AvanceJuste DEF tables, temoins

LEMMA AnnulerJuste ==
  ASSUME IInv, NEW q \in Requetes, NEW i \in Invitations, Annuler(q, i)
  PROVE  IInv'
<1>. DEFINE n == [Repos EXCEPT !.etape = "annulation", !.i = i]
<1>1. n \in Demandes /\ ~AuTravail(n) /\ n.etape \notin ApresJeton
  BY DEF Repos, Demandes, Etapes, AuTravail, SansAdresse, ApresJeton, ApresBrulure
<1>2. Tient(n, invitation, fiche, pose, fichier, deranges)
  BY DEF Repos, Tient, TientAutre, Rappels, Assistes, ApresPair, ApresJeton, ApresBrulure
<1>3. aleas' \in 0..MaxAleas
  BY ConstantesEnrolement DEF IInv, TypeOK, Annuler, Compter
<1>4. QED
  BY <1>1, <1>2, <1>3, DebutJuste DEF Annuler

LEMMA AjouterJuste ==
  ASSUME IInv, NEW q \in Requetes, NEW a \in Appareils, Ajouter(q, a)
  PROVE  IInv'
<1>. DEFINE n == [Repos EXCEPT !.etape = "place", !.a = a]
<1>1. n \in Demandes /\ ~AuTravail(n) /\ n.etape \notin ApresJeton
  BY DEF Repos, Demandes, Etapes, ApresPose, AuTravail, SansAdresse, ApresJeton, ApresBrulure
<1>2. Tient(n, invitation, fiche, pose, fichier, deranges)
  BY DEF Repos, Tient, TientAssiste, Rappels, Assistes, ApresPair, ApresJeton, ApresBrulure
<1>3. aleas' \in 0..MaxAleas
  BY ConstantesEnrolement DEF IInv, TypeOK, Ajouter, Compter
<1>4. QED
  BY <1>1, <1>2, <1>3, DebutJuste DEF Ajouter

\* The deletion and the rewriting hold what the row said when it was read.
LEMMA SupprimerJuste ==
  ASSUME IInv, NEW q \in Requetes, NEW f \in Fiches, Supprimer(q, f)
  PROVE  IInv'
<1>. DEFINE n == [Repos EXCEPT !.etape = "retraitPair", !.f = f,
                               !.a = fiche[f].appareil, !.x = fiche[f].adresse]
<1>1. fiche[f].appareil \in Appareils \union {SansAppareil}
        /\ fiche[f].adresse \in Adresses \union {SansAdresse}
  BY DEF IInv, TypeOK
<1>2. fiche[f].appareil = SansAppareil <=> fiche[f].adresse = SansAdresse
  BY DEF IInv, LignesJustes
<1>3. n \in Demandes /\ ~AuTravail(n) /\ n.etape \notin ApresJeton
  BY <1>1 DEF Repos, Demandes, Etapes, AuTravail, Rappels, Assistes, ApresPair, ApresJeton,
              ApresBrulure
<1>4. Tient(n, invitation, fiche, pose, fichier, deranges)
  BY <1>2 DEF Repos, Tient, TientAutre, Rappels, Assistes, ApresPair, ApresJeton, ApresBrulure
<1>5. aleas' \in 0..MaxAleas
  BY ConstantesEnrolement DEF IInv, TypeOK, Supprimer, Compter
<1>6. QED
  BY <1>3, <1>4, <1>5, DebutJuste DEF Supprimer

LEMMA ReecrireJuste ==
  ASSUME IInv, NEW q \in Requetes, NEW f \in Fiches, Reecrire(q, f)
  PROVE  IInv'
<1>. DEFINE n == [Repos EXCEPT !.etape = "reecriture", !.f = f,
                               !.a = fiche[f].appareil, !.x = fiche[f].adresse]
<1>1. fiche[f].appareil \in Appareils /\ fiche[f].adresse \in Adresses
  BY DEF IInv, TypeOK, LignesJustes, Reecrire
<1>2. n \in Demandes /\ ~AuTravail(n) /\ n.etape \notin ApresJeton
  BY <1>1 DEF Repos, Demandes, Etapes, AuTravail, Rappels, Assistes, ApresPair, ApresJeton,
              ApresBrulure
<1>3. Tient(n, invitation, fiche, pose, fichier, deranges)
  BY <1>1 DEF Repos, Tient, TientAutre, Rappels, Assistes, ApresPair, ApresJeton, ApresBrulure
<1>4. aleas' \in 0..MaxAleas
  BY ConstantesEnrolement DEF IInv, TypeOK, Reecrire, Compter
<1>5. QED
  BY <1>2, <1>3, <1>4, DebutJuste DEF Reecrire

\* A request goes on without writing anything.
LEMMA SuiteJuste ==
  ASSUME IInv, NEW q \in Requetes, NEW n \in Demandes,
         requete' = [requete EXCEPT ![q] = n],
         Tient(n, invitation, fiche, pose, fichier, deranges), Suit(requete[q], n),
         Derange1(requete[q]) \subseteq Derange1(n), Perdu1(requete[q], invitation) \subseteq Perdu1(n, invitation),
         UNCHANGED <<tables, fichier, pose, temoins, aleas>>
  PROVE  IInv'
<1>1. deranges \subseteq Appareils /\ perdues \subseteq Invitations /\ aleas \in 0..MaxAleas
  BY DEF IInv, TypeOK
<1>2. QED
  BY <1>1, AvanceJuste DEF tables, temoins

LEMMA ChercherFicheJuste ==
  ASSUME IInv, NEW q \in Requetes, ChercherFiche(q)
  PROVE  IInv'
<1>. DEFINE r == requete[q]
            g == IF \E f \in Fiches : fiche[f].appareil = r.a
                 THEN CHOOSE f \in Fiches : fiche[f].appareil = r.a ELSE SansFiche
            n == [r EXCEPT !.etape = "fiche", !.f = g]
<1>1. r \in Demandes /\ Tient(r, invitation, fiche, pose, fichier, deranges) /\ r.etape = "recherche"
  BY DEF IInv, TypeOK, Demandes, RequetesJustes, ChercherFiche, En
<1>2. g \in Fiches \union {SansFiche} /\ (g # SansFiche => fiche[g].appareil = r.a)
  BY RienDeTel
<1>3. requete' = [requete EXCEPT ![q] = n]
  BY <1>1 DEF ChercherFiche, IInv, TypeOK
<1>. HIDE DEF g
<1>4. /\ n \in Demandes /\ n.etape = "fiche" /\ n.f = g
      /\ n.i = r.i /\ n.a = r.a /\ n.x = r.x
  BY <1>1, <1>2 DEF Demandes, Etapes, ApresPose, ApresBrulure
<1>. HIDE DEF n
<1>5. Tient(n, invitation, fiche, pose, fichier, deranges)
  BY <1>1, <1>2, <1>4 DEF Tient, TientRappel, Rappels, ApresJeton, ApresBrulure
<1>6. Suit(r, n)
  BY <1>1, <1>4 DEF Suit, AuTravail, Rappels, ApresJeton, ApresBrulure
<1>7. Derange1(r) \subseteq Derange1(n) /\ Perdu1(r, invitation) \subseteq Perdu1(n, invitation)
  BY <1>1, <1>4 DEF Derange1, Perdu1, ApresPose, ApresBrulure
<1>8. QED
  BY <1>3, <1>4, <1>5, <1>6, <1>7, SuiteJuste DEF ChercherFiche

LEMMA ReconnaitreJuste ==
  ASSUME IInv, NEW q \in Requetes, Reconnaitre(q)
  PROVE  IInv'
<1>. DEFINE r == requete[q]
<1>1. r \in Demandes /\ Tient(r, invitation, fiche, pose, fichier, deranges)
        /\ r.etape = "reconnaissance"
  BY DEF IInv, TypeOK, Demandes, RequetesJustes, Reconnaitre, En
<1>2. ASSUME NEW f \in Fiches, fiche[f].hote = r.a,
             requete' = [requete EXCEPT ![q].f = f, ![q].etape = "completion"]
      PROVE  IInv'
  <2>. DEFINE n == [r EXCEPT !.f = f, !.etape = "completion"]
  <2>1. requete' = [requete EXCEPT ![q] = n]
    BY <1>2 DEF IInv, TypeOK
  <2>2. /\ n \in Demandes /\ n.etape = "completion" /\ n.f = f
        /\ n.i = r.i /\ n.a = r.a /\ n.x = r.x
    BY <1>1 DEF Demandes, Etapes, ApresPose
  <2>. HIDE DEF n
  <2>3. Tient(n, invitation, fiche, pose, fichier, deranges)
    BY <1>1, <1>2, <2>2 DEF Tient, TientAssiste, Rappels, ApresJeton, ApresBrulure, Assistes, ApresPair
  <2>4. Suit(r, n)
    BY <1>1, <2>2 DEF Suit, AuTravail, Rappels, ApresJeton, ApresBrulure, Assistes, ApresPair
  <2>5. Derange1(r) \subseteq Derange1(n) /\ Perdu1(r, invitation) \subseteq Perdu1(n, invitation)
    BY <1>1, <2>2 DEF Derange1, Perdu1, ApresPose, ApresBrulure
  <2>6. QED
    BY <2>1, <2>2, <2>3, <2>4, <2>5, SuiteJuste DEF Reconnaitre
<1>3. ASSUME Aller(q, "place")
      PROVE  IInv'
  <2>. DEFINE n == [r EXCEPT !.etape = "place"]
  <2>1. requete' = [requete EXCEPT ![q] = n]
    BY <1>3 DEF IInv, TypeOK, Aller
  <2>2. /\ n \in Demandes /\ n.etape = "place"
        /\ n.i = r.i /\ n.a = r.a /\ n.x = r.x
    BY <1>1 DEF Demandes, Etapes, ApresPose
  <2>. HIDE DEF n
  <2>3. Tient(n, invitation, fiche, pose, fichier, deranges)
    BY <1>1, <2>2 DEF Tient, TientAssiste, Rappels, ApresJeton, ApresBrulure, Assistes, ApresPair
  <2>4. Suit(r, n)
    BY <1>1, <2>2 DEF Suit, AuTravail, Rappels, ApresJeton, ApresBrulure, Assistes, ApresPair
  <2>5. Derange1(r) \subseteq Derange1(n) /\ Perdu1(r, invitation) \subseteq Perdu1(n, invitation)
    BY <1>1, <2>2 DEF Derange1, Perdu1, ApresPose, ApresBrulure
  <2>6. QED
    BY <2>1, <2>2, <2>3, <2>4, <2>5, SuiteJuste DEF Reconnaitre
<1>4. QED
  BY <1>2, <1>3 DEF Reconnaitre

LEMMA ExigerPlaceJuste ==
  ASSUME IInv, NEW q \in Requetes, ExigerPlace(q)
  PROVE  IInv'
<1>. DEFINE r == requete[q]
            n == [r EXCEPT !.etape = "inscription"]
<1>1. r \in Demandes /\ Tient(r, invitation, fiche, pose, fichier, deranges) /\ r.etape = "place"
  BY DEF IInv, TypeOK, Demandes, RequetesJustes, ExigerPlace, En
<1>2. CASE Refuser(q)
  BY <1>2, RefuserJuste
<1>3. CASE Aller(q, "inscription") /\ UNCHANGED <<tables, fichier, pose, temoins, aleas>>
  <2>1. requete' = [requete EXCEPT ![q] = n]
    BY <1>3 DEF IInv, TypeOK, Aller
  <2>2. /\ n \in Demandes /\ n.etape = "inscription"
        /\ n.i = r.i /\ n.a = r.a /\ n.x = r.x
    BY <1>1 DEF Demandes, Etapes, ApresPose
  <2>. HIDE DEF n
  <2>3. Tient(n, invitation, fiche, pose, fichier, deranges)
    BY <1>1, <2>2 DEF Tient, TientAssiste, Rappels, ApresJeton, ApresBrulure, Assistes, ApresPair
  <2>4. Suit(r, n)
    BY <1>1, <2>2 DEF Suit, AuTravail, Rappels, ApresJeton, ApresBrulure, Assistes, ApresPair
  <2>5. Derange1(r) \subseteq Derange1(n) /\ Perdu1(r, invitation) \subseteq Perdu1(n, invitation)
    BY <1>1, <2>2 DEF Derange1, Perdu1, ApresPose, ApresBrulure
  <2>6. QED
    BY <1>3, <2>1, <2>2, <2>3, <2>4, <2>5, SuiteJuste
<1>4. QED
  BY <1>2, <1>3 DEF ExigerPlace

-----------------------------------------------------------------------------
(* Steps that change the invitations.                                      *)

Lettres == [etat : {"absente", "ouverte", "servie"}, adresse : Adresses \union {SansAdresse},
            perimee : BOOLEAN, fiche : Fiches \union {SansFiche}]

\* The indexes and the lines of the invitations, and nothing else.
InvitationsEnRegle(inv, fi) ==
  /\ inv \in [Invitations -> Lettres]
  /\ \A i, j \in Invitations : i # j =>
       /\ inv[i].adresse = inv[j].adresse => inv[i].adresse = SansAdresse
       /\ inv[i].fiche = inv[j].fiche => inv[i].fiche = SansFiche
  /\ \A i \in Invitations : inv[i].etat = "ouverte" => inv[i].adresse \in Adresses
  /\ \A i \in Invitations :
       inv[i].fiche # SansFiche => inv[i].etat = "servie" /\ fi[inv[i].fiche].hote = ParTunnel

\* An invitation that is not opened or burnt anew, and keeps its address.
Douce(inv, ninv, i) ==
  /\ ninv[i].etat = "ouverte" => inv[i].etat = "ouverte" /\ ninv[i].adresse = inv[i].adresse
  /\ ninv[i].etat = "servie" => inv[i].etat # "absente" /\ ninv[i].adresse = inv[i].adresse

LEMMA InvitationsTypees ==
  IInv => InvitationsEnRegle(invitation, fiche) /\ requete \in [Requetes -> Demandes]
BY DEF IInv, TypeOK, LignesJustes, InvitationsEnRegle, Lettres, Demandes

LEMMA TientDouce ==
  ASSUME NEW r, NEW inv \in [Invitations -> Lettres], NEW ninv, NEW fi, NEW po, NEW pairs, NEW der,
         Tient(r, inv, fi, po, pairs, der), r.i \in Invitations => Douce(inv, ninv, r.i)
  PROVE  Tient(r, ninv, fi, po, pairs, der)
BY DEF Tient, TientRappel, Douce, Lettres, ApresJeton

LEMMA InvitationsChangees ==
  ASSUME IInv, InvitationsEnRegle(invitation', fiche), requete' \in [Requetes -> Demandes],
         RequetesJustes', Exclusives', ServiesRendues',
         UNCHANGED <<fiche, fichier, pose, deranges, perdues>>, aleas' \in 0..MaxAleas,
         \A p \in Requetes : Derange1(requete[p]) \subseteq Derange1(requete'[p])
  PROVE  IInv'
<1>1. TypeOK'
  BY DEF IInv, TypeOK, InvitationsEnRegle, Lettres, Demandes
<1>2. LignesJustes'
  BY DEF IInv, LignesJustes, InvitationsEnRegle
<1>3. RouteursDroits'
  <2>1. \A a : Derange(a) => Derange(a)'
    BY DEF Derange, DerangePar, Derange1
  <2>2. QED
    BY <2>1 DEF IInv, RouteursDroits, Droit
<1>4. QED
  BY <1>1, <1>2, <1>3 DEF IInv

\* The same for the step of one request, whose rule is Suit.
LEMMA LettresChangees ==
  ASSUME IInv, NEW q \in Requetes, NEW n \in Demandes, requete' = [requete EXCEPT ![q] = n],
         InvitationsEnRegle(invitation', fiche),
         \A p \in Requetes \ {q} :
           requete[p].i \in Invitations => Douce(invitation, invitation', requete[p].i),
         Tient(n, invitation', fiche, pose, fichier, deranges), Exclusives',
         \A i \in Invitations : invitation'[i].etat = "servie" =>
           \/ i \in Perdu1(n, invitation')
           \/ invitation'[i] = invitation[i] /\ i \notin Perdu1(requete[q], invitation)
           \/ /\ invitation'[i].fiche # SansFiche
              /\ fiche[invitation'[i].fiche].adresse = invitation'[i].adresse,
         Derange1(requete[q]) \subseteq Derange1(n),
         UNCHANGED <<fiche, fichier, pose, temoins, aleas>>
  PROVE  IInv'
<1>1. requete \in [Requetes -> Demandes] /\ invitation \in [Invitations -> Lettres]
  BY InvitationsTypees DEF InvitationsEnRegle
<1>2. requete'[q] = n /\ \A p \in Requetes : p # q => requete'[p] = requete[p]
  BY <1>1
<1>3. requete' \in [Requetes -> Demandes]
  BY <1>1
<1>4. RequetesJustes'
  <2>1. SUFFICES ASSUME NEW p \in Requetes
                 PROVE  Tient(requete'[p], invitation', fiche', pose', fichier', deranges')
    BY DEF RequetesJustes
  <2>2. CASE p = q
    BY <1>2, <2>2 DEF temoins
  <2>3. CASE p # q
    <3>1. Tient(requete[p], invitation, fiche, pose, fichier, deranges)
      BY DEF IInv, RequetesJustes
    <3>2. Tient(requete[p], invitation', fiche, pose, fichier, deranges)
      BY <1>1, <2>3, <3>1, TientDouce
    <3>3. QED
      BY <1>2, <2>3, <3>2 DEF temoins
  <2>4. QED
    BY <2>2, <2>3
<1>5. ServiesRendues'
  <2>1. SUFFICES ASSUME NEW i \in Invitations, invitation'[i].etat = "servie" PROVE Rendue(i)'
    BY DEF ServiesRendues
  <2>2. CASE i \in Perdu1(n, invitation')
    BY <1>2, <2>2 DEF Rendue, PerduPar, Perdu1
  <2>3. CASE invitation'[i].fiche # SansFiche
               /\ fiche[invitation'[i].fiche].adresse = invitation'[i].adresse
    BY <2>3 DEF Rendue
  <2>4. CASE invitation'[i] = invitation[i] /\ i \notin Perdu1(requete[q], invitation)
    <3>1. Rendue(i)
      BY <2>1, <2>4 DEF IInv, ServiesRendues
    <3>2. ASSUME NEW p \in Requetes, i \in PerduPar(p) PROVE i \in PerduPar(p)'
      <4>1. p # q
        BY <2>4, <3>2 DEF PerduPar, Perdu1
      <4>2. QED
        BY <1>2, <2>4, <3>2, <4>1 DEF PerduPar
    <3>3. QED
      BY <2>4, <3>1, <3>2 DEF Rendue, temoins
  <2>5. QED
    BY <2>1, <2>2, <2>3, <2>4
<1>6. \A p \in Requetes : Derange1(requete[p]) \subseteq Derange1(requete'[p])
  BY <1>2
<1>7. aleas' \in 0..MaxAleas
  BY DEF IInv, TypeOK
<1>8. QED
  BY <1>3, <1>4, <1>5, <1>6, <1>7, InvitationsChangees DEF temoins

\* The cleaning of allocateAddress only removes what nobody has used.
LEMMA MenageDAdresses ==
  ASSUME IInv
  PROVE  /\ InvitationsEnRegle(SansPerimees, fiche)
         /\ \A i \in Invitations : Douce(invitation, SansPerimees, i)
         /\ \A i \in Invitations : SansPerimees[i].etat = "servie" =>
              SansPerimees[i] = invitation[i]
<1>1. InvitationsEnRegle(invitation, fiche)
  BY InvitationsTypees
<1>2. PasDInvitation \in Lettres /\ PasDInvitation.etat = "absente"
        /\ PasDInvitation.adresse = SansAdresse /\ PasDInvitation.fiche = SansFiche
  BY DEF PasDInvitation, Lettres
<1>3. SansPerimees = [i \in Invitations |-> SansPerimees[i]]
        /\ \A i \in Invitations : SansPerimees[i] \in {PasDInvitation, invitation[i]}
  BY DEF SansPerimees
<1>4. SansPerimees \in [Invitations -> Lettres]
  BY <1>1, <1>2, <1>3 DEF InvitationsEnRegle
<1>5. QED
  BY <1>1, <1>2, <1>3, <1>4 DEF InvitationsEnRegle, Douce

LEMMA InviterJuste ==
  ASSUME IInv, NEW q \in Requetes, Inviter(q)
  PROVE  IInv'
<1>1. requete \in [Requetes -> Demandes] /\ aleas \in 0..MaxAleas
  BY InvitationsTypees DEF IInv, TypeOK
<1>2. requete[q].etape = "repos"
  BY DEF Inviter, Commencer, En
<1>3. ASSUME NEW n \in Demandes, requete' = [requete EXCEPT ![q] = n], n.etape \in {"repos", "creation"},
             Tient(n, invitation', fiche, pose, fichier, deranges)
      PROVE  IInv'
  <2>1. Suit(requete[q], n)
    BY <1>3 DEF Suit, AuTravail, Rappels, ApresJeton, ApresBrulure, Assistes, ApresPair
  <2>2. Exclusives'
    BY <1>3, <2>1, ResteExclusif DEF IInv
  <2>3. Derange1(requete[q]) = {} /\ Perdu1(requete[q], invitation) = {}
    BY <1>2 DEF Derange1, Perdu1, ApresPose, ApresBrulure
  <2>4. QED
    BY <1>3, <2>2, <2>3, MenageDAdresses, LettresChangees DEF Inviter
<1>4. CASE UNCHANGED requete
  <2>1. requete' = [requete EXCEPT ![q] = requete[q]] /\ requete[q] \in Demandes
    BY <1>1, <1>4
  <2>2. Tient(requete[q], invitation', fiche, pose, fichier, deranges)
    <3>1. Tient(requete[q], invitation, fiche, pose, fichier, deranges)
      BY DEF IInv, RequetesJustes
    <3>2. QED
      BY <1>2, <3>1 DEF Tient, Rappels, ApresJeton, ApresBrulure, Assistes, ApresPair
  <2>3. QED
    BY <1>2, <1>3, <2>1, <2>2
<1>5. ASSUME NEW x \in Adresses, Commencer(q, [Repos EXCEPT !.etape = "creation", !.x = x])
      PROVE  IInv'
  <2>. DEFINE n == [Repos EXCEPT !.etape = "creation", !.x = x]
  <2>1. n \in Demandes /\ n.etape = "creation" /\ n.x = x
    BY DEF Repos, Demandes, Etapes
  <2>2. Tient(n, invitation', fiche, pose, fichier, deranges)
    BY <2>1 DEF Tient, TientAutre, Rappels, ApresJeton, ApresBrulure, Assistes, ApresPair
  <2>3. QED
    BY <1>3, <1>5, <2>1, <2>2 DEF Commencer
<1>6. QED
  BY <1>4, <1>5 DEF Inviter

LEMMA CreerInvitationJuste ==
  ASSUME IInv, NEW q \in Requetes, CreerInvitation(q)
  PROVE  IInv'
<1>. DEFINE r == requete[q]
            neuf == [PasDInvitation EXCEPT !.etat = "ouverte", !.adresse = r.x]
<1>1. CASE Refuser(q)
  BY <1>1, RefuserJuste
<1>2. ASSUME \A j \in Invitations : invitation[j].adresse # r.x, NEW i \in Invitations, Neuve(i),
             invitation' = [invitation EXCEPT ![i] = neuf], Finir(q),
             UNCHANGED <<fiche, fichier, pose, temoins, aleas>>
      PROVE  IInv'
  <2>1. /\ r \in Demandes /\ r.etape = "creation"
        /\ Tient(r, invitation, fiche, pose, fichier, deranges)
    BY DEF IInv, TypeOK, Demandes, RequetesJustes, CreerInvitation, En
  <2>2. r.x \in Adresses
    BY <2>1 DEF Tient, TientAutre, Rappels, ApresJeton, ApresBrulure, Assistes, ApresPair
  <2>3. neuf \in Lettres /\ neuf.etat = "ouverte" /\ neuf.adresse = r.x /\ neuf.fiche = SansFiche
    BY <2>2 DEF PasDInvitation, Lettres
  <2>. HIDE DEF neuf
  <2>4. InvitationsEnRegle(invitation, fiche)
    BY InvitationsTypees
  <2>5. invitation'[i] = neuf /\ \A j \in Invitations : j # i => invitation'[j] = invitation[j]
    BY <1>2, <2>4 DEF InvitationsEnRegle
  <2>6. InvitationsEnRegle(invitation', fiche)
    <3>1. invitation' \in [Invitations -> Lettres]
      BY <1>2, <2>3, <2>4 DEF InvitationsEnRegle
    <3>2. QED
      BY <1>2, <2>2, <2>3, <2>4, <2>5, <3>1 DEF InvitationsEnRegle
  <2>7. \A p \in Requetes : requete[p].i \in Invitations => Douce(invitation, invitation', requete[p].i)
    BY <1>2, <2>5 DEF Neuve, Douce
  <2>8. requete' = [requete EXCEPT ![q] = Repos] /\ Exclusives'
    BY <1>2, ReposJuste, ResteExclusif DEF Finir, IInv
  <2>9. Derange1(r) = {} /\ Perdu1(r, invitation) = {}
    BY <2>1 DEF Derange1, Perdu1, ApresPose, ApresBrulure
  <2>10. \A j \in Invitations : invitation'[j].etat = "servie" => invitation'[j] = invitation[j]
    BY <2>3, <2>5
  <2>11. QED
    BY <1>2, <2>6, <2>7, <2>8, <2>9, <2>10, ReposJuste, LettresChangees
<1>3. QED
  BY <1>1, <1>2 DEF CreerInvitation

LEMMA EffacerInvitationJuste ==
  ASSUME IInv, NEW q \in Requetes, EffacerInvitation(q)
  PROVE  IInv'
<1>. DEFINE r == requete[q]
<1>1. r.etape = "annulation" /\ Derange1(r) = {} /\ Perdu1(r, invitation) = {}
  BY DEF EffacerInvitation, En, Derange1, Perdu1, ApresPose, ApresBrulure
<1>2. InvitationsEnRegle(invitation, fiche)
  BY InvitationsTypees
<1>3. PasDInvitation \in Lettres /\ PasDInvitation.etat = "absente"
        /\ PasDInvitation.adresse = SansAdresse /\ PasDInvitation.fiche = SansFiche
  BY DEF PasDInvitation, Lettres
<1>4. /\ invitation' \in [Invitations -> Lettres]
      /\ \A j \in Invitations : invitation'[j] \in {PasDInvitation, invitation[j]}
  BY <1>2, <1>3 DEF EffacerInvitation, InvitationsEnRegle
<1>5. InvitationsEnRegle(invitation', fiche)
  BY <1>2, <1>3, <1>4 DEF InvitationsEnRegle
<1>6. /\ \A j \in Invitations : Douce(invitation, invitation', j)
      /\ \A j \in Invitations : invitation'[j].etat = "servie" => invitation'[j] = invitation[j]
  BY <1>3, <1>4 DEF Douce
<1>7. requete' = [requete EXCEPT ![q] = Repos] /\ Exclusives'
  BY ReposJuste, ResteExclusif DEF EffacerInvitation, Finir, IInv
<1>8. QED
  BY <1>1, <1>5, <1>6, <1>7, ReposJuste, LettresChangees DEF EffacerInvitation

LEMMA PerimerJuste ==
  ASSUME IInv, NEW i \in Invitations, Perimer(i)
  PROVE  IInv'
<1>1. InvitationsEnRegle(invitation, fiche) /\ requete \in [Requetes -> Demandes]
  BY InvitationsTypees
<1>2. /\ invitation' \in [Invitations -> Lettres]
      /\ \A j \in Invitations : /\ invitation'[j].etat = invitation[j].etat
                                /\ invitation'[j].adresse = invitation[j].adresse
                                /\ invitation'[j].fiche = invitation[j].fiche
  BY <1>1 DEF Perimer, InvitationsEnRegle, Lettres
<1>3. InvitationsEnRegle(invitation', fiche)
  BY <1>1, <1>2 DEF InvitationsEnRegle
<1>4. \A j \in Invitations : Douce(invitation, invitation', j)
  BY <1>2 DEF Douce
<1>5. RequetesJustes'
  <2>1. SUFFICES ASSUME NEW p \in Requetes
                 PROVE  Tient(requete'[p], invitation', fiche', pose', fichier', deranges')
    BY DEF RequetesJustes
  <2>2. Tient(requete[p], invitation, fiche, pose, fichier, deranges)
    BY DEF IInv, RequetesJustes
  <2>3. Tient(requete[p], invitation', fiche, pose, fichier, deranges)
    BY <1>1, <1>4, <2>2, TientDouce DEF InvitationsEnRegle
  <2>4. QED
    BY <2>3 DEF Perimer, temoins
<1>6. Exclusives'
  BY DEF Perimer, IInv, Exclusives, AuTravail
<1>7. ServiesRendues'
  <2>1. \A p \in Requetes : PerduPar(p)' = PerduPar(p)
    BY <1>2 DEF Perimer, PerduPar
  <2>2. QED
    BY <1>2, <2>1 DEF Perimer, IInv, ServiesRendues, Rendue, temoins
<1>8. aleas' \in 0..MaxAleas
  BY ConstantesEnrolement DEF IInv, TypeOK, Perimer, Compter
<1>9. QED
  BY <1>1, <1>3, <1>5, <1>6, <1>7, <1>8, InvitationsChangees DEF Perimer, temoins

LEMMA BrulerJuste ==
  ASSUME IInv, NEW q \in Requetes, Bruler(q)
  PROVE  IInv'
<1>. DEFINE r == requete[q]
            n == [r EXCEPT !.etape = "recherche"]
<1>1. CASE Refuser(q)
  BY <1>1, RefuserJuste
<1>2. ASSUME Brulable(r.i), invitation' = [invitation EXCEPT ![r.i].etat = "servie"],
             Aller(q, "recherche"), UNCHANGED <<fiche, fichier, pose, temoins, aleas>>
      PROVE  IInv'
  <2>1. /\ r \in Demandes /\ r.etape = "brulure"
        /\ Tient(r, invitation, fiche, pose, fichier, deranges)
    BY DEF IInv, TypeOK, Demandes, RequetesJustes, Bruler, En
  <2>2. r.i \in Invitations /\ r.a \in Appareils /\ r.x \in Adresses
          /\ invitation[r.i].etat = "ouverte" /\ invitation[r.i].adresse = r.x
    BY <1>2, <2>1 DEF Tient, TientRappel, Rappels, Brulable
  <2>3. requete \in [Requetes -> Demandes] /\ InvitationsEnRegle(invitation, fiche)
    BY InvitationsTypees
  <2>4. /\ n \in Demandes /\ n.etape = "recherche" /\ n.i = r.i /\ n.a = r.a /\ n.x = r.x
        /\ requete' = [requete EXCEPT ![q] = n]
    BY <1>2, <2>1, <2>3 DEF Demandes, Etapes, ApresPose, ApresBrulure, Aller
  <2>. HIDE DEF n
  <2>5. /\ invitation' \in [Invitations -> Lettres] /\ invitation'[r.i].etat = "servie"
        /\ \A j \in Invitations : j # r.i => invitation'[j] = invitation[j]
        /\ \A j \in Invitations : /\ invitation'[j].adresse = invitation[j].adresse
                                  /\ invitation'[j].fiche = invitation[j].fiche
    BY <1>2, <2>2, <2>3 DEF InvitationsEnRegle, Lettres
  <2>6. InvitationsEnRegle(invitation', fiche)
    BY <2>3, <2>5 DEF InvitationsEnRegle
  <2>7. \A j \in Invitations : Douce(invitation, invitation', j)
    BY <2>2, <2>5 DEF Douce
  <2>8. Tient(n, invitation', fiche, pose, fichier, deranges)
    BY <2>1, <2>2, <2>4, <2>5 DEF Tient, TientRappel, Rappels, ApresJeton, ApresBrulure
  <2>9. Exclusives'
    <3>1. requete'[q] = n /\ \A p \in Requetes : p # q => requete'[p] = requete[p]
      BY <2>3, <2>4
    <3>2. \A p \in Requetes : requete[p].etape \in ApresJeton => requete[p].i # r.i
      <4>1. SUFFICES ASSUME NEW p \in Requetes, requete[p].etape \in ApresJeton, requete[p].i = r.i
                     PROVE  FALSE
        OBVIOUS
      <4>2. Tient(requete[p], invitation, fiche, pose, fichier, deranges)
        BY DEF IInv, RequetesJustes
      <4>3. QED
        BY <2>2, <4>1, <4>2 DEF Tient, TientRappel, Rappels
    <3>3. AuTravail(r) /\ r.etape \in Rappels /\ n.etape \in Rappels
      BY <2>1, <2>2, <2>4 DEF AuTravail, Rappels, ApresJeton, ApresBrulure, Adresses, SansAdresse
    <3>4. \A p, s \in Requetes :
            /\ p # s /\ AuTravail(requete'[p]) /\ AuTravail(requete'[s])
                 /\ requete'[p].a = requete'[s].a =>
                 requete'[p].etape \in Rappels /\ requete'[s].etape \in Rappels
                   /\ requete'[p].i = requete'[s].i
      BY <2>4, <3>1, <3>3 DEF IInv, Exclusives
    <3>5. \A p, s \in Requetes :
            p # s /\ requete'[p].etape \in ApresJeton /\ requete'[s].etape \in ApresJeton =>
              requete'[p].i # requete'[s].i
      BY <2>4, <3>1, <3>2 DEF IInv, Exclusives
    <3>6. QED
      BY <3>4, <3>5 DEF Exclusives, AuTravail
  <2>10. Derange1(r) \subseteq Derange1(n)
    BY <2>1, <2>4 DEF Derange1, ApresPose, ApresBrulure
  <2>11. Perdu1(r, invitation) = {} /\ r.i \in Perdu1(n, invitation')
    BY <2>1, <2>4 DEF Perdu1, ApresBrulure
  <2>12. \A i \in Invitations : invitation'[i].etat = "servie" =>
           \/ i \in Perdu1(n, invitation')
           \/ invitation'[i] = invitation[i] /\ i \notin Perdu1(requete[q], invitation)
    BY <2>5, <2>11
  <2>13. QED
    BY <1>2, <2>4, <2>6, <2>7, <2>8, <2>9, <2>10, <2>12, LettresChangees
<1>3. QED
  BY <1>1, <1>2 DEF Bruler

LEMMA FaireLeMenageJuste ==
  ASSUME IInv, NEW q \in Requetes, FaireLeMenage(q)
  PROVE  IInv'
<1>. DEFINE r == requete[q]
            n == [r EXCEPT !.etape = "lien"]
<1>1. /\ r \in Demandes /\ r.etape = "menage"
      /\ Tient(r, invitation, fiche, pose, fichier, deranges)
  BY DEF IInv, TypeOK, Demandes, RequetesJustes, FaireLeMenage, En
<1>2. requete \in [Requetes -> Demandes] /\ InvitationsEnRegle(invitation, fiche)
  BY InvitationsTypees
<1>3. /\ n \in Demandes /\ n.etape = "lien" /\ n.i = r.i /\ n.a = r.a /\ n.x = r.x /\ n.f = r.f
      /\ requete' = [requete EXCEPT ![q] = n]
  BY <1>1, <1>2 DEF Demandes, Etapes, ApresPose, ApresBrulure, Aller, FaireLeMenage
<1>. HIDE DEF n
<1>4. PasDInvitation \in Lettres /\ PasDInvitation.etat = "absente"
        /\ PasDInvitation.adresse = SansAdresse /\ PasDInvitation.fiche = SansFiche
  BY DEF PasDInvitation, Lettres
<1>5. /\ invitation' \in [Invitations -> Lettres]
      /\ \A j \in Invitations : invitation'[j] \in {PasDInvitation, invitation[j]}
      /\ \A j \in Invitations : invitation[j].fiche = r.f /\ j # r.i => invitation'[j] = PasDInvitation
  BY <1>2, <1>4 DEF FaireLeMenage, InvitationsEnRegle
<1>6. InvitationsEnRegle(invitation', fiche)
  BY <1>2, <1>4, <1>5 DEF InvitationsEnRegle
<1>7. \A j \in Invitations : Douce(invitation, invitation', j)
  BY <1>4, <1>5 DEF Douce
<1>8. Tient(n, invitation', fiche, pose, fichier, deranges)
  <2>1. r.i \in Invitations /\ invitation'[r.i] \in {PasDInvitation, invitation[r.i]}
    BY <1>1, <1>5 DEF Tient, TientRappel, Rappels, ApresJeton, ApresBrulure
  <2>2. QED
    BY <1>1, <1>3, <1>4, <2>1 DEF Tient, TientRappel, Rappels, ApresJeton, ApresBrulure
<1>9. Suit(r, n)
  BY <1>1, <1>3 DEF Suit, AuTravail, Rappels, ApresJeton, ApresBrulure
<1>10. Exclusives'
  BY <1>3, <1>9, ResteExclusif DEF IInv
<1>11. Derange1(r) \subseteq Derange1(n)
  BY <1>1, <1>3 DEF Derange1, ApresPose, ApresBrulure
<1>12. \A i \in Invitations : invitation'[i].etat = "servie" =>
         \/ i \in Perdu1(n, invitation')
         \/ invitation'[i] = invitation[i] /\ i \notin Perdu1(r, invitation)
  BY <1>1, <1>3, <1>4, <1>5 DEF Perdu1, ApresBrulure
<1>13. QED
  BY <1>3, <1>6, <1>7, <1>8, <1>10, <1>11, <1>12, LettresChangees DEF FaireLeMenage

\* The link is right: the row has the address that the callback was given.
LEMMA LierJuste ==
  ASSUME IInv, NEW q \in Requetes, Lier(q)
  PROVE  IInv'
<1>. DEFINE r == requete[q]
            n == [r EXCEPT !.etape = "pair"]
<1>1. CASE Refuser(q)
  BY <1>1, RefuserJuste
<1>2. ASSUME invitation[r.i].etat # "absente", fiche[r.f].existe,
             \A j \in Invitations \ {r.i} : invitation[j].fiche # r.f,
             invitation' = [invitation EXCEPT ![r.i].fiche = r.f], Aller(q, "pair"),
             UNCHANGED <<fiche, fichier, pose, temoins, aleas>>
      PROVE  IInv'
  <2>1. /\ r \in Demandes /\ r.etape = "lien"
        /\ Tient(r, invitation, fiche, pose, fichier, deranges)
    BY DEF IInv, TypeOK, Demandes, RequetesJustes, Lier, En
  <2>2. requete \in [Requetes -> Demandes] /\ InvitationsEnRegle(invitation, fiche)
    BY InvitationsTypees
  <2>3. /\ r.i \in Invitations /\ r.f \in Fiches /\ r.f # SansFiche
        /\ invitation[r.i].etat # "ouverte"
        /\ invitation[r.i].etat = "servie" => invitation[r.i].adresse = r.x
        /\ fiche[r.f].adresse = r.x /\ fiche[r.f].hote = ParTunnel
    BY <1>2, <2>1, RienDeTel DEF Tient, TientRappel, Rappels, ApresJeton, ApresBrulure
  <2>4. invitation[r.i].etat = "servie"
    BY <1>2, <2>2, <2>3 DEF InvitationsEnRegle, Lettres
  <2>5. /\ n \in Demandes /\ n.etape = "pair" /\ n.i = r.i /\ n.a = r.a /\ n.x = r.x /\ n.f = r.f
        /\ requete' = [requete EXCEPT ![q] = n]
    BY <1>2, <2>1, <2>2 DEF Demandes, Etapes, ApresPose, ApresBrulure, Aller
  <2>. HIDE DEF n
  <2>6. /\ invitation' \in [Invitations -> Lettres]
        /\ \A j \in Invitations : j # r.i => invitation'[j] = invitation[j]
        /\ \A j \in Invitations : /\ invitation'[j].etat = invitation[j].etat
                                  /\ invitation'[j].adresse = invitation[j].adresse
        /\ invitation'[r.i].fiche = r.f
    BY <1>2, <2>2, <2>3 DEF InvitationsEnRegle, Lettres
  <2>7. InvitationsEnRegle(invitation', fiche)
    <3>1. \A i, j \in Invitations : i # j =>
            /\ invitation'[i].adresse = invitation'[j].adresse => invitation'[i].adresse = SansAdresse
            /\ invitation'[i].fiche = invitation'[j].fiche => invitation'[i].fiche = SansFiche
      BY <1>2, <2>2, <2>6 DEF InvitationsEnRegle
    <3>2. \A i \in Invitations : invitation'[i].etat = "ouverte" => invitation'[i].adresse \in Adresses
      BY <2>2, <2>6 DEF InvitationsEnRegle
    <3>3. \A i \in Invitations :
            invitation'[i].fiche # SansFiche =>
              invitation'[i].etat = "servie" /\ fiche[invitation'[i].fiche].hote = ParTunnel
      BY <2>2, <2>3, <2>4, <2>6 DEF InvitationsEnRegle
    <3>4. QED
      BY <2>6, <3>1, <3>2, <3>3 DEF InvitationsEnRegle
  <2>8. \A j \in Invitations : Douce(invitation, invitation', j)
    BY <2>6 DEF Douce
  <2>9. Tient(n, invitation', fiche, pose, fichier, deranges)
    BY <2>1, <2>3, <2>5, <2>6 DEF Tient, TientRappel, Rappels, ApresJeton, ApresBrulure
  <2>10. Suit(r, n)
    BY <2>1, <2>5 DEF Suit, AuTravail, Rappels, ApresJeton, ApresBrulure
  <2>11. Exclusives'
    BY <2>5, <2>10, ResteExclusif DEF IInv
  <2>12. Derange1(r) \subseteq Derange1(n)
    BY <2>1, <2>5 DEF Derange1, ApresPose, ApresBrulure
  <2>13. Perdu1(r, invitation) = {r.i}
    BY <2>1 DEF Perdu1, ApresBrulure
  <2>14. \A i \in Invitations : invitation'[i].etat = "servie" =>
           \/ invitation'[i] = invitation[i] /\ i \notin Perdu1(requete[q], invitation)
           \/ /\ invitation'[i].fiche # SansFiche
              /\ fiche[invitation'[i].fiche].adresse = invitation'[i].adresse
    BY <2>3, <2>4, <2>6, <2>13
  <2>15. QED
    BY <1>2, <2>5, <2>7, <2>8, <2>9, <2>11, <2>12, <2>14, LettresChangees
<1>3. QED
  BY <1>1, <1>2 DEF Lier

-----------------------------------------------------------------------------
(* Steps that begin to work on a router.                                   *)

\* Whoever works on the router that this request takes up runs the same script.
Admise(q, n) ==
  \A p \in Requetes : p # q /\ AuTravail(requete[p]) /\ requete[p].a = n.a =>
    requete[p].etape \in Rappels /\ n.etape \in Rappels /\ requete[p].i = n.i

LEMMA NouveauTravail ==
  ASSUME TypeOK, Exclusives, NEW q \in Requetes, NEW n \in Demandes,
         requete' = [requete EXCEPT ![q] = n], n.etape \notin ApresJeton,
         Admise(q, n)
  PROVE  Exclusives'
<1>1. requete \in [Requetes -> Demandes]
  BY DEF TypeOK, Demandes
<1>2. requete'[q] = n /\ \A p \in Requetes : p # q => requete'[p] = requete[p]
  BY <1>1
<1>3. \A p, s \in Requetes :
        /\ p # s /\ AuTravail(requete'[p]) /\ AuTravail(requete'[s])
             /\ requete'[p].a = requete'[s].a =>
             requete'[p].etape \in Rappels /\ requete'[s].etape \in Rappels
               /\ requete'[p].i = requete'[s].i
  BY <1>2 DEF Exclusives, Admise
<1>4. \A p, s \in Requetes :
        p # s /\ requete'[p].etape \in ApresJeton /\ requete'[s].etape \in ApresJeton =>
          requete'[p].i # requete'[s].i
  BY <1>2 DEF Exclusives
<1>5. QED
  BY <1>3, <1>4 DEF Exclusives, AuTravail

\* A router that nobody holds, but for the requests of one script.
LEMMA Libre ==
  ASSUME NEW a \in Appareils, NEW i, ~Occupe(a, i), NEW p \in Requetes, AuTravail(requete[p]),
         requete[p].a = a
  PROVE  requete[p].i = i /\ i # SansInvitation
BY DEF Occupe, AuTravail, Rappels, ApresJeton, ApresBrulure, Assistes, ApresPair

LEMMA RaccorderJuste ==
  ASSUME IInv, NEW q \in Requetes, NEW a \in Appareils, Raccorder(q, a)
  PROVE  IInv'
<1>1. requete \in [Requetes -> Demandes] /\ InvitationsEnRegle(invitation, fiche)
  BY InvitationsTypees
<1>2. requete[q].etape = "repos" /\ ~Occupe(a, SansInvitation)
  BY DEF Raccorder, Commencer, En
<1>3. Derange1(requete[q]) = {} /\ Perdu1(requete[q], invitation) = {}
  BY <1>2 DEF Derange1, Perdu1, ApresPose, ApresBrulure
<1>4. ASSUME NEW x \in Adresses, Commencer(q, [Repos EXCEPT !.etape = "pose", !.a = a, !.x = x]),
             invitation' \in {invitation, SansPerimees}
      PROVE  IInv'
  <2>. DEFINE n == [Repos EXCEPT !.etape = "pose", !.a = a, !.x = x]
  <2>1. /\ n \in Demandes /\ n.etape = "pose" /\ n.a = a /\ n.x = x /\ n.i = SansInvitation
        /\ requete' = [requete EXCEPT ![q] = n]
    BY <1>4 DEF Repos, Demandes, Etapes, Commencer
  <2>. HIDE DEF n
  <2>2. Tient(n, invitation', fiche, pose, fichier, deranges)
    BY <2>1 DEF Tient, TientAssiste, Rappels, ApresJeton, ApresBrulure, Assistes, ApresPair
  <2>3. Exclusives'
    <3>1. \A p \in Requetes : ~(AuTravail(requete[p]) /\ requete[p].a = a)
      BY <1>2, Libre
    <3>2. n.etape \notin ApresJeton
      BY <2>1 DEF ApresJeton, ApresBrulure
    <3>3. Admise(q, n)
      BY <2>1, <3>1 DEF Admise
    <3>4. TypeOK /\ Exclusives /\ n \in Demandes /\ requete' = [requete EXCEPT ![q] = n]
      BY <2>1 DEF IInv
    <3>5. QED
      BY <3>2, <3>3, <3>4, NouveauTravail
  <2>4. /\ InvitationsEnRegle(invitation', fiche)
        /\ \A i \in Invitations : Douce(invitation, invitation', i)
        /\ \A i \in Invitations : invitation'[i].etat = "servie" => invitation'[i] = invitation[i]
    BY <1>1, <1>4, MenageDAdresses DEF Douce
  <2>5. QED
    BY <1>3, <2>1, <2>2, <2>3, <2>4, LettresChangees DEF Raccorder
<1>5. \A f \in Fiches : fiche[f].adresse # SansAdresse => fiche[f].adresse \in Adresses
  BY DEF IInv, TypeOK
<1>6. QED
  BY <1>4, <1>5 DEF Raccorder

\* Whoever else works on this router gives it this address.
SeulOuPareil(q, a, x) ==
  \A p \in Requetes : p # q /\ AuTravail(requete[p]) /\ requete[p].a = a => requete[p].x = x

\* A router takes an address, under the request that holds it.
LEMMA PoseChangee ==
  ASSUME NEW q \in Requetes, NEW n \in Demandes, NEW a \in Appareils, NEW x \in Adresses,
         IInv, requete' = [requete EXCEPT ![q] = n], pose' = [pose EXCEPT ![a] = x],
         Tient(n, invitation, fiche, pose', fichier, deranges), Exclusives',
         SeulOuPareil(q, a, x),
         a \in Derange1(n), Derange1(requete[q]) = {}, Perdu1(requete[q], invitation) = {},
         UNCHANGED <<tables, fichier, temoins, aleas>>
  PROVE  IInv'
<1>1. requete \in [Requetes -> Demandes] /\ pose \in [Appareils -> Adresses \union {SansAdresse}]
  BY DEF IInv, TypeOK, Demandes
<1>2. requete'[q] = n /\ \A p \in Requetes : p # q => requete'[p] = requete[p]
  BY <1>1
<1>3. pose'[a] = x /\ \A b \in Appareils : b # a => pose'[b] = pose[b]
  BY <1>1
<1>4. TypeOK'
  <2>1. requete' \in [Requetes -> Demandes] /\ pose' \in [Appareils -> Adresses \union {SansAdresse}]
    BY <1>1
  <2>2. QED
    BY <2>1 DEF IInv, TypeOK, Demandes, tables, temoins
<1>5. LignesJustes'
  BY DEF IInv, LignesJustes, tables
<1>6. RequetesJustes'
  <2>1. SUFFICES ASSUME NEW p \in Requetes
                 PROVE  Tient(requete'[p], invitation', fiche', pose', fichier', deranges')
    BY DEF RequetesJustes
  <2>2. CASE p = q
    BY <1>2, <2>2 DEF tables, temoins
  <2>3. CASE p # q
    <3>1. Tient(requete[p], invitation, fiche, pose, fichier, deranges)
      BY DEF IInv, RequetesJustes
    <3>2. AuTravail(requete[p]) /\ requete[p].a = a => requete[p].x = x
      BY <2>3 DEF SeulOuPareil
    <3>3. Tient(requete[p], invitation, fiche, pose', fichier, deranges)
      <4>1. CASE requete[p].etape \in Rappels
        <5>1. TientRappel(requete[p], invitation, fiche, pose)
          BY <3>1, <4>1 DEF Tient
        <5>2. pose'[requete[p].a] = requete[p].x
          BY <1>3, <3>2, <4>1, <5>1 DEF TientRappel, AuTravail, Adresses, SansAdresse
        <5>3. QED
          BY <4>1, <5>1, <5>2 DEF Tient, TientRappel
      <4>2. CASE requete[p].etape \in Assistes /\ requete[p].etape \notin Rappels
        <5>1. TientAssiste(requete[p], fiche, pose, fichier, deranges)
          BY <3>1, <4>2 DEF Tient
        <5>2. requete[p].etape # "pose" /\ requete[p].x # SansAdresse =>
                pose'[requete[p].a] = requete[p].x
          BY <1>3, <3>2, <4>2, <5>1 DEF TientAssiste, AuTravail
        <5>3. QED
          BY <4>2, <5>1, <5>2 DEF Tient, TientAssiste
      <4>3. CASE requete[p].etape \notin Assistes /\ requete[p].etape \notin Rappels
        BY <3>1, <4>3 DEF Tient
      <4>4. QED
        BY <4>1, <4>2, <4>3
    <3>4. QED
      BY <1>2, <2>3, <3>3 DEF tables, temoins
  <2>4. QED
    BY <2>2, <2>3
<1>7. ServiesRendues'
  <2>1. \A p \in Requetes : PerduPar(p) \subseteq PerduPar(p)'
    <3>1. SUFFICES ASSUME NEW p \in Requetes PROVE PerduPar(p) \subseteq PerduPar(p)'
      OBVIOUS
    <3>2. CASE p = q
      BY <1>2, <3>2 DEF PerduPar, Perdu1, tables
    <3>3. CASE p # q
      BY <1>2, <3>3 DEF PerduPar, tables
    <3>4. QED
      BY <3>2, <3>3
  <2>2. QED
    BY <2>1 DEF IInv, ServiesRendues, Rendue, tables, temoins
<1>8. RouteursDroits'
  <2>1. Derange(a)'
    BY <1>2 DEF Derange, DerangePar, Derange1
  <2>2. \A b \in Appareils : Derange(b) => Derange(b)'
    <3>1. SUFFICES ASSUME NEW b \in Appareils, Derange(b), b # a PROVE Derange(b)'
      BY <2>1
    <3>2. CASE b \in deranges
      BY <3>2 DEF Derange, temoins
    <3>3. ASSUME NEW p \in Requetes, b \in DerangePar(p) PROVE Derange(b)'
      <4>1. p # q
        BY <3>1, <3>3 DEF DerangePar, Derange1
      <4>2. QED
        BY <1>2, <3>3, <4>1 DEF Derange, DerangePar
    <3>4. QED
      BY <3>1, <3>2, <3>3 DEF Derange
  <2>3. SUFFICES ASSUME NEW f \in Fiches, fiche[f].appareil # SansAppareil PROVE Droit(f)'
    BY DEF RouteursDroits, Droit, tables
  <2>4. fiche[f].appareil \in Appareils /\ Droit(f)
    BY <2>3 DEF IInv, TypeOK, RouteursDroits
  <2>5. QED
    BY <1>3, <2>1, <2>2, <2>3, <2>4 DEF Droit, tables
<1>9. QED
  BY <1>4, <1>5, <1>6, <1>7, <1>8 DEF IInv

LEMMA ConsommerJuste ==
  ASSUME IInv, NEW q \in Requetes, NEW i \in Invitations, NEW a \in Appareils, Consommer(q, i, a)
  PROVE  IInv'
<1>. DEFINE x == invitation[i].adresse
            n == [Repos EXCEPT !.etape = "brulure", !.i = i, !.a = a, !.x = x]
<1>1. x \in Adresses /\ invitation[i].etat = "ouverte" /\ ~Occupe(a, i)
  BY DEF Consommer, IInv, LignesJustes
<1>2. requete[q].etape = "repos" /\ requete \in [Requetes -> Demandes]
        /\ pose \in [Appareils -> Adresses \union {SansAdresse}]
  BY DEF Consommer, Commencer, En, IInv, TypeOK, Demandes
<1>3. /\ n \in Demandes /\ n.etape = "brulure" /\ n.i = i /\ n.a = a /\ n.x = x
      /\ requete' = [requete EXCEPT ![q] = n]
  BY <1>1 DEF Repos, Demandes, Etapes, ApresPose, Consommer, Commencer
<1>4. pose' = [pose EXCEPT ![a] = x]
  BY DEF Consommer
<1>. HIDE DEF n
<1>5. Tient(n, invitation, fiche, pose', fichier, deranges)
  BY <1>1, <1>2, <1>3, <1>4 DEF Tient, TientRappel, Rappels, ApresJeton, ApresBrulure
<1>6. ASSUME NEW p \in Requetes, AuTravail(requete[p]), requete[p].a = a
      PROVE  requete[p].etape \in Rappels /\ requete[p].i = i /\ requete[p].x = x
  <2>1. requete[p].i = i /\ i # SansInvitation
    BY <1>1, <1>6, Libre
  <2>2. Tient(requete[p], invitation, fiche, pose, fichier, deranges)
    BY DEF IInv, RequetesJustes
  <2>3. requete[p].etape \in Rappels
    BY <1>6, <2>1, <2>2 DEF Tient, TientAssiste, AuTravail
  <2>4. requete[p].x = x
    BY <1>1, <2>1, <2>2, <2>3 DEF Tient, TientRappel, Rappels
  <2>5. QED
    BY <2>1, <2>3, <2>4
<1>7. Exclusives'
  <2>1. n.etape \in Rappels /\ n.etape \notin ApresJeton
    BY <1>3 DEF Rappels, ApresJeton, ApresBrulure
  <2>2. QED
    <3>1. Admise(q, n)
      BY <1>3, <1>6, <2>1 DEF Admise
    <3>2. QED
      BY <1>3, <2>1, <3>1, NouveauTravail DEF IInv
<1>8. a \in Derange1(n) /\ Derange1(requete[q]) = {} /\ Perdu1(requete[q], invitation) = {}
  BY <1>1, <1>2, <1>3 DEF Derange1, Perdu1, ApresPose, ApresBrulure, Adresses, SansAdresse
<1>9. SeulOuPareil(q, a, x)
  BY <1>6 DEF SeulOuPareil
<1>10. UNCHANGED <<tables, fichier, temoins, aleas>>
  BY DEF Consommer
<1>. HIDE DEF x
<1>11. QED
  BY <1>1, <1>3, <1>4, <1>5, <1>7, <1>8, <1>9, <1>10, PoseChangee

\* An old script disturbs nobody but its router: no connection is at work on it.
LEMMA RejouerScriptJuste ==
  ASSUME IInv, NEW a \in Appareils, NEW x \in Adresses, RejouerScript(a, x)
  PROVE  IInv'
<1>1. /\ pose' = [pose EXCEPT ![a] = x] /\ deranges' = deranges \union {a}
      /\ UNCHANGED <<invitation, fiche, fichier, requete, perdues>>
  BY DEF RejouerScript, tables
<1>2. \A p \in Requetes : ~(AuTravail(requete[p]) /\ requete[p].a = a)
  BY Libre DEF RejouerScript
<1>3. pose \in [Appareils -> Adresses \union {SansAdresse}]
  BY DEF IInv, TypeOK
<1>4. pose'[a] = x /\ \A b \in Appareils : b # a => pose'[b] = pose[b]
  BY <1>1, <1>3
<1>5. TypeOK'
  <2>1. aleas' \in 0..MaxAleas
    BY ConstantesEnrolement DEF IInv, TypeOK, RejouerScript, Compter
  <2>2. pose' \in [Appareils -> Adresses \union {SansAdresse}] /\ deranges' \subseteq Appareils
    BY <1>1, <1>3 DEF IInv, TypeOK
  <2>3. QED
    BY <1>1, <2>1, <2>2 DEF IInv, TypeOK
<1>6. LignesJustes' /\ Exclusives'
  BY <1>1 DEF IInv, LignesJustes, Exclusives, AuTravail
<1>7. RequetesJustes'
  <2>1. SUFFICES ASSUME NEW p \in Requetes
                 PROVE  Tient(requete[p], invitation, fiche, pose', fichier, deranges')
    BY <1>1 DEF RequetesJustes
  <2>2. Tient(requete[p], invitation, fiche, pose, fichier, deranges)
    BY DEF IInv, RequetesJustes
  <2>3. Tient(requete[p], invitation, fiche, pose', fichier, deranges)
    <3>1. CASE requete[p].etape \in Rappels
      <4>1. TientRappel(requete[p], invitation, fiche, pose)
        BY <2>2, <3>1 DEF Tient
      <4>2. requete[p].a # a
        BY <1>2, <3>1, <4>1 DEF TientRappel, AuTravail, Adresses, SansAdresse
      <4>3. QED
        BY <1>4, <3>1, <4>1, <4>2 DEF Tient, TientRappel
    <3>2. CASE requete[p].etape \in Assistes /\ requete[p].etape \notin Rappels
      <4>1. TientAssiste(requete[p], fiche, pose, fichier, deranges)
        BY <2>2, <3>2 DEF Tient
      <4>2. requete[p].x # SansAdresse => pose'[requete[p].a] = pose[requete[p].a]
        BY <1>2, <1>4, <3>2, <4>1 DEF TientAssiste, AuTravail
      <4>3. QED
        BY <3>2, <4>1, <4>2 DEF Tient, TientAssiste
    <3>3. CASE requete[p].etape \notin Assistes /\ requete[p].etape \notin Rappels
      BY <2>2, <3>3 DEF Tient
    <3>4. QED
      BY <3>1, <3>2, <3>3
  <2>4. QED
    BY <1>1, <2>3, TientPareil
<1>8. ServiesRendues'
  BY <1>1 DEF IInv, ServiesRendues, Rendue, PerduPar
<1>9. RouteursDroits'
  <2>1. SUFFICES ASSUME NEW f \in Fiches, fiche[f].appareil # SansAppareil PROVE Droit(f)'
    BY <1>1 DEF RouteursDroits, Droit
  <2>2. fiche[f].appareil \in Appareils /\ Droit(f)
    BY <2>1 DEF IInv, TypeOK, RouteursDroits
  <2>3. CASE fiche[f].appareil = a
    BY <1>1, <2>3 DEF Droit, Derange
  <2>4. CASE fiche[f].appareil # a
    <3>1. Derange(fiche[f].appareil) => Derange(fiche[f].appareil)'
      BY <1>1 DEF Derange, DerangePar
    <3>2. QED
      BY <1>1, <1>4, <2>1, <2>2, <2>4, <3>1 DEF Droit
  <2>5. QED
    BY <2>3, <2>4
<1>10. QED
  BY <1>5, <1>6, <1>7, <1>8, <1>9 DEF IInv

LEMMA PoserTunnelJuste ==
  ASSUME IInv, NEW q \in Requetes, PoserTunnel(q)
  PROVE  IInv'
<1>. DEFINE r == requete[q]
            n == [r EXCEPT !.etape = "pairAssiste"]
<1>1. /\ r \in Demandes /\ r.etape = "pose"
      /\ Tient(r, invitation, fiche, pose, fichier, deranges)
  BY DEF IInv, TypeOK, Demandes, RequetesJustes, PoserTunnel, En
<1>2. r.i = SansInvitation /\ r.a \in Appareils /\ r.x \in Adresses
  BY <1>1 DEF Tient, TientAssiste, Rappels, ApresJeton, ApresBrulure, Assistes, ApresPair
<1>3. requete \in [Requetes -> Demandes] /\ pose \in [Appareils -> Adresses \union {SansAdresse}]
  BY DEF IInv, TypeOK, Demandes
<1>4. /\ n \in Demandes /\ n.etape = "pairAssiste" /\ n.i = r.i /\ n.a = r.a /\ n.x = r.x
      /\ requete' = [requete EXCEPT ![q] = n] /\ pose' = [pose EXCEPT ![r.a] = r.x]
  BY <1>1, <1>3 DEF Demandes, Etapes, ApresPose, PoserTunnel, Aller
<1>. HIDE DEF n
<1>5. Tient(n, invitation, fiche, pose', fichier, deranges)
  BY <1>2, <1>3, <1>4 DEF Tient, TientAssiste, Rappels, ApresJeton, ApresBrulure, Assistes, ApresPair
<1>6. AuTravail(r) /\ r.etape \notin Rappels
  BY <1>1, <1>2 DEF AuTravail, Rappels, ApresJeton, ApresBrulure, Assistes, Adresses, SansAdresse
<1>7. Suit(r, n)
  BY <1>1, <1>4, <1>6 DEF Suit, ApresJeton, ApresBrulure
<1>8. Exclusives'
  BY <1>4, <1>7, ResteExclusif DEF IInv
<1>9. SeulOuPareil(q, r.a, r.x)
  BY <1>6 DEF SeulOuPareil, IInv, Exclusives
<1>10. r.a \in Derange1(n) /\ Derange1(r) = {} /\ Perdu1(r, invitation) = {}
  BY <1>1, <1>2, <1>4 DEF Derange1, Perdu1, ApresPose, ApresBrulure, Adresses, SansAdresse
<1>11. UNCHANGED <<tables, fichier, temoins, aleas>>
  BY DEF PoserTunnel
<1>12. QED
  BY <1>2, <1>4, <1>5, <1>8, <1>9, <1>10, <1>11, PoseChangee

-----------------------------------------------------------------------------
(* Steps that change the peers.                                            *)

\* A router that had its peer alone has it still, or is said to have lost it.
Garde(b) ==
  /\ b \in deranges => b \in deranges'
  /\ \A y \in Adresses : Seul(fichier, b, y) => b \in deranges' \/ Seul(fichier', b, y)

AutresGardes(a) == \A b \in Appareils : b # a => Garde(b)
Retabli(a) == \A f \in Fiches : fiche[f].appareil = a => Droit(f)'

LEMMA FichierChange ==
  ASSUME NEW q \in Requetes, NEW n \in Demandes, NEW a \in Appareils \union {SansAppareil},
         IInv, requete' = [requete EXCEPT ![q] = n], Suit(requete[q], n),
         fichier' \subseteq Appareils \X Adresses, deranges' \subseteq Appareils,
         Tient(n, invitation, fiche, pose, fichier', deranges'),
         AutresGardes(a), Retabli(a),
         AuTravail(requete[q]) \/ Garde(a), a = requete[q].a, requete[q].etape \notin ApresPair,
         Perdu1(requete[q], invitation) = {},
         UNCHANGED <<tables, pose, perdues>>, aleas' \in 0..MaxAleas
  PROVE  IInv'
<1>1. requete \in [Requetes -> Demandes]
  BY DEF IInv, TypeOK, Demandes
<1>2. requete'[q] = n /\ \A p \in Requetes : p # q => requete'[p] = requete[p]
  BY <1>1
<1>3. TypeOK'
  <2>1. requete' \in [Requetes -> Demandes]
    BY <1>1
  <2>2. QED
    BY <2>1 DEF IInv, TypeOK, Demandes, tables
<1>4. LignesJustes'
  BY DEF IInv, LignesJustes, tables
<1>5. RequetesJustes'
  <2>1. SUFFICES ASSUME NEW p \in Requetes
                 PROVE  Tient(requete'[p], invitation', fiche', pose', fichier', deranges')
    BY DEF RequetesJustes
  <2>2. CASE p = q
    BY <1>2, <2>2 DEF tables
  <2>3. CASE p # q
    <3>1. Tient(requete[p], invitation, fiche, pose, fichier, deranges)
      BY DEF IInv, RequetesJustes
    <3>2. CASE ~(requete[p].etape \in ApresPair /\ requete[p].x # SansAdresse)
      <4>1. Tient(requete[p], invitation, fiche, pose, fichier', deranges')
        BY <3>1, <3>2 DEF Tient, TientAssiste
      <4>2. QED
        BY <1>2, <2>3, <4>1 DEF tables
    <3>3. CASE requete[p].etape \in ApresPair /\ requete[p].x # SansAdresse
      <4>1. requete[p].etape \notin Rappels /\ requete[p].etape \in Assistes /\ AuTravail(requete[p])
        BY <3>3 DEF Rappels, ApresJeton, ApresBrulure, Assistes, ApresPair, AuTravail
      <4>2. TientAssiste(requete[p], fiche, pose, fichier, deranges)
        BY <3>1, <4>1 DEF Tient
      <4>3. requete[p].a \in Appareils /\ requete[p].x \in Adresses
        BY <1>1, <3>3, <4>2 DEF TientAssiste, Demandes
      <4>4. requete[p].a = a => Garde(a)
        BY <2>3, <4>1 DEF IInv, Exclusives
      <4>5. Garde(requete[p].a)
        BY <4>3, <4>4 DEF AutresGardes
      <4>6. requete[p].a \in deranges' \/ Seul(fichier', requete[p].a, requete[p].x)
        BY <3>3, <4>2, <4>3, <4>5 DEF Garde, TientAssiste
      <4>7. TientAssiste(requete[p], fiche, pose, fichier', deranges')
        BY <4>2, <4>6 DEF TientAssiste
      <4>8. QED
        BY <1>2, <2>3, <4>1, <4>7 DEF Tient, tables
    <3>4. QED
      BY <3>2, <3>3
  <2>4. QED
    BY <2>2, <2>3
<1>6. Exclusives'
  BY ResteExclusif DEF IInv
<1>7. ServiesRendues'
  <2>1. \A p \in Requetes : PerduPar(p) \subseteq PerduPar(p)'
    <3>1. SUFFICES ASSUME NEW p \in Requetes PROVE PerduPar(p) \subseteq PerduPar(p)'
      OBVIOUS
    <3>2. CASE p = q
      BY <3>2, VuesDUneDemande
    <3>3. CASE p # q
      BY <1>2, <3>3 DEF PerduPar, tables
    <3>4. QED
      BY <3>2, <3>3
  <2>2. QED
    BY <2>1 DEF IInv, ServiesRendues, Rendue, tables
<1>8. RouteursDroits'
  <2>1. SUFFICES ASSUME NEW f \in Fiches, fiche[f].appareil # SansAppareil, fiche[f].appareil # a
                 PROVE  Droit(f)'
    BY DEF RouteursDroits, Retabli, Droit, tables
  <2>. DEFINE b == fiche[f].appareil
  <2>2. b \in Appareils /\ fiche[f].adresse \in Adresses /\ Droit(f)
    BY <2>1 DEF IInv, TypeOK, LignesJustes, RouteursDroits
  <2>3. Garde(b)
    BY <2>1, <2>2 DEF AutresGardes
  <2>4. \A c \in Appareils : c # a /\ Derange(c) => Derange(c)'
    <3>1. SUFFICES ASSUME NEW c \in Appareils, c # a, Derange(c) PROVE Derange(c)'
      OBVIOUS
    <3>2. CASE c \in deranges
      BY <3>1, <3>2 DEF Derange, Garde, AutresGardes
    <3>3. ASSUME NEW p \in Requetes, c \in DerangePar(p) PROVE Derange(c)'
      <4>1. p # q
        BY <3>1, <3>3 DEF DerangePar
      <4>2. QED
        BY <1>2, <3>3, <4>1 DEF Derange, DerangePar
    <3>4. QED
      BY <3>1, <3>2, <3>3 DEF Derange
  <2>5. CASE Derange(b)
    BY <2>1, <2>2, <2>4, <2>5 DEF Droit, tables
  <2>6. CASE pose[b] = fiche[f].adresse /\ Seul(fichier, b, fiche[f].adresse)
    <3>1. b \in deranges' \/ Seul(fichier', b, fiche[f].adresse)
      BY <2>2, <2>3, <2>6 DEF Garde
    <3>2. QED
      BY <2>6, <3>1 DEF Droit, Derange, tables
  <2>7. QED
    BY <2>1, <2>2, <2>5, <2>6 DEF Droit
<1>9. QED
  BY <1>3, <1>4, <1>5, <1>6, <1>7, <1>8 DEF IInv

\* What a new peer does to the file.
LEMMA PairSeul ==
  ASSUME NEW pairs \in SUBSET (Appareils \X Adresses), NEW a \in Appareils, NEW x \in Adresses
  PROVE  /\ AvecPair(pairs, a, x) \in SUBSET (Appareils \X Adresses)
         /\ Seul(AvecPair(pairs, a, x), a, x)
         /\ \A b, y : b # a /\ y # x /\ Seul(pairs, b, y) => Seul(AvecPair(pairs, a, x), b, y)
         /\ \A b, y : <<b, y>> \in pairs /\ (b = a \/ y = x) /\ <<b, y>> # <<a, x>> =>
              <<b, y>> \in pairs \ AvecPair(pairs, a, x)
BY DEF AvecPair, Seul

\* Whether it wrote its peer or not: without it, its router is said to lack it.
LEMMA PoserLePairGarde ==
  ASSUME IInv, NEW q \in Requetes, PoserLePair(q), requete[q].a \in Appareils, requete[q].x \in Adresses
  PROVE  /\ fichier' \subseteq Appareils \X Adresses /\ deranges' \subseteq Appareils
         /\ requete[q].a \in deranges' \/ Seul(fichier', requete[q].a, requete[q].x)
         /\ AutresGardes(requete[q].a)
         /\ aleas' \in 0..MaxAleas
<1>. DEFINE a == requete[q].a
            x == requete[q].x
<1>1. fichier \in SUBSET (Appareils \X Adresses) /\ deranges \subseteq Appareils
  BY DEF IInv, TypeOK
<1>2. CASE /\ fichier' = AvecPair(fichier, a, x)
           /\ deranges' = (deranges \ {a}) \union ({p[1] : p \in {e \in fichier : e[2] = x}} \ {a})
           /\ UNCHANGED aleas
  <2>1. fichier' \subseteq Appareils \X Adresses /\ Seul(fichier', a, x)
    BY <1>1, <1>2, PairSeul
  <2>2. deranges' \subseteq Appareils /\ aleas' \in 0..MaxAleas
    BY <1>1, <1>2 DEF IInv, TypeOK
  <2>3. ASSUME NEW b \in Appareils, b # a PROVE Garde(b)
    <3>1. b \in deranges => b \in deranges'
      BY <1>2, <2>3
    <3>2. ASSUME NEW y \in Adresses, Seul(fichier, b, y) PROVE b \in deranges' \/ Seul(fichier', b, y)
      <4>1. CASE y # x
        BY <1>1, <1>2, <2>3, <3>2, <4>1, PairSeul
      <4>2. CASE y = x
        <5>1. <<b, x>> \in fichier
          BY <3>2, <4>2 DEF Seul
        <5>2. QED
          BY <1>2, <2>3, <5>1
      <4>3. QED
        BY <4>1, <4>2
    <3>3. QED
      BY <3>1, <3>2 DEF Garde
  <2>4. QED
    BY <2>1, <2>2, <2>3 DEF AutresGardes
<1>3. CASE Compter /\ deranges' = deranges \union {a} /\ UNCHANGED fichier
  <2>1. aleas' \in 0..MaxAleas
    BY <1>3, ConstantesEnrolement DEF IInv, TypeOK, Compter
  <2>2. AutresGardes(a)
    BY <1>3 DEF AutresGardes, Garde, Seul
  <2>3. QED
    BY <1>1, <1>3, <2>1, <2>2
<1>4. QED
  BY <1>2, <1>3 DEF PoserLePair

LEMMA PoserPairJuste ==
  ASSUME IInv, NEW q \in Requetes, PoserPair(q)
  PROVE  IInv'
<1>. DEFINE r == requete[q]
<1>1. /\ r \in Demandes /\ r.etape = "pair"
      /\ Tient(r, invitation, fiche, pose, fichier, deranges)
  BY DEF IInv, TypeOK, Demandes, RequetesJustes, PoserPair, En
<1>2. /\ r.a \in Appareils /\ r.x \in Adresses /\ pose[r.a] = r.x
      /\ \A f \in Fiches : fiche[f].appareil = r.a => fiche[f].adresse = r.x
  BY <1>1 DEF Tient, TientRappel, Rappels, ApresJeton, ApresBrulure
<1>3. /\ fichier' \subseteq Appareils \X Adresses /\ deranges' \subseteq Appareils
      /\ r.a \in deranges' \/ Seul(fichier', r.a, r.x)
      /\ AutresGardes(r.a) /\ aleas' \in 0..MaxAleas
  BY <1>2, PoserLePairGarde DEF PoserPair
<1>4. Retabli(r.a)
  BY <1>2, <1>3 DEF Retabli, Droit, Derange, PoserPair, PoserLePair, tables
<1>5. AuTravail(r) /\ r.etape \notin ApresPair /\ Perdu1(r, invitation) = {}
  BY <1>1, <1>2 DEF AuTravail, Rappels, ApresJeton, ApresPair, Perdu1, ApresBrulure, Adresses, SansAdresse
<1>6. Suit(r, Repos) /\ Repos \in Demandes
        /\ Tient(Repos, invitation, fiche, pose, fichier', deranges')
  BY ReposJuste
<1>7. requete' = [requete EXCEPT ![q] = Repos] /\ UNCHANGED <<tables, pose, perdues>>
  BY DEF PoserPair, PoserLePair, Finir
<1>8. QED
  BY <1>2, <1>3, <1>4, <1>5, <1>6, <1>7, FichierChange

LEMMA PoserPairAssisteJuste ==
  ASSUME IInv, NEW q \in Requetes, PoserPairAssiste(q)
  PROVE  IInv'
<1>. DEFINE r == requete[q]
            n == [r EXCEPT !.etape = "reconnaissance"]
<1>1. /\ r \in Demandes /\ r.etape = "pairAssiste"
      /\ Tient(r, invitation, fiche, pose, fichier, deranges)
  BY DEF IInv, TypeOK, Demandes, RequetesJustes, PoserPairAssiste, En
<1>2. /\ r.i = SansInvitation /\ r.a \in Appareils /\ r.x \in Adresses /\ pose[r.a] = r.x
  BY <1>1 DEF Tient, TientAssiste, Rappels, ApresJeton, ApresBrulure, Assistes, Adresses, SansAdresse
<1>3. requete \in [Requetes -> Demandes]
  BY DEF IInv, TypeOK, Demandes
<1>4. /\ n \in Demandes /\ n.etape = "reconnaissance" /\ n.i = r.i /\ n.a = r.a /\ n.x = r.x
      /\ requete' = [requete EXCEPT ![q] = n]
  BY <1>1, <1>3 DEF Demandes, Etapes, ApresPose, PoserPairAssiste, Aller
<1>. HIDE DEF n
<1>5. /\ fichier' \subseteq Appareils \X Adresses /\ deranges' \subseteq Appareils
      /\ r.a \in deranges' \/ Seul(fichier', r.a, r.x)
      /\ AutresGardes(r.a) /\ aleas' \in 0..MaxAleas
  BY <1>2, PoserLePairGarde DEF PoserPairAssiste
<1>6. requete'[q] = n
  BY <1>3, <1>4
<1>7. Retabli(r.a)
  <2>1. r.a \in DerangePar(q)'
    BY <1>2, <1>4, <1>6 DEF DerangePar, ApresPose, Adresses, SansAdresse
  <2>2. QED
    BY <2>1 DEF Retabli, Droit, Derange, PoserPairAssiste, PoserLePair, tables
<1>8. AuTravail(r) /\ r.etape \notin ApresPair /\ Perdu1(r, invitation) = {}
  BY <1>1, <1>2 DEF AuTravail, Assistes, ApresPair, Perdu1, ApresBrulure, Adresses, SansAdresse
<1>9. Tient(n, invitation, fiche, pose, fichier', deranges')
  BY <1>2, <1>4, <1>5 DEF Tient, TientAssiste, Rappels, ApresJeton, ApresBrulure, Assistes, ApresPair
<1>10. Suit(r, n)
  BY <1>1, <1>4, <1>8 DEF Suit, Rappels, ApresJeton, ApresBrulure
<1>11. UNCHANGED <<tables, pose, perdues>>
  BY DEF PoserPairAssiste, PoserLePair
<1>12. QED
  BY <1>2, <1>4, <1>5, <1>7, <1>8, <1>9, <1>10, <1>11, FichierChange

\* A router whose peer goes, or is displaced, is noted down.
LEMMA NoteGarde ==
  ASSUME fichier \in SUBSET (Appareils \X Adresses), fichier' \subseteq Appareils \X Adresses,
         deranges' = deranges \union {p[1] : p \in fichier \ fichier'},
         \A b \in Appareils, y \in Adresses :
           Seul(fichier, b, y) /\ <<b, y>> \in fichier' => Seul(fichier', b, y)
  PROVE  \A b \in Appareils : Garde(b)
<1>1. SUFFICES ASSUME NEW b \in Appareils, NEW y \in Adresses, Seul(fichier, b, y), b \notin deranges'
               PROVE  Seul(fichier', b, y)
  BY DEF Garde
<1>2. <<b, y>> \in fichier
  BY <1>1 DEF Seul
<1>3. <<b, y>> \in fichier'
  BY <1>1, <1>2
<1>4. QED
  BY <1>1, <1>3

LEMMA NoteRetabli ==
  ASSUME IInv, NEW a, Garde(a), NEW q \in Requetes, a \notin DerangePar(q),
         \A p \in Requetes : p # q => requete'[p] = requete[p],
         UNCHANGED <<tables, pose>>
  PROVE  Retabli(a)
<1>1. SUFFICES ASSUME NEW f \in Fiches, fiche[f].appareil = a, a # SansAppareil PROVE Droit(f)'
  BY DEF Retabli, Droit, tables
<1>2. a \in Appareils /\ fiche[f].adresse \in Adresses /\ Droit(f)
  BY <1>1 DEF IInv, TypeOK, LignesJustes, RouteursDroits
<1>3. ASSUME NEW p \in Requetes, a \in DerangePar(p) PROVE Derange(a)'
  <2>1. p # q
    BY <1>3
  <2>2. QED
    BY <1>3, <2>1 DEF Derange, DerangePar
<1>4. CASE Derange(a)
  BY <1>1, <1>3, <1>4 DEF Derange, Droit, Garde, tables
<1>5. CASE pose[a] = fiche[f].adresse /\ Seul(fichier, a, fiche[f].adresse)
  <2>1. a \in deranges' \/ Seul(fichier', a, fiche[f].adresse)
    BY <1>2, <1>5 DEF Garde
  <2>2. QED
    BY <1>1, <1>5, <2>1 DEF Droit, Derange, tables
<1>6. QED
  BY <1>1, <1>2, <1>4, <1>5 DEF Droit

LEMMA RetirerPairJuste ==
  ASSUME IInv, NEW q \in Requetes, RetirerPair(q)
  PROVE  IInv'
<1>. DEFINE r == requete[q]
            n == [r EXCEPT !.etape = "suppression"]
<1>1. /\ r \in Demandes /\ r.etape = "retraitPair"
      /\ Tient(r, invitation, fiche, pose, fichier, deranges)
  BY DEF IInv, TypeOK, Demandes, RequetesJustes, RetirerPair, En
<1>2. requete \in [Requetes -> Demandes]
  BY InvitationsTypees
<1>3. /\ n \in Demandes /\ n.etape = "suppression" /\ n.i = r.i /\ n.a = r.a /\ n.x = r.x /\ n.f = r.f
      /\ requete' = [requete EXCEPT ![q] = n]
  BY <1>1, <1>2 DEF Demandes, Etapes, ApresPose, RetirerPair, Aller
<1>. HIDE DEF n
<1>4. Tient(n, invitation, fiche, pose, fichier', deranges')
  BY <1>1, <1>3 DEF Tient, TientAutre, Rappels, ApresJeton, ApresBrulure, Assistes, ApresPair
<1>5. Suit(r, n) /\ r.etape \notin ApresPair /\ Perdu1(r, invitation) = {}
  BY <1>1, <1>3 DEF Suit, AuTravail, Rappels, ApresJeton, ApresBrulure, Assistes, ApresPair, Perdu1
<1>6. fichier \in SUBSET (Appareils \X Adresses) /\ deranges \subseteq Appareils
  BY DEF IInv, TypeOK
<1>7. /\ fichier' \subseteq fichier
      /\ deranges' = deranges \union {p[1] : p \in fichier \ fichier'}
  BY DEF RetirerPair
<1>8. fichier' \subseteq Appareils \X Adresses /\ deranges' \subseteq Appareils
  BY <1>6, <1>7
<1>9. \A b \in Appareils : Garde(b)
  <2>1. \A b \in Appareils, y \in Adresses :
          Seul(fichier, b, y) /\ <<b, y>> \in fichier' => Seul(fichier', b, y)
    BY <1>7 DEF Seul
  <2>2. QED
    BY <1>6, <1>7, <1>8, <2>1, NoteGarde
<1>10. Garde(r.a)
  <2>1. Garde(SansAppareil)
    BY <1>6, <1>7, RienDeTel DEF Garde, Seul
  <2>2. QED
    BY <1>1, <1>9, <2>1 DEF Demandes
<1>11. r.a \notin DerangePar(q)
  BY <1>1 DEF DerangePar, ApresPose, ApresBrulure
<1>12. \A p \in Requetes : p # q => requete'[p] = requete[p]
  BY <1>2, <1>3
<1>13. UNCHANGED <<tables, pose, perdues>> /\ aleas' \in 0..MaxAleas
  BY ConstantesEnrolement DEF RetirerPair, Compter, IInv, TypeOK
<1>14. Retabli(r.a)
  BY <1>10, <1>11, <1>12, <1>13, NoteRetabli
<1>15. AutresGardes(r.a) /\ r.a \in Appareils \union {SansAppareil}
  BY <1>1, <1>9 DEF AutresGardes, Demandes
<1>16. QED
  BY <1>3, <1>4, <1>5, <1>8, <1>10, <1>13, <1>14, <1>15, FichierChange

LEMMA ReposerPairJuste ==
  ASSUME IInv, NEW q \in Requetes, ReposerPair(q)
  PROVE  IInv'
<1>. DEFINE r == requete[q]
<1>1. /\ r \in Demandes /\ r.etape = "reecriture"
      /\ Tient(r, invitation, fiche, pose, fichier, deranges)
  BY DEF IInv, TypeOK, Demandes, RequetesJustes, ReposerPair, En
<1>2. r.a \in Appareils /\ r.x \in Adresses
  BY <1>1 DEF Tient, TientAutre, Rappels, ApresJeton, ApresBrulure, Assistes, ApresPair
<1>3. requete \in [Requetes -> Demandes] /\ requete' = [requete EXCEPT ![q] = Repos]
  BY InvitationsTypees DEF ReposerPair, Finir
<1>4. fichier \in SUBSET (Appareils \X Adresses) /\ deranges \subseteq Appareils
  BY DEF IInv, TypeOK
<1>5. /\ fichier' = AvecPair(fichier, r.a, r.x)
      /\ deranges' = deranges \union {p[1] : p \in fichier \ fichier'}
  BY DEF ReposerPair
<1>6. fichier' \subseteq Appareils \X Adresses /\ deranges' \subseteq Appareils
  BY <1>2, <1>4, <1>5, PairSeul
<1>7. \A b \in Appareils : Garde(b)
  <2>1. ASSUME NEW b \in Appareils, NEW y \in Adresses, Seul(fichier, b, y), <<b, y>> \in fichier'
        PROVE  Seul(fichier', b, y)
    <3>1. CASE b # r.a /\ y # r.x
      BY <1>2, <1>4, <1>5, <2>1, <3>1, PairSeul
    <3>2. CASE b = r.a \/ y = r.x
      <4>1. <<b, y>> \in fichier
        BY <2>1 DEF Seul
      <4>2. <<b, y>> = <<r.a, r.x>>
        BY <1>2, <1>4, <1>5, <2>1, <3>2, <4>1, PairSeul
      <4>3. QED
        BY <1>2, <1>4, <1>5, <4>2, PairSeul
    <3>3. QED
      BY <3>1, <3>2
  <2>2. QED
    BY <1>4, <1>5, <1>6, <2>1, NoteGarde
<1>8. r.a \notin DerangePar(q) /\ r.etape \notin ApresPair /\ Perdu1(r, invitation) = {}
  BY <1>1 DEF DerangePar, ApresPose, ApresBrulure, ApresPair, Perdu1
<1>9. \A p \in Requetes : p # q => requete'[p] = requete[p]
  BY <1>3
<1>10. UNCHANGED <<tables, pose, perdues>> /\ aleas' \in 0..MaxAleas
  BY DEF ReposerPair, IInv, TypeOK
<1>11. Retabli(r.a)
  BY <1>2, <1>7, <1>8, <1>9, <1>10, NoteRetabli
<1>12. AutresGardes(r.a) /\ Garde(r.a)
  BY <1>2, <1>7 DEF AutresGardes
<1>13. Suit(r, Repos) /\ Repos \in Demandes
         /\ Tient(Repos, invitation, fiche, pose, fichier', deranges')
  BY ReposJuste
<1>14. QED
  BY <1>2, <1>3, <1>6, <1>8, <1>10, <1>11, <1>12, <1>13, FichierChange

-----------------------------------------------------------------------------
(* Steps that change the rows.                                             *)

Lignes == [existe : BOOLEAN, hote : Appareils \union {SansAppareil, ParTunnel},
           adresse : Adresses \union {SansAdresse}, appareil : Appareils \union {SansAppareil}]

\* The indexes and the lines of the rows, and nothing else.
FichesEnRegle(fi) ==
  /\ fi \in [Fiches -> Lignes]
  /\ \A f, g \in Fiches : f # g =>
       /\ fi[f].adresse = fi[g].adresse => fi[f].adresse = SansAdresse
       /\ fi[f].appareil = fi[g].appareil => fi[f].appareil = SansAppareil
  /\ \A f \in Fiches :
       /\ fi[f].appareil = SansAppareil <=> fi[f].adresse = SansAdresse
       /\ fi[f].hote = ParTunnel \/ fi[f].appareil \in {SansAppareil, fi[f].hote}
       /\ ~fi[f].existe => fi[f] = PasDeFiche

LEMMA FichesTypees == IInv => FichesEnRegle(fiche)
BY DEF IInv, TypeOK, LignesJustes, FichesEnRegle, Lignes

\* What this row becomes agrees with what the request knows of it.
Suivie(r, nfi, f) ==
  /\ r.etape = "fiche" /\ r.f = f /\ nfi[f].existe => nfi[f].appareil = r.a
  /\ r.etape \in {"menage", "lien", "pair"} /\ nfi[f].appareil = r.a => nfi[f].adresse = r.x
  /\ r.etape \in {"menage", "lien"} /\ r.f = f /\ nfi[f].existe =>
       nfi[f].appareil = r.a /\ nfi[f].hote = ParTunnel
  /\ r.etape = "completion" /\ r.f = f /\ nfi[f].existe => nfi[f].hote = r.a
  /\ r.etape \in {"retraitPair", "suppression"} /\ r.f = f /\ r.a # SansAppareil /\ nfi[f].existe =>
       nfi[f].appareil = r.a

LEMMA TientSuivie ==
  ASSUME NEW r \in Demandes, NEW inv, NEW fi, NEW nfi, NEW po, NEW pairs, NEW der, NEW f \in Fiches,
         Tient(r, inv, fi, po, pairs, der), Suivie(r, nfi, f),
         \A g \in Fiches : g # f => nfi[g] = fi[g]
  PROVE  Tient(r, inv, nfi, po, pairs, der)
<1>1. CASE r.etape \in Rappels
  <2>1. TientRappel(r, inv, fi, po)
    BY <1>1 DEF Tient
  <2>2. TientRappel(r, inv, nfi, po)
    BY <2>1 DEF TientRappel, Suivie, Demandes
  <2>3. QED
    BY <1>1, <2>2 DEF Tient
<1>2. CASE r.etape \notin Rappels /\ r.etape \in Assistes
  BY <1>2 DEF Tient, TientAssiste, Suivie
<1>3. CASE r.etape \notin Rappels /\ r.etape \notin Assistes
  BY <1>3 DEF Tient, TientAutre, Suivie
<1>4. QED
  BY <1>1, <1>2, <1>3

LEMMA FichesChangees ==
  ASSUME IInv, NEW q \in Requetes, NEW n \in Demandes, NEW f \in Fiches,
         requete' = [requete EXCEPT ![q] = n], Suit(requete[q], n),
         FichesEnRegle(fiche'), InvitationsEnRegle(invitation', fiche'),
         \A g \in Fiches : g # f => fiche'[g] = fiche[g],
         \A i \in Invitations : Douce(invitation, invitation', i),
         \A p \in Requetes : p # q => Suivie(requete[p], fiche', f),
         Tient(n, invitation', fiche', pose, fichier, deranges),
         \A i \in Invitations : invitation'[i].etat = "servie" =>
           /\ invitation'[i] = invitation[i]
           /\ i \in Perdu1(requete[q], invitation) \/ invitation[i].fiche = f => i \in Perdu1(n, invitation'),
         Droit(f)', \A g \in Fiches : fiche'[g].appareil \in Derange1(requete[q]) => Droit(g)',
         UNCHANGED <<fichier, pose, temoins, aleas>>
  PROVE  IInv'
<1>1. requete \in [Requetes -> Demandes] /\ invitation \in [Invitations -> Lettres]
  BY InvitationsTypees DEF InvitationsEnRegle
<1>2. requete'[q] = n /\ \A p \in Requetes : p # q => requete'[p] = requete[p]
  BY <1>1
<1>3. TypeOK'
  <2>1. requete' \in [Requetes -> Demandes]
    BY <1>1
  <2>2. QED
    BY <2>1 DEF IInv, TypeOK, Demandes, Lettres, Lignes, FichesEnRegle, InvitationsEnRegle, temoins
<1>4. LignesJustes'
  BY DEF LignesJustes, FichesEnRegle, InvitationsEnRegle
<1>5. RequetesJustes'
  <2>1. SUFFICES ASSUME NEW p \in Requetes
                 PROVE  Tient(requete'[p], invitation', fiche', pose', fichier', deranges')
    BY DEF RequetesJustes
  <2>2. CASE p = q
    BY <1>2, <2>2 DEF temoins
  <2>3. CASE p # q
    <3>1. Tient(requete[p], invitation, fiche, pose, fichier, deranges)
      BY DEF IInv, RequetesJustes
    <3>2. Tient(requete[p], invitation', fiche, pose, fichier, deranges)
      BY <1>1, <3>1, TientDouce
    <3>3. requete[p] \in Demandes /\ Suivie(requete[p], fiche', f)
      BY <1>1, <2>3
    <3>4. Tient(requete[p], invitation', fiche', pose, fichier, deranges)
      BY <3>2, <3>3, TientSuivie
    <3>5. QED
      BY <1>2, <2>3, <3>4 DEF temoins
  <2>4. QED
    BY <2>2, <2>3
<1>6. Exclusives'
  BY ResteExclusif DEF IInv
<1>7. ServiesRendues'
  <2>1. SUFFICES ASSUME NEW i \in Invitations, invitation'[i].etat = "servie" PROVE Rendue(i)'
    BY DEF ServiesRendues
  <2>2. invitation'[i] = invitation[i] /\ Rendue(i)
    BY <2>1 DEF IInv, ServiesRendues
  <2>3. CASE i \in Perdu1(n, invitation')
    BY <1>2, <2>3 DEF Rendue, PerduPar, Perdu1
  <2>4. CASE i \notin Perdu1(requete[q], invitation) /\ invitation[i].fiche # f
    <3>1. ASSUME NEW p \in Requetes, i \in PerduPar(p) PROVE i \in PerduPar(p)'
      <4>1. p # q
        BY <2>4, <3>1 DEF PerduPar, Perdu1
      <4>2. QED
        BY <1>2, <2>2, <3>1, <4>1 DEF PerduPar
    <3>2. invitation[i].fiche # SansFiche => fiche'[invitation[i].fiche] = fiche[invitation[i].fiche]
      BY <1>1, <2>4 DEF Lettres
    <3>3. QED
      BY <2>2, <3>1, <3>2 DEF Rendue, temoins
  <2>5. QED
    BY <2>1, <2>3, <2>4
<1>8. RouteursDroits'
  <2>1. SUFFICES ASSUME NEW g \in Fiches, g # f, fiche[g].appareil \notin Derange1(requete[q])
                 PROVE  Droit(g)'
    BY DEF RouteursDroits
  <2>2. fiche'[g] = fiche[g] /\ Droit(g)
    BY <2>1 DEF IInv, RouteursDroits
  <2>3. Derange(fiche[g].appareil) => fiche[g].appareil \in deranges'
          \/ \E p \in Requetes : fiche[g].appareil \in DerangePar(p)'
    <3>1. ASSUME NEW p \in Requetes, fiche[g].appareil \in DerangePar(p)
          PROVE  fiche[g].appareil \in DerangePar(p)'
      <4>1. p # q
        BY <2>1, <3>1, VuesDUneDemande
      <4>2. QED
        BY <1>2, <2>2, <3>1, <4>1 DEF DerangePar
    <3>2. QED
      BY <2>2, <3>1 DEF Derange, temoins
  <2>4. QED
    BY <2>2, <2>3 DEF Droit, Derange
<1>9. QED
  BY <1>3, <1>4, <1>5, <1>6, <1>7, <1>8 DEF IInv

\* Nobody else connects the router of a request that has burnt its token, or that
\* works without one.
LEMMA SeulAuTravail ==
  ASSUME IInv, NEW q \in Requetes, AuTravail(requete[q]),
         requete[q].etape \in ApresJeton \/ requete[q].etape \notin Rappels,
         NEW p \in Requetes, p # q, requete[p].a = requete[q].a
  PROVE  /\ requete[p].etape \notin ApresJeton
         /\ requete[p].etape # "completion"
<1>1. Tient(requete[p], invitation, fiche, pose, fichier, deranges)
  BY DEF IInv, RequetesJustes
<1>2. CASE requete[p].etape \in ApresJeton
  <2>1. requete[p].x # SansAdresse /\ requete[p].etape \in Rappels
    BY <1>1, <1>2 DEF Tient, TientRappel, Rappels, Adresses, SansAdresse
  <2>2. QED
    BY <1>2, <2>1 DEF AuTravail, IInv, Exclusives
<1>3. CASE requete[p].etape = "completion"
  <2>1. requete[p].x # SansAdresse /\ requete[p].etape \notin Rappels /\ requete[p].etape \in Assistes
    BY <1>1, <1>3 DEF Tient, TientAssiste, Rappels, ApresJeton, ApresBrulure, Assistes, ApresPair,
                      Adresses, SansAdresse
  <2>2. QED
    BY <2>1 DEF AuTravail, IInv, Exclusives
<1>4. QED
  BY <1>2, <1>3

LEMMA EcrireFicheJuste ==
  ASSUME IInv, NEW q \in Requetes, EcrireFiche(q)
  PROVE  IInv'
<1>. DEFINE r == requete[q]
<1>1. /\ r \in Demandes /\ r.etape = "fiche"
      /\ Tient(r, invitation, fiche, pose, fichier, deranges)
  BY DEF IInv, TypeOK, Demandes, RequetesJustes, EcrireFiche, En
<1>2. CASE Refuser(q)
  BY <1>2, RefuserJuste
<1>3. ASSUME NEW f \in Fiches,
             IF r.f = SansFiche THEN NeuveFiche(f) ELSE f = r.f /\ fiche[f].existe,
             Unique(f, r.x, r.a),
             fiche' = [fiche EXCEPT ![f] =
               [existe |-> TRUE, hote |-> ParTunnel, adresse |-> r.x, appareil |-> r.a]],
             requete' = [requete EXCEPT ![q].f = f, ![q].etape = "menage"],
             UNCHANGED <<invitation, fichier, pose, temoins, aleas>>
      PROVE  IInv'
  <2>. DEFINE n == [r EXCEPT !.f = f, !.etape = "menage"]
              l == [existe |-> TRUE, hote |-> ParTunnel, adresse |-> r.x, appareil |-> r.a]
  <2>1. TientRappel(r, invitation, fiche, pose)
    BY <1>1 DEF Tient, Rappels, ApresJeton, ApresBrulure
  <2>2. r.i \in Invitations /\ r.a \in Appareils /\ r.x \in Adresses
          /\ AuTravail(r) /\ r.etape \in ApresJeton
    BY <1>1, <2>1 DEF TientRappel, AuTravail, Rappels, ApresJeton, ApresBrulure, Adresses, SansAdresse
  <2>3. NeuveFiche(f) \/ (r.f = f /\ fiche[f].existe /\ fiche[f].appareil = r.a)
    BY <1>1, <1>3, <2>1 DEF TientRappel
  <2>4. /\ requete \in [Requetes -> Demandes] /\ InvitationsEnRegle(invitation, fiche)
        /\ FichesEnRegle(fiche)
    BY InvitationsTypees, FichesTypees
  <2>5. /\ n \in Demandes /\ n.etape = "menage" /\ n.f = f /\ n.i = r.i /\ n.a = r.a /\ n.x = r.x
        /\ requete' = [requete EXCEPT ![q] = n]
    BY <1>1, <1>3, <2>4 DEF Demandes, Etapes, ApresPose, ApresBrulure
  <2>6. /\ l \in Lignes /\ l.existe /\ l.hote = ParTunnel /\ l.adresse = r.x /\ l.appareil = r.a
        /\ fiche' = [fiche EXCEPT ![f] = l]
    BY <1>3, <2>2 DEF Lignes
  <2>. HIDE DEF n, l
  <2>7. fiche'[f] = l /\ \A g \in Fiches : g # f => fiche'[g] = fiche[g]
    BY <2>4, <2>6 DEF FichesEnRegle
  <2>8. \A g \in Fiches : g # f => fiche'[g].adresse # r.x /\ fiche'[g].appareil # r.a
    BY <1>3, <2>7 DEF Unique
  <2>9. FichesEnRegle(fiche')
    <3>1. fiche' \in [Fiches -> Lignes]
      BY <2>4, <2>6 DEF FichesEnRegle
    <3>2. r.a # SansAppareil /\ r.x # SansAdresse
      BY <2>2, RienDeTel DEF Adresses, SansAdresse
    <3>3. QED
      BY <2>4, <2>6, <2>7, <2>8, <3>1, <3>2 DEF FichesEnRegle
  <2>10. InvitationsEnRegle(invitation', fiche')
    BY <1>3, <2>4, <2>6, <2>7 DEF InvitationsEnRegle, Lettres
  <2>11. ASSUME NEW p \in Requetes, p # q PROVE Suivie(requete[p], fiche', f)
    <3>1. /\ Tient(requete[p], invitation, fiche, pose, fichier, deranges)
          /\ requete[p] \in Demandes
      BY <2>4 DEF IInv, RequetesJustes
    <3>2. requete[p].a = r.a => requete[p].etape \notin ApresJeton /\ requete[p].etape # "completion"
      BY <2>2, <2>11, SeulAuTravail
    <3>3. CASE requete[p].f # f
      BY <2>6, <2>7, <3>2, <3>3 DEF Suivie, ApresJeton, ApresBrulure
    <3>4. CASE requete[p].f = f
      <4>1. fiche[f].existe /\ fiche[f].appareil = r.a
        BY <2>3, <3>4 DEF NeuveFiche
      <4>2. requete[p].etape = "fiche" \/ requete[p].etape \in {"menage", "lien"} => requete[p].a = r.a
        BY <3>1, <3>4, <4>1, RienDeTel
        DEF Tient, TientRappel, Rappels, ApresJeton, ApresBrulure
      <4>3. requete[p].etape = "completion" => requete[p].a = r.a
        <5>1. ASSUME requete[p].etape = "completion" PROVE requete[p].a = r.a
          <6>1. requete[p].a \in Appareils /\ fiche[f].hote = requete[p].a
            BY <3>1, <3>4, <4>1, <5>1
            DEF Tient, TientAssiste, Rappels, ApresJeton, ApresBrulure, Assistes, ApresPair
          <6>2. QED
            BY <2>2, <2>4, <4>1, <6>1, RienDeTel DEF FichesEnRegle
        <5>2. QED
          BY <5>1
      <4>4. requete[p].etape \in {"retraitPair", "suppression"} /\ requete[p].a # SansAppareil =>
              requete[p].a = r.a
        BY <3>1, <3>4, <4>1 DEF Tient, TientAutre, Rappels, ApresJeton, ApresBrulure, Assistes, ApresPair
      <4>5. QED
        BY <2>6, <2>7, <3>2, <4>2, <4>3, <4>4 DEF Suivie, ApresJeton, ApresBrulure
    <3>5. QED
      BY <3>3, <3>4
  <2>12. Tient(n, invitation', fiche', pose, fichier, deranges)
    <3>1. TientRappel(n, invitation, fiche', pose)
      BY <1>1, <2>1, <2>2, <2>5, <2>6, <2>7, <2>8 DEF TientRappel, ApresJeton, ApresBrulure
    <3>2. QED
      BY <1>3, <2>5, <3>1 DEF Tient, Rappels, ApresJeton, ApresBrulure
  <2>13. Suit(r, n)
    BY <2>2, <2>5 DEF Suit, Rappels, ApresJeton, ApresBrulure
  <2>14. \A i \in Invitations : Douce(invitation, invitation', i)
    BY <1>3 DEF Douce
  <2>15. \A i \in Invitations :
           i \in Perdu1(r, invitation) \/ invitation[i].fiche = f => i \in Perdu1(n, invitation)
    BY <1>1, <2>5 DEF Perdu1, ApresBrulure
  <2>16. Droit(f)' /\ \A g \in Fiches : fiche'[g].appareil \in Derange1(r) => Droit(g)'
    <3>1. requete'[q] = n
      BY <2>4, <2>5
    <3>2. r.a \in DerangePar(q)'
      BY <2>2, <2>5, <3>1 DEF DerangePar, ApresPose, ApresBrulure, Adresses, SansAdresse
    <3>3. \A g \in Fiches : fiche'[g].appareil = r.a => Droit(g)'
      BY <3>2 DEF Droit, Derange
    <3>4. QED
      BY <2>6, <2>7, <3>3 DEF Derange1
  <2>17. QED
    BY <1>3, <2>5, <2>7, <2>9, <2>10, <2>11, <2>12, <2>13, <2>14, <2>15, <2>16, FichesChangees
<1>4. QED
  BY <1>2, <1>3 DEF EcrireFiche

LEMMA InscrireFicheJuste ==
  ASSUME IInv, NEW q \in Requetes, InscrireFiche(q)
  PROVE  IInv'
<1>. DEFINE r == requete[q]
            l == [PasDeFiche EXCEPT !.existe = TRUE, !.hote = r.a]
<1>1. /\ r \in Demandes /\ r.etape = "inscription"
      /\ Tient(r, invitation, fiche, pose, fichier, deranges)
  BY DEF IInv, TypeOK, Demandes, RequetesJustes, InscrireFiche, En
<1>2. PICK f \in Fiches :
        /\ NeuveFiche(f)
        /\ fiche' = [fiche EXCEPT ![f] = l]
        /\ requete' = IF r.x = SansAdresse THEN [requete EXCEPT ![q] = Repos]
                      ELSE [requete EXCEPT ![q].f = f, ![q].etape = "completion"]
  BY DEF InscrireFiche
<1>3. UNCHANGED <<invitation, fichier, pose, temoins, aleas>>
  BY DEF InscrireFiche
<1>4. TientAssiste(r, fiche, pose, fichier, deranges) /\ r.a \in Appareils
  BY <1>1 DEF Tient, TientAssiste, Rappels, ApresJeton, ApresBrulure, Assistes, ApresPair
<1>5. /\ requete \in [Requetes -> Demandes] /\ InvitationsEnRegle(invitation, fiche)
      /\ FichesEnRegle(fiche)
  BY InvitationsTypees, FichesTypees
<1>6. l \in Lignes /\ l.existe /\ l.hote = r.a /\ l.adresse = SansAdresse /\ l.appareil = SansAppareil
  BY <1>4 DEF PasDeFiche, Lignes
<1>. HIDE DEF l
<1>7. fiche'[f] = l /\ \A g \in Fiches : g # f => fiche'[g] = fiche[g]
  BY <1>2, <1>5 DEF FichesEnRegle
<1>8. FichesEnRegle(fiche')
  <2>1. fiche' \in [Fiches -> Lignes]
    BY <1>2, <1>5, <1>6 DEF FichesEnRegle
  <2>2. QED
    BY <1>5, <1>6, <1>7, <2>1 DEF FichesEnRegle
<1>9. \A i \in Invitations : invitation[i].fiche # f
  BY <1>2 DEF NeuveFiche
<1>10. InvitationsEnRegle(invitation', fiche')
  BY <1>3, <1>5, <1>7, <1>9 DEF InvitationsEnRegle, Lettres
<1>11. ASSUME NEW p \in Requetes, p # q PROVE Suivie(requete[p], fiche', f)
  <2>1. requete[p].f # f
    BY <1>2 DEF NeuveFiche
  <2>2. requete[p].etape \in {"menage", "lien", "pair"} => requete[p].a # SansAppareil
    <3>1. Tient(requete[p], invitation, fiche, pose, fichier, deranges)
      BY DEF IInv, RequetesJustes
    <3>2. QED
      BY <3>1, RienDeTel DEF Tient, TientRappel, Rappels, ApresJeton, ApresBrulure
  <2>3. QED
    BY <1>6, <1>7, <2>1, <2>2 DEF Suivie
<1>12. Droit(f)'
  BY <1>6, <1>7 DEF Droit
<1>13. Perdu1(r, invitation) = {} /\ \A i \in Invitations : Douce(invitation, invitation', i)
  BY <1>1, <1>3 DEF Perdu1, ApresBrulure, Douce
<1>14. CASE r.x = SansAdresse
  <2>1. requete' = [requete EXCEPT ![q] = Repos] /\ Derange1(r) = {}
    BY <1>2, <1>14 DEF Derange1
  <2>2. \A i \in Invitations : invitation'[i].etat = "servie" =>
           /\ invitation'[i] = invitation[i]
           /\ i \in Perdu1(r, invitation) \/ invitation[i].fiche = f => i \in Perdu1(Repos, invitation')
    BY <1>3, <1>9, <1>13
  <2>3. \A g \in Fiches : fiche'[g].appareil \in Derange1(r) => Droit(g)'
    BY <2>1
  <2>4. QED
    BY <1>3, <1>7, <1>8, <1>10, <1>11, <1>12, <1>13, <2>1, <2>2, <2>3, ReposJuste, FichesChangees
<1>15. CASE r.x # SansAdresse
  <2>. DEFINE n == [r EXCEPT !.f = f, !.etape = "completion"]
  <2>1. /\ n \in Demandes /\ n.etape = "completion" /\ n.f = f /\ n.i = r.i /\ n.a = r.a /\ n.x = r.x
        /\ requete' = [requete EXCEPT ![q] = n]
    BY <1>1, <1>2, <1>5, <1>15 DEF Demandes, Etapes, ApresPose
  <2>. HIDE DEF n
  <2>2. r.x \in Adresses
    BY <1>1, <1>15 DEF Demandes
  <2>3. Tient(n, invitation', fiche', pose, fichier, deranges)
    <3>1. TientAssiste(n, fiche', pose, fichier, deranges)
      BY <1>1, <1>4, <1>6, <1>7, <1>15, <2>1, <2>2 DEF TientAssiste, ApresPair
    <3>2. QED
      BY <2>1, <3>1 DEF Tient, Rappels, ApresJeton, ApresBrulure, Assistes, ApresPair
  <2>4. Suit(r, n)
    BY <1>1, <1>15, <2>1 DEF Suit, AuTravail, Rappels, ApresJeton, ApresBrulure, Assistes, ApresPair
  <2>5. \A g \in Fiches : fiche'[g].appareil \in Derange1(r) => Droit(g)'
    <3>1. requete'[q] = n
      BY <1>5, <2>1
    <3>2. r.a \in DerangePar(q)'
      BY <1>15, <2>1, <3>1 DEF DerangePar, ApresPose
    <3>3. \A g \in Fiches : fiche'[g].appareil = r.a => Droit(g)'
      BY <3>2 DEF Droit, Derange
    <3>4. QED
      BY <3>3 DEF Derange1
  <2>6. \A i \in Invitations : invitation'[i].etat = "servie" =>
           /\ invitation'[i] = invitation[i]
           /\ i \in Perdu1(r, invitation) \/ invitation[i].fiche = f => i \in Perdu1(n, invitation')
    BY <1>3, <1>9, <1>13
  <2>7. n \in Demandes /\ requete' = [requete EXCEPT ![q] = n]
    BY <2>1
  <2>8. \A g \in Fiches : g # f => fiche'[g] = fiche[g]
    BY <1>7
  <2>9. \A i \in Invitations : Douce(invitation, invitation', i)
    BY <1>13
  <2>10. QED
    BY <1>3, <1>8, <1>10, <1>11, <1>12, <2>3, <2>4, <2>5, <2>6, <2>7, <2>8, <2>9, FichesChangees
<1>16. QED
  BY <1>14, <1>15

LEMMA CompleterJuste ==
  ASSUME IInv, NEW q \in Requetes, Completer(q)
  PROVE  IInv'
<1>. DEFINE r == requete[q]
<1>1. /\ r \in Demandes /\ r.etape = "completion"
      /\ Tient(r, invitation, fiche, pose, fichier, deranges)
  BY DEF IInv, TypeOK, Demandes, RequetesJustes, Completer, En
<1>2. CASE Refuser(q)
  BY <1>2, RefuserJuste
<1>3. r.f \in Fiches
  BY <1>1 DEF Tient, TientAssiste, Rappels, ApresJeton, ApresBrulure, Assistes, ApresPair
<1>4. ASSUME NEW f \in Fiches, f = r.f, fiche[f].existe, Unique(f, r.x, r.a),
             fiche' = [fiche EXCEPT ![f].adresse = r.x, ![f].appareil = r.a], Finir(q),
             UNCHANGED <<invitation, fichier, pose, temoins, aleas>>
      PROVE  IInv'
  <2>. DEFINE l == [fiche[f] EXCEPT !.adresse = r.x, !.appareil = r.a]
  <2>1. /\ r.i = SansInvitation /\ r.a \in Appareils /\ r.x \in Adresses /\ pose[r.a] = r.x
        /\ r.a \in deranges \/ Seul(fichier, r.a, r.x)
        /\ fiche[f].hote = r.a
    BY <1>1, <1>4
    DEF Tient, TientAssiste, Rappels, ApresJeton, ApresBrulure, Assistes, ApresPair, Adresses, SansAdresse
  <2>2. AuTravail(r) /\ r.etape \notin Rappels
    BY <1>1, <2>1
    DEF AuTravail, Rappels, ApresJeton, ApresBrulure, Assistes, ApresPair, Adresses, SansAdresse
  <2>3. /\ requete \in [Requetes -> Demandes] /\ InvitationsEnRegle(invitation, fiche)
        /\ FichesEnRegle(fiche)
    BY InvitationsTypees, FichesTypees
  <2>4. /\ l \in Lignes /\ l.existe /\ l.hote = r.a /\ l.adresse = r.x /\ l.appareil = r.a
        /\ fiche' = [fiche EXCEPT ![f] = l]
    BY <1>4, <2>1, <2>3 DEF Lignes, FichesEnRegle
  <2>. HIDE DEF l
  <2>5. fiche'[f] = l /\ \A g \in Fiches : g # f => fiche'[g] = fiche[g]
    BY <2>1, <2>3, <2>4 DEF FichesEnRegle
  <2>6. \A g \in Fiches : g # f => fiche'[g].adresse # r.x /\ fiche'[g].appareil # r.a
    BY <1>4, <2>5 DEF Unique
  <2>7. FichesEnRegle(fiche')
    <3>1. fiche' \in [Fiches -> Lignes]
      BY <2>3, <2>4 DEF FichesEnRegle
    <3>2. r.a # SansAppareil /\ r.x # SansAdresse
      BY <2>1, RienDeTel DEF Adresses, SansAdresse
    <3>3. QED
      BY <2>3, <2>4, <2>5, <2>6, <3>1, <3>2 DEF FichesEnRegle
  <2>8. \A i \in Invitations : invitation[i].fiche # f
    BY <2>1, <2>3, RienDeTel DEF InvitationsEnRegle
  <2>0. UNCHANGED <<invitation, fichier, pose, temoins, aleas>>
    BY <1>4
  <2>9. InvitationsEnRegle(invitation', fiche')
    BY <2>3, <2>5, <2>8, <2>0 DEF InvitationsEnRegle, Lettres
  <2>10. fiche[f].appareil \in {SansAppareil, r.a}
    BY <2>1, <2>3, RienDeTel DEF FichesEnRegle
  <2>11. ASSUME NEW p \in Requetes, p # q PROVE Suivie(requete[p], fiche', f)
    <3>1. Tient(requete[p], invitation, fiche, pose, fichier, deranges)
      BY DEF IInv, RequetesJustes
    <3>2. requete[p].a = r.a => requete[p].etape \notin ApresJeton /\ requete[p].etape # "completion"
      BY <2>2, <2>11, SeulAuTravail
    <3>3. requete[p].etape = "fiche" /\ requete[p].f = f => requete[p].a = r.a
      BY <1>4, <2>1, <2>10, <3>1, RienDeTel
      DEF Tient, TientRappel, Rappels, ApresJeton, ApresBrulure
    <3>4. ~(requete[p].etape \in {"menage", "lien"} /\ requete[p].f = f)
      <4>1. requete[p].etape \in {"menage", "lien"} => TientRappel(requete[p], invitation, fiche, pose)
        BY <3>1 DEF Tient, Rappels, ApresJeton, ApresBrulure
      <4>2. QED
        BY <1>4, <2>1, <4>1, RienDeTel DEF TientRappel
    <3>5. requete[p].etape = "completion" /\ requete[p].f = f => requete[p].a = r.a
      <4>1. requete[p].etape = "completion" => TientAssiste(requete[p], fiche, pose, fichier, deranges)
        BY <3>1 DEF Tient, Rappels, ApresJeton, ApresBrulure, Assistes, ApresPair
      <4>2. QED
        BY <1>4, <2>1, <4>1 DEF TientAssiste
    <3>6. requete[p].etape \in {"retraitPair", "suppression"} /\ requete[p].f = f
            /\ requete[p].a # SansAppareil => requete[p].a = r.a
      BY <1>4, <2>10, <3>1 DEF Tient, TientAutre, Rappels, ApresJeton, ApresBrulure, Assistes, ApresPair
    <3>7. QED
      BY <2>4, <2>5, <3>2, <3>3, <3>4, <3>5, <3>6 DEF Suivie, ApresJeton, ApresBrulure
  <2>12. requete' = [requete EXCEPT ![q] = Repos]
    BY <1>4 DEF Finir
  <2>13. Perdu1(r, invitation) = {} /\ \A i \in Invitations : Douce(invitation, invitation', i)
    BY <1>1, <1>4 DEF Perdu1, ApresBrulure, Douce
  <2>14. Droit(f)'
    BY <1>4, <2>1, <2>4, <2>5 DEF Droit, Derange, temoins
  <2>15. \A g \in Fiches : fiche'[g].appareil \in Derange1(r) => Droit(g)'
    BY <2>6, <2>14 DEF Derange1
  <2>16. \A i \in Invitations : invitation'[i].etat = "servie" =>
           /\ invitation'[i] = invitation[i]
           /\ i \in Perdu1(r, invitation) \/ invitation[i].fiche = f => i \in Perdu1(Repos, invitation')
    BY <2>8, <2>13, <2>0
  <2>17. QED
    BY <2>5, <2>7, <2>9, <2>11, <2>12, <2>13, <2>14, <2>15, <2>16, <2>0, ReposJuste, FichesChangees
<1>5. QED
  BY <1>2, <1>3, <1>4 DEF Completer

LEMMA EffacerFicheJuste ==
  ASSUME IInv, NEW q \in Requetes, EffacerFiche(q)
  PROVE  IInv'
<1>. DEFINE r == requete[q]
<1>1. /\ r \in Demandes /\ r.etape = "suppression"
      /\ Tient(r, invitation, fiche, pose, fichier, deranges)
  BY DEF IInv, TypeOK, Demandes, RequetesJustes, EffacerFiche, En
<1>2. CASE Refuser(q)
  BY <1>2, RefuserJuste
<1>3. r.f \in Fiches
        /\ (r.a = SansAppareil <=> r.x = SansAdresse)
        /\ (r.a # SansAppareil /\ fiche[r.f].existe => fiche[r.f].appareil = r.a)
  BY <1>1 DEF Tient, TientAutre, Rappels, ApresJeton, ApresBrulure, Assistes, ApresPair
<1>4. ASSUME NEW f \in Fiches, f = r.f, fiche[f].existe, fiche' = [fiche EXCEPT ![f] = PasDeFiche],
             invitation' = [i \in Invitations |->
               IF invitation[i].fiche = f THEN PasDInvitation ELSE invitation[i]],
             Finir(q), UNCHANGED <<fichier, pose, temoins, aleas>>
      PROVE  IInv'
  <2>1. UNCHANGED <<fichier, pose, temoins, aleas>>
    BY <1>4
  <2>2. /\ requete \in [Requetes -> Demandes] /\ InvitationsEnRegle(invitation, fiche)
        /\ FichesEnRegle(fiche)
    BY InvitationsTypees, FichesTypees
  <2>3. /\ PasDeFiche \in Lignes /\ ~PasDeFiche.existe /\ PasDeFiche.adresse = SansAdresse
        /\ PasDeFiche.appareil = SansAppareil
    BY DEF PasDeFiche, Lignes
  <2>4. fiche'[f] = PasDeFiche /\ \A g \in Fiches : g # f => fiche'[g] = fiche[g]
    BY <1>4, <2>2 DEF FichesEnRegle
  <2>5. FichesEnRegle(fiche')
    <3>1. fiche' \in [Fiches -> Lignes]
      BY <1>4, <2>2, <2>3 DEF FichesEnRegle
    <3>2. QED
      BY <2>2, <2>3, <2>4, <3>1 DEF FichesEnRegle
  <2>6. PasDInvitation \in Lettres /\ PasDInvitation.etat = "absente"
          /\ PasDInvitation.adresse = SansAdresse /\ PasDInvitation.fiche = SansFiche
    BY DEF PasDInvitation, Lettres
  <2>7. /\ invitation' \in [Invitations -> Lettres]
        /\ \A i \in Invitations : invitation'[i] = PasDInvitation
             \/ (invitation'[i] = invitation[i] /\ invitation[i].fiche # f)
    BY <1>4, <2>2, <2>6 DEF InvitationsEnRegle
  <2>8. InvitationsEnRegle(invitation', fiche')
    <3>1. \A i, j \in Invitations : i # j =>
            /\ invitation'[i].adresse = invitation'[j].adresse => invitation'[i].adresse = SansAdresse
            /\ invitation'[i].fiche = invitation'[j].fiche => invitation'[i].fiche = SansFiche
      BY <2>2, <2>6, <2>7 DEF InvitationsEnRegle
    <3>2. \A i \in Invitations : invitation'[i].etat = "ouverte" => invitation'[i].adresse \in Adresses
      BY <2>2, <2>6, <2>7 DEF InvitationsEnRegle
    <3>3. \A i \in Invitations :
            invitation'[i].fiche # SansFiche =>
              invitation'[i].etat = "servie" /\ fiche'[invitation'[i].fiche].hote = ParTunnel
      BY <2>2, <2>4, <2>6, <2>7 DEF InvitationsEnRegle, Lettres
    <3>4. QED
      BY <2>7, <3>1, <3>2, <3>3 DEF InvitationsEnRegle
  <2>9. \A i \in Invitations : Douce(invitation, invitation', i)
    BY <2>6, <2>7 DEF Douce
  <2>10. requete' = [requete EXCEPT ![q] = Repos]
    BY <1>4 DEF Finir
  <2>11. Perdu1(r, invitation) = {}
    BY <1>1 DEF Perdu1, ApresBrulure
  <2>12. \A i \in Invitations : invitation'[i].etat = "servie" =>
           /\ invitation'[i] = invitation[i]
           /\ i \in Perdu1(r, invitation) \/ invitation[i].fiche = f => i \in Perdu1(Repos, invitation')
    BY <2>6, <2>7, <2>11
  <2>13. ASSUME NEW p \in Requetes, p # q PROVE Suivie(requete[p], fiche', f)
    <3>1. Tient(requete[p], invitation, fiche, pose, fichier, deranges)
      BY DEF IInv, RequetesJustes
    <3>2. requete[p].etape \in {"menage", "lien", "pair"} => requete[p].a # SansAppareil
      BY <3>1, RienDeTel DEF Tient, TientRappel, Rappels, ApresJeton, ApresBrulure
    <3>3. QED
      BY <2>3, <2>4, <3>2 DEF Suivie
  <2>14. Droit(f)'
    BY <2>3, <2>4 DEF Droit
  <2>15. \A g \in Fiches : fiche'[g].appareil \in Derange1(r) => Droit(g)'
    <3>1. SUFFICES ASSUME NEW g \in Fiches, g # f, fiche'[g].appareil \in Derange1(r)
                   PROVE  FALSE
      BY <2>14
    <3>2. fiche[g].appareil = r.a /\ r.a # SansAppareil
      BY <1>3, <2>4, <3>1 DEF Derange1
    <3>3. fiche[f].appareil = r.a
      BY <1>3, <1>4, <3>2
    <3>4. QED
      BY <2>2, <3>1, <3>2, <3>3 DEF FichesEnRegle
  <2>16. QED
    BY <2>1, <2>4, <2>5, <2>8, <2>9, <2>10, <2>12, <2>13, <2>14, <2>15, ReposJuste, FichesChangees
<1>5. QED
  BY <1>2, <1>3, <1>4 DEF EffacerFiche

-----------------------------------------------------------------------------
(* A restart, and the invariant.                                           *)

\* A peer that is written is the one of its row, and alone; one that could not be is
\* as it was, and no other touches it.
LEMMA PairsSeuls ==
  ASSUME IInv, Redemarrer
  PROVE  /\ fichier' \subseteq Appareils \X Adresses
         /\ \A f \in Fiches : fiche[f].appareil # SansAppareil
                             /\ Seul(fichier, fiche[f].appareil, fiche[f].adresse) =>
              Seul(fichier', fiche[f].appareil, fiche[f].adresse)
<1>1. FichesEnRegle(fiche) /\ fichier \subseteq Appareils \X Adresses
  BY FichesTypees DEF IInv, TypeOK
<1>2. PICK ecrits \in SUBSET PairsDesFiches :
        fichier' = ecrits \union {p \in fichier : \A e \in ecrits : p[1] # e[1] /\ p[2] # e[2]}
  BY DEF Redemarrer
<1>3. \A f \in Fiches : fiche[f].appareil # SansAppareil =>
        fiche[f].appareil \in Appareils /\ fiche[f].adresse \in Adresses
  BY <1>1 DEF FichesEnRegle, Lignes
<1>4. PairsDesFiches \subseteq Appareils \X Adresses
  BY <1>3 DEF PairsDesFiches
<1>5. ASSUME NEW f \in Fiches, fiche[f].appareil # SansAppareil,
             Seul(fichier, fiche[f].appareil, fiche[f].adresse)
      PROVE  Seul(fichier', fiche[f].appareil, fiche[f].adresse)
  <2>. DEFINE a == fiche[f].appareil
              x == fiche[f].adresse
  <2>1. ASSUME NEW e \in ecrits, e[1] = a \/ e[2] = x PROVE e = <<a, x>>
    <3>1. PICK g \in Fiches : fiche[g].appareil # SansAppareil
                                /\ e = <<fiche[g].appareil, fiche[g].adresse>>
      BY DEF PairsDesFiches
    <3>2. x # SansAdresse /\ fiche[g].adresse # SansAdresse
      BY <1>3, <1>5, <3>1 DEF Adresses, SansAdresse
    <3>3. f = g
      BY <1>1, <1>5, <2>1, <3>1, <3>2 DEF FichesEnRegle
    <3>4. QED
      BY <3>1, <3>3
  <2>2. \A p \in fichier' : p[1] = a \/ p[2] = x => p = <<a, x>>
    BY <1>2, <1>5, <2>1 DEF Seul
  <2>3. <<a, x>> \in fichier'
    <3>1. CASE <<a, x>> \in ecrits
      BY <1>2, <3>1
    <3>2. CASE <<a, x>> \notin ecrits
      <4>1. \A e \in ecrits : e[1] # a /\ e[2] # x
        BY <2>1, <3>2
      <4>2. <<a, x>> \in fichier
        BY <1>5 DEF Seul
      <4>3. QED
        BY <1>2, <4>1, <4>2
    <3>3. QED
      BY <3>1, <3>2
  <2>4. QED
    BY <2>2, <2>3 DEF Seul
<1>6. QED
  BY <1>1, <1>2, <1>4, <1>5

LEMMA RedemarrerJuste ==
  ASSUME IInv, Redemarrer
  PROVE  IInv'
<1>1. /\ requete' = [q \in Requetes |-> Repos]
      /\ deranges' = deranges \union UNION {DerangePar(q) : q \in Requetes}
      /\ perdues' = perdues \union UNION {PerduPar(q) : q \in Requetes}
      /\ UNCHANGED <<tables, pose>>
  BY DEF Redemarrer
<1>2. \A q \in Requetes : requete'[q] = Repos
  BY <1>1
<1>3. \A q \in Requetes : DerangePar(q) \subseteq Appareils /\ PerduPar(q) \subseteq Invitations
  BY SuitesTypees DEF IInv
<1>4. /\ deranges' \subseteq Appareils /\ deranges \subseteq deranges'
      /\ perdues' \subseteq Invitations /\ perdues \subseteq perdues'
      /\ \A q \in Requetes : DerangePar(q) \subseteq deranges' /\ PerduPar(q) \subseteq perdues'
  BY <1>1, <1>3 DEF IInv, TypeOK
<1>5. aleas' \in 0..MaxAleas
  BY ConstantesEnrolement DEF IInv, TypeOK, Redemarrer, Compter
<1>6. TypeOK'
  <2>1. requete' \in [Requetes -> Demandes]
    BY <1>1, ReposJuste
  <2>2. fichier' \subseteq Appareils \X Adresses
    BY PairsSeuls
  <2>3. QED
    BY <1>1, <1>4, <1>5, <2>1, <2>2 DEF IInv, TypeOK, Demandes, tables
<1>7. LignesJustes'
  BY <1>1 DEF IInv, LignesJustes, tables
<1>8. RequetesJustes'
  BY <1>2, ReposJuste DEF RequetesJustes
<1>9. Exclusives'
  BY <1>2 DEF Exclusives, Repos, AuTravail, Rappels, ApresJeton, ApresBrulure, Assistes, ApresPair
<1>10. ServiesRendues'
  BY <1>1, <1>4 DEF IInv, ServiesRendues, Rendue, tables
<1>11. RouteursDroits'
  <2>1. SUFFICES ASSUME NEW f \in Fiches, fiche[f].appareil # SansAppareil PROVE Droit(f)'
    BY <1>1 DEF RouteursDroits, Droit, tables
  <2>2. /\ Droit(f)
        /\ Seul(fichier, fiche[f].appareil, fiche[f].adresse) =>
             Seul(fichier', fiche[f].appareil, fiche[f].adresse)
    BY <2>1, PairsSeuls DEF IInv, RouteursDroits
  <2>3. Derange(fiche[f].appareil) => fiche[f].appareil \in deranges'
    BY <1>4 DEF Derange
  <2>4. QED
    BY <1>1, <2>1, <2>2, <2>3 DEF Droit, Derange, tables
<1>12. QED
  BY <1>6, <1>7, <1>8, <1>9, <1>10, <1>11 DEF IInv

LEMMA InitIInv == Init => IInv
<1>1. SUFFICES ASSUME Init PROVE IInv
  OBVIOUS
<1>2. /\ \A i \in Invitations : invitation[i] = PasDInvitation
      /\ \A f \in Fiches : fiche[f] = PasDeFiche
      /\ \A q \in Requetes : requete[q] = Repos
  BY <1>1 DEF Init
<1>3. TypeOK
  <2>1. /\ invitation \in [Invitations -> Lettres] /\ fiche \in [Fiches -> Lignes]
        /\ requete \in [Requetes -> Demandes]
        /\ pose \in [Appareils -> Adresses \union {SansAdresse}]
    BY <1>1, ReposJuste DEF Init, PasDInvitation, PasDeFiche, Lettres, Lignes
  <2>2. fichier = {} /\ deranges = {} /\ perdues = {} /\ aleas \in 0..MaxAleas
    BY <1>1, ConstantesEnrolement DEF Init
  <2>3. QED
    BY <1>2, <2>1, <2>2 DEF TypeOK, Lettres, Lignes, Demandes, PasDInvitation, PasDeFiche
<1>4. LignesJustes
  <2>1. PasDInvitation.etat = "absente" /\ PasDInvitation.fiche = SansFiche
          /\ PasDeFiche.appareil = SansAppareil /\ PasDeFiche.adresse = SansAdresse
    BY DEF PasDInvitation, PasDeFiche
  <2>2. QED
    BY <1>2, <2>1 DEF LignesJustes
<1>5. RequetesJustes
  BY <1>2, ReposJuste DEF RequetesJustes
<1>6. Exclusives
  BY <1>2 DEF Exclusives, Repos, AuTravail, Rappels, ApresJeton, ApresBrulure, Assistes, ApresPair
<1>7. ServiesRendues
  BY <1>2 DEF ServiesRendues, PasDInvitation
<1>8. RouteursDroits
  BY <1>2 DEF RouteursDroits, Droit, PasDeFiche
<1>9. QED
  BY <1>3, <1>4, <1>5, <1>6, <1>7, <1>8 DEF IInv

LEMMA RienNeBouge ==
  ASSUME IInv, UNCHANGED vars
  PROVE  IInv'
<1>1. UNCHANGED <<invitation, fiche, fichier, pose, requete, deranges, perdues, aleas>>
  BY DEF vars, tables, temoins
<1>2. TypeOK'
  BY <1>1 DEF IInv, TypeOK
<1>3. LignesJustes' /\ RequetesJustes' /\ Exclusives'
  BY <1>1 DEF IInv, LignesJustes, RequetesJustes, Exclusives, AuTravail
<1>4. ServiesRendues'
  BY <1>1 DEF IInv, ServiesRendues, Rendue, PerduPar
<1>5. RouteursDroits'
  BY <1>1 DEF IInv, RouteursDroits, Droit, Derange, DerangePar
<1>6. QED
  BY <1>2, <1>3, <1>4, <1>5 DEF IInv

LEMMA NextIInv == IInv /\ [Next]_vars => IInv'
<1>1. SUFFICES ASSUME IInv, [Next]_vars PROVE IInv'
  OBVIOUS
<1>2. CASE UNCHANGED vars
  BY <1>1, <1>2, RienNeBouge
<1>3. CASE Redemarrer
  BY <1>1, <1>3, RedemarrerJuste
<1>4. CASE \E i \in Invitations : Perimer(i)
  BY <1>1, <1>4, PerimerJuste
<1>5. ASSUME NEW q \in Requetes, Avancer(q) PROVE IInv'
  BY <1>1, <1>5, CreerInvitationJuste, EffacerInvitationJuste, BrulerJuste, ChercherFicheJuste,
     EcrireFicheJuste, FaireLeMenageJuste, LierJuste, PoserPairJuste, PoserTunnelJuste,
     PoserPairAssisteJuste, ReconnaitreJuste, ExigerPlaceJuste, InscrireFicheJuste, CompleterJuste,
     RetirerPairJuste, EffacerFicheJuste, ReposerPairJuste
  DEF Avancer
<1>6. ASSUME NEW q \in Requetes, Inviter(q) \/ Echouer(q) PROVE IInv'
  BY <1>1, <1>6, InviterJuste, EchouerJuste
<1>7. ASSUME NEW q \in Requetes, NEW i \in Invitations, Annuler(q, i) PROVE IInv'
  BY <1>1, <1>7, AnnulerJuste
<1>8. ASSUME NEW q \in Requetes, NEW i \in Invitations, NEW a \in Appareils, Consommer(q, i, a)
      PROVE  IInv'
  BY <1>1, <1>8, ConsommerJuste
<1>9. ASSUME NEW q \in Requetes, NEW a \in Appareils, Raccorder(q, a) \/ Ajouter(q, a) PROVE IInv'
  BY <1>1, <1>9, RaccorderJuste, AjouterJuste
<1>10. ASSUME NEW q \in Requetes, NEW f \in Fiches, Supprimer(q, f) \/ Reecrire(q, f) PROVE IInv'
  BY <1>1, <1>10, SupprimerJuste, ReecrireJuste
<1>11. ASSUME NEW a \in Appareils, NEW x \in Adresses, RejouerScript(a, x) PROVE IInv'
  BY <1>1, <1>11, RejouerScriptJuste
<1>12. QED
  BY <1>1, <1>2, <1>3, <1>4, <1>5, <1>6, <1>7, <1>8, <1>9, <1>10, <1>11 DEF Next

-----------------------------------------------------------------------------
(* The theorems.                                                           *)

\* The invariant holds for any park: any routers, invitations, rows, addresses,
\* ceiling and requests at once.
THEOREM Invariance == Spec => []IInv
BY InitIInv, NextIInv, PTL DEF Spec

\* Types, with what the unique indexes of the two tables promise.
THEOREM Typage == Spec => []TypeOK
<1>1. IInv => TypeOK
  BY DEF IInv
<1>2. QED
  BY <1>1, Invariance, PTL

\* Two executions of one script never both get past the burning of its token: no
\* other request is beyond it for the same invitation.
THEOREM JetonUneSeuleFois == Spec => []JetonServiUneFois
<1>1. IInv => JetonServiUneFois
  BY DEF IInv, Exclusives, JetonServiUneFois, ApresJeton
<1>2. QED
  BY <1>1, Invariance, PTL

\* No used invitation keeps its address from a router, unless its callback was cut.
THEOREM AdressesRendues == Spec => []AdresseRendue
<1>1. ASSUME IInv, NEW i \in Invitations, invitation[i].etat = "servie"
      PROVE  \/ \E f \in Fiches : fiche[f].adresse = invitation[i].adresse
             \/ \E q \in Requetes : i \in PerduPar(q)
             \/ i \in perdues
  <2>1. Rendue(i)
    BY <1>1 DEF IInv, ServiesRendues
  <2>2. invitation[i].fiche \in Fiches \union {SansFiche}
    BY <1>1 DEF IInv, TypeOK
  <2>3. QED
    BY <2>1, <2>2 DEF Rendue
<1>2. IInv => AdresseRendue
  BY <1>1 DEF AdresseRendue
<1>3. QED
  BY <1>2, Invariance, PTL

\* A connected router keeps the address of its row and its peer alone, whatever is
\* invited, connected, deleted, rewritten or restarted at the same time: a peer that
\* could not be written, and an old script pasted again, only concern their router.
THEOREM TunnelsCoherents == Spec => []TunnelCoherent
<1>1. ASSUME IInv, NEW f \in Fiches, fiche[f].appareil # SansAppareil
      PROVE  LET a == fiche[f].appareil IN
             \/ /\ pose[a] = fiche[f].adresse
                /\ {p \in fichier : p[1] = a \/ p[2] = fiche[f].adresse} = {<<a, fiche[f].adresse>>}
             \/ a \in deranges
             \/ \E q \in Requetes : a \in DerangePar(q)
  <2>1. Droit(f)
    BY <1>1 DEF IInv, RouteursDroits
  <2>2. \A a, x : Seul(fichier, a, x) =>
          {p \in fichier : p[1] = a \/ p[2] = x} = {<<a, x>>}
    BY DEF Seul
  <2>3. QED
    BY <1>1, <2>1, <2>2 DEF Droit, Derange
<1>2. IInv => TunnelCoherent
  BY <1>1 DEF TunnelCoherent
<1>3. QED
  BY <1>2, Invariance, PTL
=============================================================================
