-------------------------- MODULE RouterEnrolment --------------------------
(***************************************************************************)
(* How a router enters the park.  An operator prepares an invitation       *)
(* (RouterEnrollmentService.invite) and pastes its script on the router,   *)
(* which calls back (consume); or the console works on a router it can     *)
(* reach (RaccordementAssisteService.raccorder); or he types its address   *)
(* (RoutersService.create).  All three share the addresses of the tunnel,  *)
(* the rows of the routers and the server's file of peers.                 *)
(*                                                                         *)
(* A router has one serial number and one public key, which the model      *)
(* takes for the same thing: its script keeps the key it finds.  A request *)
(* is cut by an exception, or by a restart, between any two of its steps.  *)
(***************************************************************************)
EXTENDS Integers, FiniteSets

CONSTANTS
  Appareils,   \* the routers themselves
  Invitations, \* rows of router_enrollments that may exist at once (bound)
  Fiches,      \* rows of routers that may exist at once (bound)
  NbAdresses,  \* addresses of the tunnel's subnet, the server's excepted
  Plafond,     \* routers that the tenant's offer allows
  Requetes,    \* requests that may be in progress
  MaxAleas     \* exceptions, restarts, expired invitations, cancellations, deletions,
               \* rewritings, additions by hand, old scripts pasted and peers that could
               \* not be written, all together (bound)

ASSUME ConstantesEnrolement ==
  /\ NbAdresses \in Nat
  /\ Plafond \in Nat
  /\ MaxAleas \in Nat
  /\ IsFiniteSet(Fiches) /\ IsFiniteSet(Requetes)

Adresses == 1..NbAdresses
SansAdresse == 0
SansAppareil == "aucun appareil"
SansInvitation == "aucune invitation"
SansFiche == "aucune fiche"
ParTunnel == "adresse du tunnel"

ASSUME RienDeTel ==
  /\ SansAppareil \notin Appareils /\ ParTunnel \notin Appareils
  /\ SansInvitation \notin Invitations
  /\ SansFiche \notin Fiches

VARIABLES
  invitation, \* router_enrollments: state, address, whether expired, routerId
  fiche,      \* routers: host, tunnel address, router (key and serial number)
  fichier,    \* the peers of the server: <<router, address>>
  pose,       \* the tunnel address that each router carries
  requete,    \* per request: how far it is, invitation, router, address, row
  deranges,   \* routers whose last connection was cut, refused, overwritten or left
              \* without its peer
  perdues,    \* invitations whose callback was cut or refused after its token was burnt
  aleas       \* how many of those events MaxAleas bounds; these three are not in the code

tables == <<invitation, fiche>>
temoins == <<deranges, perdues>>
vars == <<tables, fichier, pose, requete, temoins, aleas>>

PasDInvitation ==
  [etat |-> "absente", adresse |-> SansAdresse, perimee |-> FALSE, fiche |-> SansFiche]
PasDeFiche ==
  [existe |-> FALSE, hote |-> SansAppareil, adresse |-> SansAdresse, appareil |-> SansAppareil]
Repos ==
  [etape |-> "repos", i |-> SansInvitation, a |-> SansAppareil, x |-> SansAdresse, f |-> SansFiche]

Init ==
  /\ invitation = [i \in Invitations |-> PasDInvitation]
  /\ fiche = [f \in Fiches |-> PasDeFiche]
  /\ fichier = {}
  /\ pose = [a \in Appareils |-> SansAdresse]
  /\ requete = [q \in Requetes |-> Repos]
  /\ deranges = {}
  /\ perdues = {}
  /\ aleas = 0

En(q, etape) == requete[q].etape = etape
Aller(q, etape) == requete' = [requete EXCEPT ![q].etape = etape]
Finir(q) == requete' = [requete EXCEPT ![q] = Repos]
Compter == aleas < MaxAleas /\ aleas' = aleas + 1
Commencer(q, r) == En(q, "repos") /\ requete' = [requete EXCEPT ![q] = r]

\* From the burning of the token to the link with the row, and from the moment
\* the router is touched (or its peer removed) to the end.
ApresBrulure == {"recherche", "fiche", "menage", "lien"}
ApresPose == {"brulure", "pair", "pairAssiste", "reconnaissance", "place", "inscription",
              "completion", "suppression"} \union ApresBrulure

\* The router that the request leaves half way if it stops now.
DerangePar(q) ==
  IF requete[q].etape \in ApresPose /\ requete[q].x # SansAdresse THEN {requete[q].a} ELSE {}
\* The invitations that keep their row, and no router: this one, and those that
\* the row had before and that were still to be deleted.
PerduPar(q) ==
  LET r == requete[q] IN
  (IF r.etape \in ApresBrulure THEN {r.i} ELSE {})
    \union (IF r.etape = "menage" THEN {i \in Invitations : invitation[i].fiche = r.f} ELSE {})

\* The database refuses: the request ends with the exception, what it has
\* already done remains.
Refuser(q) ==
  /\ Finir(q)
  /\ deranges' = deranges \union DerangePar(q)
  /\ perdues' = perdues \union PerduPar(q)
  /\ UNCHANGED <<tables, fichier, pose, aleas>>

-----------------------------------------------------------------------------
(* The addresses of the tunnel: allocateAddress, for both ways in.         *)

\* Expired invitations that were never used go: their address is unique.
SansPerimees ==
  [i \in Invitations |->
     IF invitation[i].etat = "ouverte" /\ invitation[i].perimee THEN PasDInvitation
     ELSE invitation[i]]

Ouvertes == {i \in Invitations : invitation[i].etat = "ouverte"}

\* The row is not there, and nobody still speaks of it (identifiers are not reused).
Neuve(i) == invitation[i].etat = "absente" /\ \A q \in Requetes : requete[q].i # i
NeuveFiche(f) ==
  /\ ~fiche[f].existe
  /\ \A q \in Requetes : requete[q].f # f
  /\ \A i \in Invitations : invitation[i].fiche # f

\* What allocateAddress takes for occupied: the routers, and the invitations
\* that are neither used nor expired.
Prises ==
  {fiche[f].adresse : f \in Fiches}
    \union {invitation[i].adresse : i \in {j \in Ouvertes : ~invitation[j].perimee}}
Libres == Adresses \ Prises

\* The first free address; a conflict, and nothing else, when there is none.
Choisie(x) == x \in Libres /\ \A y \in Libres : x <= y

Inviter(q) ==
  /\ invitation' = SansPerimees
  /\ \/ \E x \in Adresses :
          Choisie(x) /\ Commencer(q, [Repos EXCEPT !.etape = "creation", !.x = x])
     \/ Libres = {} /\ En(q, "repos") /\ invitation' # invitation /\ UNCHANGED requete
  /\ UNCHANGED <<fiche, fichier, pose, temoins, aleas>>

\* The unique address refuses the second of two invitations that read alike.
CreerInvitation(q) ==
  LET x == requete[q].x IN
  /\ En(q, "creation")
  /\ \/ /\ \A j \in Invitations : invitation[j].adresse # x
        /\ \E i \in Invitations :
             /\ Neuve(i)
             /\ invitation' = [invitation EXCEPT ![i] =
                  [PasDInvitation EXCEPT !.etat = "ouverte", !.adresse = x]]
        /\ Finir(q)
        /\ UNCHANGED <<fiche, fichier, pose, temoins, aleas>>
     \/ /\ \E j \in Invitations : invitation[j].adresse = x
        /\ Refuser(q)

\* Thirty minutes later.
Perimer(i) ==
  /\ invitation[i].etat = "ouverte" /\ ~invitation[i].perimee
  /\ Compter
  /\ invitation' = [invitation EXCEPT ![i].perimee = TRUE]
  /\ UNCHANGED <<fiche, fichier, pose, requete, temoins>>

\* cancel: an invitation that was used is refused, when it is read; the deletion
\* has no condition.
Annuler(q, i) ==
  /\ invitation[i].etat = "ouverte"
  /\ Compter
  /\ Commencer(q, [Repos EXCEPT !.etape = "annulation", !.i = i])
  /\ UNCHANGED <<tables, fichier, pose, temoins>>

EffacerInvitation(q) ==
  /\ En(q, "annulation")
  /\ invitation' = [invitation EXCEPT ![requete[q].i] = PasDInvitation]
  /\ Finir(q)
  /\ UNCHANGED <<fiche, fichier, pose, temoins, aleas>>

\* A script or the assistant is at work on this router, for something else than
\* this invitation: whoever holds the router does one thing at a time.
Occupe(a, i) ==
  \E q \in Requetes :
    /\ requete[q].a = a /\ (requete[q].i # i \/ i = SansInvitation)
    /\ requete[q].etape \notin {"retraitPair", "suppression", "reecriture"}

-----------------------------------------------------------------------------
(* The callback of the router: consume.                                    *)

\* The operator pastes the script of an invitation that his screen shows: the
\* router takes the address, and then calls back.  The same script may run twice.
Consommer(q, i, a) ==
  /\ invitation[i].etat = "ouverte" /\ ~invitation[i].perimee
  /\ ~Occupe(a, i)
  /\ Commencer(q, [Repos EXCEPT !.etape = "brulure", !.i = i, !.a = a,
                                !.x = invitation[i].adresse])
  /\ pose' = [pose EXCEPT ![a] = invitation[i].adresse]
  /\ UNCHANGED <<tables, fichier, temoins, aleas>>

\* A script kept from an invitation that was used, expired or deleted since is pasted: the
\* router takes its address, and its call is refused (410, 404) before anything else.
RejouerScript(a, x) ==
  /\ pose[a] # x /\ ~Occupe(a, SansInvitation)
  /\ Compter
  /\ pose' = [pose EXCEPT ![a] = x]
  /\ deranges' = deranges \union {a}
  /\ UNCHANGED <<tables, fichier, requete, perdues>>

\* (Mutated form of Brulable: the WHERE consumedAt IS NULL is forgotten.)
BrulableEncore(i) == invitation[i].etat # "absente"

Brulable(i) == invitation[i].etat = "ouverte"

\* The call looks the token up, then burns it with updateMany WHERE consumedAt IS NULL:
\* one that was expired, used or deleted by then is refused (410, 404, 409).
Bruler(q) ==
  /\ En(q, "brulure")
  /\ \/ /\ Brulable(requete[q].i)
        /\ invitation' = [invitation EXCEPT ![requete[q].i].etat = "servie"]
        /\ Aller(q, "recherche")
        /\ UNCHANGED <<fiche, fichier, pose, temoins, aleas>>
     \/ ~Brulable(requete[q].i) /\ Refuser(q)
     \/ invitation[requete[q].i].perimee /\ Refuser(q)

\* The row of this router, found by its serial number, ...
ChercherFiche(q) ==
  /\ En(q, "recherche")
  /\ requete' = [requete EXCEPT ![q].etape = "fiche",
       ![q].f = IF \E f \in Fiches : fiche[f].appareil = requete[q].a
                THEN CHOOSE f \in Fiches : fiche[f].appareil = requete[q].a ELSE SansFiche]
  /\ UNCHANGED <<tables, fichier, pose, temoins, aleas>>

\* (Mutated form of Unique: without the index on the serial number.)
UniqueAdresse(f, x, a) == \A g \in Fiches \ {f} : fiche[g].adresse # x

\* The unique indexes of the routers: tunnel address, serial number.
Unique(f, x, a) == \A g \in Fiches \ {f} : fiche[g].adresse # x /\ fiche[g].appareil # a

\* ... is updated, or another is created: the offer is not asked.
EcrireFiche(q) ==
  LET r == requete[q] IN
  /\ En(q, "fiche")
  /\ \/ \E f \in Fiches :
          /\ IF r.f = SansFiche THEN NeuveFiche(f) ELSE f = r.f /\ fiche[f].existe
          /\ Unique(f, r.x, r.a)
          /\ fiche' = [fiche EXCEPT ![f] =
               [existe |-> TRUE, hote |-> ParTunnel, adresse |-> r.x, appareil |-> r.a]]
          /\ requete' = [requete EXCEPT ![q].f = f, ![q].etape = "menage"]
          /\ UNCHANGED <<invitation, fichier, pose, temoins, aleas>>
     \/ /\ IF r.f = SansFiche THEN ~Unique(SansFiche, r.x, r.a)
           ELSE ~fiche[r.f].existe \/ ~Unique(r.f, r.x, r.a)
        /\ Refuser(q)

\* (Mutated form of FaireLeMenage: the previous invitation keeps its row.)
SauterLeMenage(q) ==
  /\ En(q, "menage")
  /\ Aller(q, "lien")
  /\ UNCHANGED <<tables, fichier, pose, temoins, aleas>>

\* The previous invitations of this row go, with the address they hold, ...
FaireLeMenage(q) ==
  /\ En(q, "menage")
  /\ invitation' = [i \in Invitations |->
       IF invitation[i].fiche = requete[q].f /\ i # requete[q].i THEN PasDInvitation
       ELSE invitation[i]]
  /\ Aller(q, "lien")
  /\ UNCHANGED <<fiche, fichier, pose, temoins, aleas>>

\* ... and this one is linked: it may have been cancelled, its row deleted, or
\* another invitation linked to the row.
Lier(q) ==
  LET r == requete[q]
      possible == /\ invitation[r.i].etat # "absente" /\ fiche[r.f].existe
                  /\ \A j \in Invitations \ {r.i} : invitation[j].fiche # r.f
  IN
  /\ En(q, "lien")
  /\ \/ /\ possible
        /\ invitation' = [invitation EXCEPT ![r.i].fiche = r.f]
        /\ Aller(q, "pair")
        /\ UNCHANGED <<fiche, fichier, pose, temoins, aleas>>
     \/ ~possible /\ Refuser(q)

\* (Mutated form of AvecPair: only the block of this key gives way.)
AvecPairDeLaCle(pairs, a, x) == {p \in pairs : p[1] # a} \union {<<a, x>>}

\* addPeer: the blocks of this key and those of this address give way to one.
AvecPair(pairs, a, x) == {p \in pairs : p[1] # a /\ p[2] # x} \union {<<a, x>>}

\* addPeer.  The connection that puts its peer mends what was wrong with its router, and
\* displaces whoever has a peer at this address.  A file that is absent, or cannot be
\* written, does not stop the connection.
PoserLePair(q) ==
  LET r == requete[q] IN
  /\ \/ /\ fichier' = AvecPair(fichier, r.a, r.x)
        /\ deranges' = (deranges \ {r.a})
                         \union ({p[1] : p \in {e \in fichier : e[2] = r.x}} \ {r.a})
        /\ UNCHANGED aleas
     \/ /\ Compter
        /\ deranges' = deranges \union {r.a}
        /\ UNCHANGED fichier
  /\ UNCHANGED <<tables, pose, perdues>>

PoserPair(q) == En(q, "pair") /\ PoserLePair(q) /\ Finir(q)

-----------------------------------------------------------------------------
(* The assisted connection: raccorder.                                     *)

\* The router is reached at its local address; a row of that host which has a
\* tunnel address keeps it, otherwise one is allocated, and kept by nobody.
Raccorder(q, a) ==
  LET connues == {f \in Fiches : fiche[f].hote = a /\ fiche[f].adresse # SansAdresse} IN
  /\ ~Occupe(a, SansInvitation)
  /\ \/ \E f \in connues :
          /\ Commencer(q, [Repos EXCEPT !.etape = "pose", !.a = a, !.x = fiche[f].adresse])
          /\ UNCHANGED invitation
     \/ /\ connues = {}
        /\ invitation' = SansPerimees
        /\ \E x \in Adresses :
             Choisie(x) /\ Commencer(q, [Repos EXCEPT !.etape = "pose", !.a = a, !.x = x])
  /\ UNCHANGED <<fiche, fichier, pose, temoins, aleas>>

\* poserLeTunnel and poserLeCompte: the router takes the address.
PoserTunnel(q) ==
  /\ En(q, "pose")
  /\ pose' = [pose EXCEPT ![requete[q].a] = requete[q].x]
  /\ Aller(q, "pairAssiste")
  /\ UNCHANGED <<tables, fichier, temoins, aleas>>

PoserPairAssiste(q) == En(q, "pairAssiste") /\ PoserLePair(q) /\ Aller(q, "reconnaissance")

\* A row of that host is taken over (its account changes), otherwise one is
\* created; of several, the oldest, which the model leaves open.
Reconnaitre(q) ==
  LET connues == {f \in Fiches : fiche[f].hote = requete[q].a} IN
  /\ En(q, "reconnaissance")
  /\ \/ \E f \in connues :
          requete' = [requete EXCEPT ![q].f = f, ![q].etape = "completion"]
     \/ connues = {} /\ Aller(q, "place")
  /\ UNCHANGED <<tables, fichier, pose, temoins, aleas>>

\* RoutersService.create from the console: an address that an operator types.
Ajouter(q, a) ==
  /\ Compter
  /\ Commencer(q, [Repos EXCEPT !.etape = "place", !.a = a])
  /\ UNCHANGED <<tables, fichier, pose, temoins>>

\* exigerRouteurDisponible: the rows are counted, ...
ResteUnePlace == Cardinality({f \in Fiches : fiche[f].existe}) < Plafond

ExigerPlace(q) ==
  /\ En(q, "place")
  /\ \/ ResteUnePlace /\ Aller(q, "inscription")
        /\ UNCHANGED <<tables, fichier, pose, temoins, aleas>>
     \/ ~ResteUnePlace /\ Refuser(q)

\* ... and the row is created at another moment.
InscrireFiche(q) ==
  LET r == requete[q] IN
  /\ En(q, "inscription")
  /\ \E f \in Fiches :
       /\ NeuveFiche(f)
       /\ fiche' = [fiche EXCEPT ![f] = [PasDeFiche EXCEPT !.existe = TRUE, !.hote = r.a]]
       /\ requete' = IF r.x = SansAdresse THEN [requete EXCEPT ![q] = Repos]
                     ELSE [requete EXCEPT ![q].f = f, ![q].etape = "completion"]
  /\ UNCHANGED <<invitation, fichier, pose, temoins, aleas>>

\* The tunnel address, the key and the serial number come last.
Completer(q) ==
  LET r == requete[q]
      possible == fiche[r.f].existe /\ Unique(r.f, r.x, r.a)
  IN
  /\ En(q, "completion")
  /\ \/ /\ possible
        /\ fiche' = [fiche EXCEPT ![r.f].adresse = r.x, ![r.f].appareil = r.a]
        /\ Finir(q)
        /\ UNCHANGED <<invitation, fichier, pose, temoins, aleas>>
     \/ ~possible /\ Refuser(q)

-----------------------------------------------------------------------------
(* RoutersService.supprimer and reecrireLePair, and a restart.             *)

\* The row is read, nothing is attached to it, and its peer goes with its key.
Supprimer(q, f) ==
  /\ fiche[f].existe
  /\ Compter
  /\ Commencer(q, [Repos EXCEPT !.etape = "retraitPair", !.f = f,
                                !.a = fiche[f].appareil, !.x = fiche[f].adresse])
  /\ UNCHANGED <<tables, fichier, pose, temoins>>

\* removePeer: its failure is noted, and the deletion goes on.
RetirerPair(q) ==
  /\ En(q, "retraitPair")
  /\ \/ fichier' = {p \in fichier : p[1] # requete[q].a} /\ UNCHANGED aleas
     \/ UNCHANGED fichier /\ Compter
  /\ deranges' = deranges \union {p[1] : p \in fichier \ fichier'}
  /\ Aller(q, "suppression")
  /\ UNCHANGED <<tables, pose, perdues>>

\* One transaction: the invitations linked to the row, then the row.
EffacerFiche(q) ==
  LET f == requete[q].f IN
  /\ En(q, "suppression")
  /\ \/ /\ fiche[f].existe
        /\ fiche' = [fiche EXCEPT ![f] = PasDeFiche]
        /\ invitation' = [i \in Invitations |->
             IF invitation[i].fiche = f THEN PasDInvitation ELSE invitation[i]]
        /\ Finir(q)
        /\ UNCHANGED <<fichier, pose, temoins, aleas>>
     \/ ~fiche[f].existe /\ Refuser(q)

\* The row is read, ...
Reecrire(q, f) ==
  /\ fiche[f].appareil # SansAppareil
  /\ Compter
  /\ Commencer(q, [Repos EXCEPT !.etape = "reecriture", !.f = f, !.a = fiche[f].appareil,
                                !.x = fiche[f].adresse])
  /\ UNCHANGED <<tables, fichier, pose, temoins>>

\* ... and its peer written as it was then: late, it displaces a newer one.
ReposerPair(q) ==
  LET r == requete[q] IN
  /\ En(q, "reecriture")
  /\ fichier' = AvecPair(fichier, r.a, r.x)
  /\ deranges' = deranges \union {p[1] : p \in fichier \ fichier'}
  /\ Finir(q)
  /\ UNCHANGED <<tables, pose, perdues, aleas>>

\* What the rows say, written over what the file holds.
PairsDesFiches == {<<fiche[f].appareil, fiche[f].adresse>> :
                     f \in {g \in Fiches : fiche[g].appareil # SansAppareil}}

\* onModuleInit, before any request is taken; some peers may not be written.
Redemarrer ==
  /\ Compter
  /\ requete' = [q \in Requetes |-> Repos]
  /\ deranges' = deranges \union UNION {DerangePar(q) : q \in Requetes}
  /\ perdues' = perdues \union UNION {PerduPar(q) : q \in Requetes}
  /\ \E ecrits \in SUBSET PairsDesFiches :
       fichier' = ecrits \union {p \in fichier : \A e \in ecrits : p[1] # e[1] /\ p[2] # e[2]}
  /\ UNCHANGED <<tables, pose>>

\* A step throws: the router does not answer, wg or the database fails.  A rewriting that
\* could not write its peer ends so too, and says it.
Echouer(q) ==
  /\ ~En(q, "repos")
  /\ Compter
  /\ Finir(q)
  /\ deranges' = deranges \union DerangePar(q)
  /\ perdues' = perdues \union PerduPar(q)
  /\ UNCHANGED <<tables, fichier, pose>>

-----------------------------------------------------------------------------
Avancer(q) ==
  \/ CreerInvitation(q) \/ EffacerInvitation(q)
  \/ Bruler(q) \/ ChercherFiche(q) \/ EcrireFiche(q) \/ FaireLeMenage(q) \/ Lier(q) \/ PoserPair(q)
  \/ PoserTunnel(q) \/ PoserPairAssiste(q) \/ Reconnaitre(q)
  \/ ExigerPlace(q) \/ InscrireFiche(q) \/ Completer(q)
  \/ RetirerPair(q) \/ EffacerFiche(q) \/ ReposerPair(q)

Next ==
  \/ \E i \in Invitations : Perimer(i)
  \/ \E q \in Requetes :
       \/ Inviter(q) \/ \E i \in Invitations : Annuler(q, i)
       \/ \E i \in Invitations, a \in Appareils : Consommer(q, i, a)
       \/ \E a \in Appareils : Raccorder(q, a) \/ Ajouter(q, a)
       \/ \E f \in Fiches : Supprimer(q, f) \/ Reecrire(q, f)
       \/ Avancer(q) \/ Echouer(q)
  \/ \E a \in Appareils, x \in Adresses : RejouerScript(a, x)
  \/ Redemarrer

Spec == Init /\ [][Next]_vars

-----------------------------------------------------------------------------
Etapes == {"repos", "creation", "annulation", "pose", "retraitPair", "reecriture"}
            \union ApresPose

\* Types, with what the unique indexes promise: an address for one invitation, an
\* address and a serial number for one row, one invitation linked to a row.
TypeOK ==
  /\ invitation \in [Invitations ->
       [etat : {"absente", "ouverte", "servie"}, adresse : Adresses \union {SansAdresse},
        perimee : BOOLEAN, fiche : Fiches \union {SansFiche}]]
  /\ fiche \in [Fiches ->
       [existe : BOOLEAN, hote : Appareils \union {SansAppareil, ParTunnel},
        adresse : Adresses \union {SansAdresse}, appareil : Appareils \union {SansAppareil}]]
  /\ fichier \subseteq Appareils \X Adresses
  /\ pose \in [Appareils -> Adresses \union {SansAdresse}]
  /\ requete \in [Requetes ->
       [etape : Etapes, i : Invitations \union {SansInvitation},
        a : Appareils \union {SansAppareil}, x : Adresses \union {SansAdresse},
        f : Fiches \union {SansFiche}]]
  /\ deranges \subseteq Appareils /\ perdues \subseteq Invitations /\ aleas \in 0..MaxAleas
  /\ \A i, j \in Invitations : i # j =>
       /\ invitation[i].adresse = invitation[j].adresse => invitation[i].adresse = SansAdresse
       /\ invitation[i].fiche = invitation[j].fiche => invitation[i].fiche = SansFiche
  /\ \A f, g \in Fiches : f # g =>
       /\ fiche[f].adresse = fiche[g].adresse => fiche[f].adresse = SansAdresse
       /\ fiche[f].appareil = fiche[g].appareil => fiche[f].appareil = SansAppareil

\* A router whose row has a key carries the address of its row, and the server's
\* file has its peer with that address and none else that bears its key or its
\* address (two peers at one address share the packets at random): whatever is
\* invited, cancelled, connected again, deleted, rewritten or restarted at the same
\* time.  Excepted while a request is between the router and the row, and when the
\* last one was cut, refused, could not write its peer, or had its peer displaced: by a
\* connection at an address that the assistant had not reserved or that a deletion freed
\* too early, by a late rewriting, or by the deletion of its row; or an old script was
\* pasted on it since.
TunnelCoherent ==
  \A f \in Fiches :
    LET a == fiche[f].appareil IN
    fiche[f].existe /\ a # SansAppareil =>
      \/ /\ pose[a] = fiche[f].adresse
         /\ {p \in fichier : p[1] = a \/ p[2] = fiche[f].adresse} = {<<a, fiche[f].adresse>>}
      \/ a \in deranges
      \/ \E q \in Requetes : a \in DerangePar(q)

\* An address that allocateAddress takes for free can be given: no invitation that
\* was used keeps it in the unique index, unless its callback was cut or refused
\* between the burning of its token and the link with a row.  (Nothing removes such
\* an invitation: cancel refuses it and the cleaning leaves it.)
AdresseRendue ==
  \A i \in Invitations :
    invitation[i].etat = "servie" =>
      \/ \E f \in Fiches : fiche[f].adresse = invitation[i].adresse
      \/ \E q \in Requetes : i \in PerduPar(q)
      \/ i \in perdues

\* Two executions of one script never both get past the burning of its token.
JetonServiUneFois ==
  \A q, p \in Requetes :
    requete[q].etape \in ApresBrulure /\ requete[p].etape \in ApresBrulure
      /\ requete[q].i = requete[p].i => q = p
=============================================================================
