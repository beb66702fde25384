----------------------------- MODULE LoginPage -----------------------------
(***************************************************************************)
(* The path of a customer who buys: the login page written on the router   *)
(* carries the address of the payment page, the walled garden lets that    *)
(* address through, and the console answers there.  PageConnexionService   *)
(* publishes the page, writes down what it has published and repairs the   *)
(* path; the operator saves settings, works in WinBox and the console      *)
(* changes its address, between any two steps of it.                       *)
(*                                                                         *)
(* An address is a URL: a host and a port, or no port.  SansPort is the    *)
(* same host without a port.  A rule of the garden is the address it lets  *)
(* through, one without a port lets every port of its host through.  A     *)
(* write whose answer is lost is the write, then a cut.                    *)
(***************************************************************************)
EXTENDS Integers, FiniteSets

CONSTANTS
  Requetes,  \* gestures on the page that may be in progress
  Dossiers,  \* folders that a HotSpot server may serve
  Adresses,  \* addresses at which the console may answer, and those without their port
  SansPort,  \* the same host, without a port
  Noms,      \* addresses whose host is a name, and not in figures
  Publiques, \* addresses that PUBLIC_BASE_URL may give; the others are of the local network
  MaxGestes, \* gestures that begin (bound)
  MaxMains   \* acts of the operator, of WinBox and of the network (bound)

ASSUME ConstantesPage == MaxGestes \in Nat /\ MaxMains \in Nat /\ IsFiniteSet(Dossiers)

Vide == "vide"      \* no address in the settings, or in the page
Usine == "usine"    \* the page that came with the router
Absente == "absente"
Nul == "aucun"      \* no folder
ASSUME AdressesPropres == {Vide, Usine, Absente} \cap Adresses = {} /\ Nul \notin Dossiers
ASSUME PortsPropres ==
  /\ SansPort \in [Adresses -> Adresses] /\ Noms \subseteq Adresses
  /\ \A a \in Adresses : SansPort[SansPort[a]] = SansPort[a] /\ (a \in Noms <=> SansPort[a] \in Noms)

VARIABLES
  console,      \* where the console answers today
  portail,      \* portailUrl of the settings
  servis,       \* folders of the servers that are not disabled
  jardin,       \* rules of the walled garden
  page,         \* per folder, the address in its login.html
  publication,  \* per folder, the address of its row in hotspot_login_publications
  requete,      \* per gesture: which, whether it names the router (nomme), how far, the
                \* address aimed at (cible), the settings it has read (lu), what it has
                \* composed (gravee), the folders left (reste), the one just written (c);
                \* and, not in the code, whether it was disturbed, its settings saved, its
                \* page rewritten
  gestes, mains,
  ecart         \* per folder, why its row may differ from its page (not in the code)

routeur == <<servis, jardin, page>>
bornes == <<gestes, mains>>
vars == <<console, portail, routeur, publication, requete, bornes, ecart>>

Repos == [geste |-> "aucun", nomme |-> TRUE, etape |-> "repos", cible |-> Vide, lu |-> Vide, gravee |-> Vide,
          reste |-> {}, c |-> Nul, derange |-> FALSE, sauve |-> FALSE, double |-> FALSE]

Init ==
  /\ console \in Adresses /\ portail \in Adresses \union {Vide}
  /\ servis = Dossiers /\ jardin = {}
  /\ page = [d \in Dossiers |-> Usine]
  /\ publication = [d \in Dossiers |-> Absente]
  /\ requete = [r \in Requetes |-> Repos]
  /\ gestes = 0 /\ mains = 0
  /\ ecart = [d \in Dossiers |-> {}]

En(r, etape) == requete[r].etape = etape
EnCours == {r \in Requetes : ~En(r, "repos")}

Mettre(r, b) == requete' = [requete EXCEPT ![r] = b]
Aller(r, etape) == Mettre(r, [requete[r] EXCEPT !.etape = etape])
Finir(r) == Mettre(r, Repos)

\* Two repairs that aim at the same address do not disturb each other.
Derangent(q, b) ==
  requete[q].geste # "reparer" \/ b.geste # "reparer" \/ requete[q].cible # b.cible
    \/ requete[q].derange

Debut(r, b) ==
  LET derangeants == {q \in EnCours : Derangent(q, b)} IN
  /\ En(r, "repos") /\ gestes < MaxGestes
  /\ gestes' = gestes + 1
  /\ requete' = [q \in Requetes |->
       IF q = r THEN [b EXCEPT !.derange = derangeants # {}]
       ELSE IF q \in derangeants THEN [requete[q] EXCEPT !.derange = TRUE]
       ELSE requete[q]]
  /\ UNCHANGED <<console, portail, routeur, publication, mains, ecart>>

-----------------------------------------------------------------------------
(* reparer                                                                 *)

\* (Mutated form of DejaOuverte: the address of the settings is looked for.)
DejaOuverteAvant(cible, jardinLu) == portail \in jardinLu

\* autoriseParLeWalledGarden, in the state that was read.  The port of a rule on a name is
\* not looked at, nor is that of a rule when the address has none.
DejaOuverte(cible, jardinLu) ==
  \E g \in jardinLu :
    /\ SansPort[g] = SansPort[cible]
    /\ cible \in Noms \/ SansPort[g] = g \/ SansPort[cible] = cible \/ g = cible

\* adresseActuelle: the public address, or that of a network card without the port, which
\* the repair does not give to etat.
AdresseActuelle == IF console \in Publiques THEN console ELSE SansPort[console]

\* What remains to be done before publishing, when the state is read.
Suite(cible, ouverte) ==
  IF portail # cible THEN "enregistrer" ELSE IF ouverte THEN "etat" ELSE "ouvrir"

\* etat, then the choice of what to repair: the garden is judged here and once; one that
\* could not be read counts for an empty one.
Reparer(r, nomme) ==
  \E jardinLu \in {jardin, {}} :
    LET cible == AdresseActuelle
        ouverte == DejaOuverte(cible, jardinLu)
    IN  Debut(r, [Repos EXCEPT !.geste = "reparer", !.nomme = nomme, !.cible = cible,
                               !.etape = Suite(cible, ouverte),
                               !.reste = IF ouverte THEN {} ELSE {Nul}])

\* The form is written as it was read, with the address of the console.  A publication
\* that has read its settings and not composed yet is overtaken.
Sauver(p) == portail' = p
Depasser(b) == IF b.etape = "composer" THEN [b EXCEPT !.sauve = TRUE] ELSE b

Enregistrer(r) ==
  /\ En(r, "enregistrer")
  /\ Sauver(requete[r].cible)
  /\ requete' = [q \in Requetes |->
       IF q = r THEN [requete[r] EXCEPT !.etape = IF requete[r].reste = {} THEN "etat" ELSE "ouvrir"]
       ELSE Depasser(requete[q])]
  /\ UNCHANGED <<console, routeur, publication, bornes, ecart>>

\* createWalledGardenEntry, or its twin for an address in figures: a rule with the port
\* of the address, or with none.
Ouvrir(r) ==
  /\ En(r, "ouvrir")
  /\ jardin' = jardin \union {requete[r].cible}
  /\ Aller(r, "etat")
  /\ UNCHANGED <<console, portail, servis, page, publication, bornes, ecart>>

-----------------------------------------------------------------------------
(* publier, by itself or at the end of a repair                            *)

Publier(r, nomme) ==
  Debut(r, [Repos EXCEPT !.geste = "publier", !.nomme = nomme, !.etape = "etat"])

\* The settings and the folders are read; no folder or no address forbids.
LireEtat(r) ==
  /\ En(r, "etat")
  /\ IF servis = {} \/ portail = Vide THEN Finir(r)
     ELSE Mettre(r, [requete[r] EXCEPT !.etape = "composer", !.lu = portail, !.reste = servis,
                                       !.sauve = FALSE])
  /\ UNCHANGED <<console, portail, routeur, publication, bornes, ecart>>

\* apercu: the settings are read a second time.
Composer(r) ==
  /\ En(r, "composer")
  /\ Mettre(r, [requete[r] EXCEPT !.etape = "ecrire", !.gravee = portail])
  /\ UNCHANGED <<console, portail, routeur, publication, bornes, ecart>>

Reecrire(b, d) == IF b.etape = "inscrire" /\ b.c = d THEN [b EXCEPT !.double = TRUE] ELSE b

\* (Mutated form of Ecrire: the answer of the router is not waited for, nothing is written.)
EcrireSansAttendre(r, d) ==
  /\ En(r, "ecrire") /\ d \in requete[r].reste
  /\ Mettre(r, [requete[r] EXCEPT !.etape = "inscrire", !.c = d, !.double = FALSE])
  /\ UNCHANGED <<console, portail, routeur, publication, bornes, ecart>>

\* writeRouterFile, folder after folder.
Ecrire(r, d) ==
  /\ En(r, "ecrire") /\ d \in requete[r].reste
  /\ page' = [page EXCEPT ![d] = requete[r].gravee]
  /\ requete' = [q \in Requetes |->
       IF q = r THEN [requete[r] EXCEPT !.etape = "inscrire", !.c = d, !.double = FALSE]
       ELSE Reecrire(requete[q], d)]
  /\ UNCHANGED <<console, portail, servis, jardin, publication, bornes, ecart>>

\* Why the row that is written, or left, may be wrong.
Causes(b) ==
  (IF b.sauve THEN {"sauvegarde"} ELSE {}) \union (IF b.double THEN {"croisement"} ELSE {})

ApresInscription(b) ==
  [b EXCEPT !.etape = IF b.reste = {b.c} THEN "fin" ELSE "ecrire", !.reste = @ \ {b.c}, !.c = Nul]

\* (Mutated form of Inscrire: the address is that of the settings at this time.)
InscrireRelu(r) ==
  /\ En(r, "inscrire") /\ requete[r].nomme
  /\ publication' = [publication EXCEPT ![requete[r].c] = portail]
  /\ ecart' = [ecart EXCEPT ![requete[r].c] = Causes(requete[r])]
  /\ Mettre(r, ApresInscription(requete[r]))
  /\ UNCHANGED <<console, portail, routeur, bornes>>

\* The row gets the address that the first reading found.
Inscrire(r) ==
  /\ En(r, "inscrire") /\ requete[r].nomme
  /\ publication' = [publication EXCEPT ![requete[r].c] = requete[r].lu]
  /\ ecart' = [ecart EXCEPT ![requete[r].c] = Causes(requete[r])]
  /\ Mettre(r, ApresInscription(requete[r]))
  /\ UNCHANGED <<console, portail, routeur, bornes>>

\* if (routerId): the page of the default router was written, no row is.
NePasInscrire(r) ==
  /\ En(r, "inscrire") /\ ~requete[r].nomme
  /\ ecart' = [ecart EXCEPT ![requete[r].c] = @ \union {"anonyme"}]
  /\ Mettre(r, ApresInscription(requete[r]))
  /\ UNCHANGED <<console, portail, routeur, publication, bornes>>

Rendre(r) ==
  /\ En(r, "fin")
  /\ Finir(r)
  /\ UNCHANGED <<console, portail, routeur, publication, bornes, ecart>>

\* A call to the router fails, or the process stops: what was done remains.
Couper(r) ==
  /\ r \in EnCours
  /\ ecart' = IF En(r, "inscrire") THEN [ecart EXCEPT ![requete[r].c] = @ \union {"coupure"}]
              ELSE ecart
  /\ Finir(r)
  /\ UNCHANGED <<console, portail, routeur, publication, bornes>>

-----------------------------------------------------------------------------
(* What the gestures do not control.                                       *)

\* The acts that make a repair in progress, and a row that is being written, doubtful.
ALaMain ==
  /\ mains < MaxMains /\ mains' = mains + 1
  /\ UNCHANGED <<publication, gestes>>

Deranger == requete' = [r \in Requetes |->
              IF r \in EnCours THEN [requete[r] EXCEPT !.derange = TRUE] ELSE Repos]

\* The form of settings.
EnregistrerLeFormulaire(p) ==
  /\ ALaMain /\ p # portail
  /\ Sauver(p)
  /\ requete' = [r \in Requetes |->
       IF r \in EnCours THEN [Depasser(requete[r]) EXCEPT !.derange = TRUE] ELSE Repos]
  /\ UNCHANGED <<console, routeur, ecart>>

\* A lease is renewed: the console answers elsewhere.
Demenager(a) ==
  /\ ALaMain /\ a # console
  /\ console' = a
  /\ Deranger
  /\ UNCHANGED <<portail, routeur, ecart>>

\* Entries of the garden are added and removed, servers moved, in WinBox or the console.
ChangerJardin(a) ==
  /\ ALaMain
  /\ jardin' = IF a \in jardin THEN jardin \ {a} ELSE jardin \union {a}
  /\ Deranger
  /\ UNCHANGED <<console, portail, servis, page, ecart>>

ChangerServeurs(s) ==
  /\ ALaMain /\ s # servis
  /\ servis' = s
  /\ Deranger
  /\ UNCHANGED <<console, portail, jardin, page, ecart>>

\* A file is replaced in WinBox.
RemplacerPage(d, v) ==
  /\ ALaMain
  /\ page' = [page EXCEPT ![d] = v]
  /\ ecart' = [ecart EXCEPT ![d] = @ \union {"main"}]
  /\ requete' = [r \in Requetes |->
       IF r \in EnCours THEN [Reecrire(requete[r], d) EXCEPT !.derange = TRUE] ELSE Repos]
  /\ UNCHANGED <<console, portail, servis, jardin>>

\* script, pasted in the terminal, which needs a public address: the entry of an earlier
\* script is replaced by one without a port, the router fetches the page composed at that
\* time; no row is written.
PoserParScript ==
  /\ ALaMain /\ servis # {} /\ console \in Publiques
  /\ \E ancienne \in SUBSET jardin :
       /\ Cardinality(ancienne) <= 1
       /\ jardin' = (jardin \ ancienne) \union {SansPort[console]}
  /\ page' = [d \in Dossiers |-> IF d \in servis THEN portail ELSE page[d]]
  /\ ecart' = [d \in Dossiers |-> IF d \in servis THEN ecart[d] \union {"main"} ELSE ecart[d]]
  /\ requete' = [r \in Requetes |->
       IF r \in EnCours
       THEN [requete[r] EXCEPT !.derange = TRUE,
              !.double = @ \/ (En(r, "inscrire") /\ requete[r].c \in servis)]
       ELSE Repos]
  /\ UNCHANGED <<console, portail, servis>>

Avancer(r) ==
  \/ \E nomme \in BOOLEAN : Reparer(r, nomme) \/ Publier(r, nomme)
  \/ Enregistrer(r) \/ Ouvrir(r) \/ LireEtat(r) \/ Composer(r)
  \/ \E d \in Dossiers : Ecrire(r, d)
  \/ Inscrire(r) \/ NePasInscrire(r) \/ Rendre(r) \/ Couper(r)

Next ==
  \/ \E r \in Requetes : Avancer(r)
  \/ \E p \in Adresses \union {Vide} : EnregistrerLeFormulaire(p)
  \/ \E a \in Adresses : Demenager(a) \/ ChangerJardin(a)
  \/ \E s \in SUBSET Dossiers : ChangerServeurs(s)
  \/ \E d \in Dossiers, v \in Adresses \union {Usine} : RemplacerPage(d, v)
  \/ PoserParScript

Spec == Init /\ [][Next]_vars

-----------------------------------------------------------------------------
Etapes == {"repos", "enregistrer", "ouvrir", "etat", "composer", "ecrire", "inscrire", "fin"}
Actes ==
  [geste : {"aucun", "publier", "reparer"}, nomme : BOOLEAN, etape : Etapes, cible : Adresses \union {Vide},
   lu : Adresses \union {Vide}, gravee : Adresses \union {Vide},
   reste : SUBSET (Dossiers \union {Nul}), c : Dossiers \union {Nul},
   derange : BOOLEAN, sauve : BOOLEAN, double : BOOLEAN]
Ecarts == {"main", "coupure", "sauvegarde", "croisement", "anonyme"}

\* Types; a folder has a row only once its page was written.
TypeOK ==
  /\ console \in Adresses /\ portail \in Adresses \union {Vide}
  /\ servis \subseteq Dossiers /\ jardin \subseteq Adresses
  /\ page \in [Dossiers -> Adresses \union {Vide, Usine}]
  /\ publication \in [Dossiers -> Adresses \union {Absente}]
  /\ requete \in [Requetes -> Actes]
  /\ ecart \in [Dossiers -> SUBSET Ecarts]
  /\ gestes \in 0..MaxGestes /\ mains \in 0..MaxMains
  /\ \A d \in Dossiers : publication[d] # Absente => page[d] # Usine \/ ecart[d] # {}

\* A customer at this folder reaches the console: a rule lets its very address through.
Ouvert(d) == page[d] = console /\ {console, SansPort[console]} \cap jardin # {}

\* A rule that is limited to another port of this host.
RegleEtroite(a) == \E g \in jardin : SansPort[g] = SansPort[a] /\ g \notin {a, SansPort[a]}

\* A repair that ends without an error has engraved the address it aims at in the page of
\* every customer and found or put it in the garden, whatever half-done publications and
\* repairs came before it and beside other repairs, unless the operator, WinBox or a lease
\* changed something meanwhile.  The path is then open where the address aimed at is the
\* console's: a console of the local network on another port, and a rule limited to
\* another port of the host, leave it closed.
ReparationOuvre ==
  \A r \in Requetes :
    En(r, "fin") /\ requete[r].geste = "reparer" /\ ~requete[r].derange =>
      LET cible == requete[r].cible IN
      /\ cible = AdresseActuelle /\ DejaOuverte(cible, jardin)
      /\ \A d \in servis :
           page[d] = cible /\ (cible = console /\ ~RegleEtroite(console) => Ouvert(d))

\* "L'adresse gravee dans la page": the row of a folder is what its page carries, or one
\* of five things happened since: WinBox or the script, a cut between the file and its
\* row, settings saved between their two readings, two publications that crossed, a
\* publication that did not name its router.
PublicationFidele ==
  \A d \in Dossiers :
    publication[d] \notin {Absente, page[d]} =>
      ecart[d] # {} \/ \E r \in Requetes : En(r, "inscrire") /\ requete[r].c = d
=============================================================================
