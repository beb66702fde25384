---------------------------- MODULE TicketSales ----------------------------
(***************************************************************************)
(* The sale of tickets: a customer declares a payment on the public page   *)
(* (PublicService.claim) or a cashier records one (PaymentsService.create),*)
(* a cashier verifies or rejects it, an operator cancels or disables the   *)
(* ticket.  Each of these is an HTTP request whose reads, writes and       *)
(* router calls are steps; several requests run at the same time, and any  *)
(* of them may end with an exception, or with the process, between two of  *)
(* its steps.                                                              *)
(*                                                                         *)
(* A payment is named by its reference (unique with its method), a ticket  *)
(* by its code (unique).  Codes are numbers, in the order of creation for  *)
(* those of the stock; Noms are those that customers choose for themselves.*)
(***************************************************************************)
EXTENDS Integers, FiniteSets

CONSTANTS
  References,  \* references of transfers
  Clients,     \* customers (one phone number each)
  NbCodes,     \* codes that may exist (bound)
  Noms,        \* the codes that are identifiers chosen by customers
  Stock,       \* the codes that are printed and for sale at the start
  Historiques, \* those of the stock that have no account until they are sold
  Routeurs,    \* routers of the tenant
  Defaut,      \* the oldest of them
  Pages,       \* what the public pages say of the router they are seen from
  Requetes,    \* requests that may be in progress
  MaxRetires,  \* tickets cancelled or disabled at the same time (bound)
  MaxRompus,   \* payments whose verification may be cut short (bound)
  MaxRetries   \* times withControlledRetry sends a call again

Codes == 1..NbCodes

ASSUME ConstantesVentes ==
  /\ NbCodes \in Nat
  /\ Noms \subseteq Codes
  /\ Stock \subseteq Codes \ Noms
  /\ Defaut \in Routeurs
  /\ Historiques \subseteq Stock
  /\ MaxRetires \in Nat
  /\ MaxRompus \in Nat
  /\ MaxRetries \in Nat

SansCode == 0
SansClient == "personne"
SansReference == "aucune"
SansRouteur == "sans"

ASSUME AucunClient == SansClient \notin Clients
ASSUME AucuneReference == SansReference \notin References
ASSUME PagesConnues == Pages \subseteq Routeurs \union {SansRouteur}

VARIABLES
  ticket,    \* vouchers: status, customerId, whether umUsername is set and
             \* whether target is USER_MANAGER
  paiement,  \* payments: status, customerId, voucherId, renewsVoucherId, routerId
  comptes,   \* <<code, router, table>>: accounts, of User Manager or of the HotSpot
  fermes,    \* those of the accounts that are disabled
  requete,   \* per request: how far it is, payment, ticket, customer, router,
             \* and what it does once the account is provisioned or cut
  vendus,    \* per payment, the tickets activated for it; not in the code
  reclames,  \* per payment, times it passed to VERIFIED; idem
  periodes,  \* per payment, periods the router has added for it; idem
  renvois,   \* per payment, those that an answer lost and a call sent again added; idem
  rompus     \* payments whose verification was cut short once; idem

routeur == <<comptes, fermes>>
temoins == <<vendus, reclames, periodes, renvois, rompus>>
vars == <<ticket, paiement, routeur, requete, temoins>>

PasDeTicket == [status |-> "ABSENT", customerId |-> SansClient, um |-> FALSE, cible |-> FALSE]
PasDePaiement ==
  [status |-> "ABSENT", customerId |-> SansClient, voucherId |-> SansCode, renews |-> SansCode,
   routerId |-> SansRouteur]
Repos ==
  [etape |-> "repos", r |-> SansReference, v |-> SansCode, c |-> SansClient,
   ou |-> SansRouteur, suite |-> "rien"]

Init ==
  /\ ticket = [v \in Codes |-> IF v \in Stock
                               THEN [status |-> "CREATED", customerId |-> SansClient,
                                     um |-> v \notin Historiques,
                                     cible |-> v \notin Historiques]
                               ELSE PasDeTicket]
  /\ paiement = [r \in References |-> PasDePaiement]
  /\ comptes = (Stock \ Historiques) \X {Defaut} \X {"um"}
  /\ fermes = {}
  /\ requete = [q \in Requetes |-> Repos]
  /\ vendus = [r \in References |-> {}]
  /\ reclames = [r \in References |-> 0]
  /\ periodes = [r \in References |-> 0]
  /\ renvois = [r \in References |-> 0]
  /\ rompus = {}

En(q, etape) == requete[q].etape = etape
Aller(q, etape) == requete' = [requete EXCEPT ![q].etape = etape]
Finir(q) == requete' = [requete EXCEPT ![q] = Repos]

-----------------------------------------------------------------------------
(* The public page: PublicService.claim.                                   *)

\* The payment of this reference is looked for: a customer who reloads the page
\* finds his follow-up and nothing changes.
Declarer(q, r, c, v, ou) ==
  /\ En(q, "repos")
  /\ paiement[r].status = "ABSENT"
  /\ requete' = [requete EXCEPT ![q] =
       [Repos EXCEPT !.etape = "identifiant", !.r = r, !.v = v, !.c = c, !.ou = ou]]
  /\ UNCHANGED <<ticket, paiement, routeur, temoins>>

\* The identifier is looked for: free, taken by the same phone number (time is
\* bought back) or refused.
ChercherIdentifiant(q) ==
  LET t == ticket[requete[q].v] IN
  /\ En(q, "identifiant")
  /\ \/ t.status = "ABSENT" /\ Aller(q, "reservation")
     \/ /\ t.status \notin {"ABSENT", "CANCELLED", "DISABLED"} /\ t.customerId = requete[q].c
        /\ Aller(q, "rachat")
     \/ /\ t.status # "ABSENT"
        /\ t.customerId # requete[q].c \/ t.status \in {"CANCELLED", "DISABLED"}
        /\ Finir(q)
  /\ UNCHANGED <<ticket, paiement, routeur, temoins>>

\* The ticket is created in the name of the customer; nothing on the router.
\* The unique code makes the second of two equal creations fail.
Reserver(q) ==
  /\ En(q, "reservation")
  /\ IF ticket[requete[q].v].status = "ABSENT"
     THEN /\ ticket' = [ticket EXCEPT ![requete[q].v] =
               [status |-> "CREATED", customerId |-> requete[q].c, um |-> FALSE, cible |-> TRUE]]
          /\ Aller(q, "rattachement")
     ELSE Finir(q) /\ UNCHANGED ticket
  /\ UNCHANGED <<paiement, routeur, temoins>>

\* The payment, bound to the ticket it reserves or to the one it prolongs.  The
\* unique reference makes a second creation fail, and leaves a reserved ticket
\* without a payment.
CreerPaiement(q, reserve, prolonge) ==
  /\ IF paiement[requete[q].r].status = "ABSENT"
     THEN paiement' = [paiement EXCEPT ![requete[q].r] =
            [status |-> "PENDING", customerId |-> requete[q].c,
             voucherId |-> reserve, renews |-> prolonge, routerId |-> requete[q].ou]]
     ELSE UNCHANGED paiement
  /\ Finir(q)
  /\ UNCHANGED <<ticket, routeur, temoins>>

Rattacher(q) == En(q, "rattachement") /\ CreerPaiement(q, requete[q].v, SansCode)
Racheter(q) == En(q, "rachat") /\ CreerPaiement(q, SansCode, requete[q].v)

\* PaymentsService.create, at the counter: no ticket is chosen yet.
Enregistrer(r, c) ==
  /\ paiement[r].status = "ABSENT"
  /\ paiement' = [paiement EXCEPT ![r] =
       [PasDePaiement EXCEPT !.status = "PENDING", !.customerId = c]]
  /\ UNCHANGED <<ticket, routeur, requete, temoins>>

-----------------------------------------------------------------------------
(* PaymentsService.verifyPayment.                                          *)

\* The payment is read; the manual provider always vouches for it.
Verifier(q, r) ==
  /\ En(q, "repos")
  /\ paiement[r].status = "PENDING"
  /\ requete' = [requete EXCEPT ![q] =
       [Repos EXCEPT !.r = r,
          !.etape = CASE paiement[r].renews # SansCode -> "reabonnement"
                      [] paiement[r].voucherId # SansCode -> "activation"
                      [] OTHER -> "choix",
          !.v = IF paiement[r].renews # SansCode THEN paiement[r].renews
                ELSE paiement[r].voucherId]]
  /\ UNCHANGED <<ticket, paiement, routeur, temoins>>

Comptes(v) == {compte \in comptes : compte[1] = v}

\* (Mutated form of Disponibles: a ticket reserved by a declaration is for sale.)
DisponiblesReserves == {v \in Codes : ticket[v].status = "CREATED"}

\* findAvailableForPlan: a ticket of the stock that is reserved for nobody.
Disponibles == {v \in Codes : ticket[v].status = "CREATED" /\ ticket[v].customerId = SansClient}

\* The oldest ticket of the stock, or a new one (generateSingle), which is in
\* the stock until it is activated; its account goes to the payment's router.
Choisir(q) ==
  /\ En(q, "choix")
  /\ \/ /\ \E v \in Disponibles :
             /\ \A w \in Disponibles : v <= w
             /\ requete' = [requete EXCEPT ![q].v = v, ![q].etape = "activation"]
        /\ UNCHANGED ticket
     \/ /\ Disponibles = {}
        /\ \E v \in Codes \ Noms :
             /\ ticket[v].status = "ABSENT"
             /\ \A w \in Codes \ Noms : ticket[w].status = "ABSENT" => v <= w
             /\ ticket' = [ticket EXCEPT ![v] = [PasDeTicket EXCEPT !.status = "CREATED"]]
             /\ requete' = [requete EXCEPT ![q].v = v, ![q].etape = "ouverture",
                  ![q].suite = "activation",
                  ![q].ou = IF paiement[requete[q].r].routerId = SansRouteur THEN Defaut
                            ELSE paiement[requete[q].r].routerId]
  /\ UNCHANGED <<paiement, routeur, temoins>>

\* The router refuses an account whose name it has: an exception, even if the
\* account is the one that an interrupted request left.
CreerCompte(q, table, suite) ==
  LET compte == <<requete[q].v, requete[q].ou, table>> IN
  /\ IF compte \in comptes
     THEN Finir(q) /\ UNCHANGED comptes
     ELSE comptes' = comptes \union {compte} /\ Aller(q, suite)
  /\ UNCHANGED <<ticket, paiement, fermes, temoins>>

\* provisionOnUserManager: the account and its profile on the router, ...
OuvrirCompte(q) ==
  /\ En(q, "ouverture")
  /\ CreerCompte(q, "um", "inscription")

\* ... then the row.
InscrireCompte(q) ==
  /\ En(q, "inscription")
  /\ ticket' = [ticket EXCEPT ![requete[q].v].um = TRUE, ![requete[q].v].cible = TRUE]
  /\ Aller(q, requete[q].suite)
  /\ UNCHANGED <<paiement, routeur, temoins>>

\* (Mutated form of Activer: every account is taken for provisioned.)
ActiverSansOuvrir(q) ==
  /\ En(q, "activation")
  /\ requete' = IF ticket[requete[q].v].status # "CREATED" THEN [requete EXCEPT ![q] = Repos]
                ELSE [requete EXCEPT ![q].etape = "vente"]
  /\ UNCHANGED <<ticket, paiement, routeur, temoins>>

\* activate reads the ticket and refuses one that is not CREATED.  The account
\* exists (um), or is provisioned now (target) or opened on the HotSpot, in both
\* cases on the default router.
Activer(q) ==
  LET t == ticket[requete[q].v] IN
  /\ En(q, "activation")
  /\ requete' = IF t.status # "CREATED" THEN [requete EXCEPT ![q] = Repos]
                ELSE [requete EXCEPT ![q].suite = "vente", ![q].ou = Defaut,
                        ![q].etape = IF t.um THEN "vente"
                                     ELSE IF t.cible THEN "ouverture" ELSE "hotspot"]
  /\ UNCHANGED <<ticket, paiement, routeur, temoins>>

OuvrirHotspot(q) ==
  /\ En(q, "hotspot")
  /\ CreerCompte(q, "hotspot", "vente")

\* The update of activate: no condition on the status.
Vendre(q) ==
  LET r == requete[q].r IN
  /\ En(q, "vente")
  /\ ticket' = [ticket EXCEPT ![requete[q].v].status = "SOLD",
                              ![requete[q].v].customerId = paiement[r].customerId]
  /\ vendus' = [vendus EXCEPT ![r] = @ \union {requete[q].v}]
  /\ Aller(q, "reclamation")
  /\ UNCHANGED <<paiement, routeur, reclames, periodes, renvois, rompus>>

\* (Mutated forms of PeutReclamer: no WHERE status; no unique voucherId.)
ReclamerToujours(q) ==
  \A s \in References \ {requete[q].r} : paiement[s].voucherId # requete[q].v
ReclamerSansUnicite(q) == paiement[requete[q].r].status = "PENDING"

\* UPDATE ... WHERE status = PENDING, and the unique voucherId.
PeutReclamer(q) ==
  LET r == requete[q].r IN
  /\ paiement[r].status = "PENDING"
  /\ \A s \in References \ {r} : paiement[s].voucherId # requete[q].v

Reclamer(q) ==
  LET r == requete[q].r IN
  /\ En(q, "reclamation")
  /\ IF PeutReclamer(q)
     THEN /\ paiement' = [paiement EXCEPT ![r].status = "VERIFIED", ![r].voucherId = requete[q].v]
          /\ reclames' = [reclames EXCEPT ![r] = @ + 1]
     ELSE UNCHANGED <<paiement, reclames>>
  /\ Finir(q)
  /\ UNCHANGED <<ticket, routeur, vendus, periodes, renvois, rompus>>

\* verifierReabonnement: the payment is claimed first, ...
ReclamerReabonnement(q) ==
  LET r == requete[q].r IN
  /\ En(q, "reabonnement")
  /\ IF paiement[r].status = "PENDING"
     THEN /\ paiement' = [paiement EXCEPT ![r].status = "VERIFIED"]
          /\ reclames' = [reclames EXCEPT ![r] = @ + 1]
          /\ Aller(q, "prolongation")
     ELSE Finir(q) /\ UNCHANGED <<paiement, reclames>>
  /\ UNCHANGED <<ticket, routeur, vendus, periodes, renvois, rompus>>

\* ... then renouveler: a ticket without a User Manager account is refused, the
\* router adds a period, and one more each time the answer to the assignment of the
\* profile is lost and withControlledRetry sends it again, ...
Prolonger(q) ==
  LET r == requete[q].r IN
  /\ En(q, "prolongation")
  /\ IF ticket[requete[q].v].um
     THEN /\ \E perdues \in 0..MaxRetries :
               /\ periodes' = [periodes EXCEPT ![r] = @ + 1 + perdues]
               /\ renvois' = [renvois EXCEPT ![r] = @ + perdues]
          /\ Aller(q, "ecriture")
     ELSE Finir(q) /\ UNCHANGED <<periodes, renvois>>
  /\ UNCHANGED <<ticket, paiement, routeur, vendus, reclames, rompus>>

\* ... and the ticket is active, whatever became of it.
EcrireProlongation(q) ==
  /\ En(q, "ecriture")
  /\ ticket' = [ticket EXCEPT ![requete[q].v].status = "ACTIVE"]
  /\ Finir(q)
  /\ UNCHANGED <<paiement, routeur, temoins>>

-----------------------------------------------------------------------------
(* PaymentsService.reject, VouchersService.cancel and disable: a read with *)
(* its test, then what follows without one.                                *)

Rejeter(q, r) ==
  /\ En(q, "repos")
  /\ paiement[r].status = "PENDING"
  /\ requete' = [requete EXCEPT ![q] = [Repos EXCEPT !.r = r, !.etape = "rejet"]]
  /\ UNCHANGED <<ticket, paiement, routeur, temoins>>

EcrireRejet(q) ==
  /\ En(q, "rejet")
  /\ paiement' = [paiement EXCEPT ![requete[q].r].status = "REJECTED"]
  /\ Finir(q)
  /\ UNCHANGED <<ticket, routeur, temoins>>

\* The ticket is retired, or is being so: what MaxRetires bounds.
Retire(v) ==
  \/ ticket[v].status \in {"CANCELLED", "DISABLED"}
  \/ \E q \in Requetes : requete[q].v = v /\ requete[q].suite \in {"CANCELLED", "DISABLED"}

\* Only a CREATED ticket is cancelled.  Whether there is something to cut on
\* the router, and in which table, is decided on the row as it was read.
Retirer(q, v, statut) ==
  /\ En(q, "repos")
  /\ Cardinality({w \in Codes : Retire(w)} \ {v}) < MaxRetires
  /\ IF statut = "CANCELLED" THEN ticket[v].status = "CREATED" ELSE ticket[v].status # "ABSENT"
  /\ requete' = [requete EXCEPT ![q] =
       [Repos EXCEPT !.v = v, !.suite = statut,
          !.etape = CASE ticket[v].um -> "revocation"
                      [] ~ticket[v].um /\ ticket[v].status \in {"SOLD", "ACTIVE"} -> "fermeture"
                      [] OTHER -> "retrait"]]
  /\ UNCHANGED <<ticket, paiement, routeur, temoins>>

CouperAcces(q) ==
  /\ \/ /\ En(q, "revocation")
        /\ fermes' = fermes \union ({<<requete[q].v, Defaut, "um">>} \intersect comptes)
     \/ /\ En(q, "fermeture")
        /\ fermes' = fermes \union ({<<requete[q].v, Defaut, "hotspot">>} \intersect comptes)
  /\ Aller(q, "retrait")
  /\ UNCHANGED <<ticket, paiement, comptes, temoins>>

EcrireRetrait(q) ==
  /\ En(q, "retrait")
  /\ ticket' = [ticket EXCEPT ![requete[q].v].status = requete[q].suite]
  /\ Finir(q)
  /\ UNCHANGED <<paiement, routeur, temoins>>

-----------------------------------------------------------------------------
EtapesDeVerification ==
  {"choix", "ouverture", "inscription", "activation", "hotspot", "vente", "reclamation",
   "reabonnement", "prolongation", "ecriture"}
Etapes == EtapesDeVerification \union
  {"repos", "identifiant", "reservation", "rattachement", "rachat", "rejet", "revocation", "fermeture", "retrait"}

\* A request ends with an exception of the router or of the database, or with
\* the process; the cashier may verify again.
Echouer(q) ==
  /\ ~En(q, "repos")
  /\ Finir(q)
  /\ rompus' = IF requete[q].etape \in EtapesDeVerification
               THEN rompus \union {requete[q].r} ELSE rompus
  /\ Cardinality(rompus') <= MaxRompus
  /\ UNCHANGED <<ticket, paiement, routeur, vendus, reclames, periodes, renvois>>

Avancer(q) ==
  \/ ChercherIdentifiant(q) \/ Reserver(q) \/ Rattacher(q) \/ Racheter(q)
  \/ Choisir(q) \/ OuvrirCompte(q) \/ InscrireCompte(q) \/ Activer(q) \/ OuvrirHotspot(q)
  \/ Vendre(q) \/ Reclamer(q)
  \/ ReclamerReabonnement(q) \/ Prolonger(q) \/ EcrireProlongation(q)
  \/ EcrireRejet(q) \/ CouperAcces(q) \/ EcrireRetrait(q)

Next ==
  \/ \E r \in References, c \in Clients : Enregistrer(r, c)
  \/ \E q \in Requetes :
       \/ \E r \in References, c \in Clients, v \in Noms, ou \in Pages : Declarer(q, r, c, v, ou)
       \/ \E r \in References : Verifier(q, r) \/ Rejeter(q, r)
       \/ \E v \in Codes, s \in {"CANCELLED", "DISABLED"} : Retirer(q, v, s)
       \/ Avancer(q) \/ Echouer(q)

Spec == Init /\ [][Next]_vars

-----------------------------------------------------------------------------
Statuts == {"ABSENT", "CREATED", "SOLD", "ACTIVE", "CANCELLED", "DISABLED"}

\* Types, with what the schema forbids: two payments for one sold ticket.
TypeOK ==
  /\ ticket \in [Codes -> [status : Statuts, customerId : Clients \union {SansClient},
                           um : BOOLEAN, cible : BOOLEAN]]
  /\ paiement \in [References ->
       [status : {"ABSENT", "PENDING", "VERIFIED", "REJECTED"},
        customerId : Clients \union {SansClient}, voucherId : Codes \union {SansCode},
        renews : Noms \union {SansCode}, routerId : Pages \union {SansRouteur}]]
  /\ comptes \subseteq Codes \X Routeurs \X {"um", "hotspot"} /\ fermes \subseteq comptes
  /\ requete \in [Requetes ->
       [etape : Etapes, r : References \union {SansReference}, v : Codes \union {SansCode},
        c : Clients \union {SansClient}, ou : Routeurs \union {SansRouteur},
        suite : {"rien", "activation", "vente", "CANCELLED", "DISABLED"}]]
  /\ vendus \in [References -> SUBSET Codes]
  /\ reclames \in [References -> Nat] /\ periodes \in [References -> Nat]
  /\ renvois \in [References -> Nat]
  /\ rompus \subseteq References
  /\ \A r, s \in References :
       paiement[r].voucherId = paiement[s].voucherId => r = s \/ paiement[r].voucherId = SansCode

\* However many cashiers verify it at the same time, reject it or try again, a
\* payment passes to VERIFIED at most once, and one that buys time back adds at
\* most one period, never before it is VERIFIED (the conditional updateMany), and one
\* more for each answer of the router that was lost; a consequence, in numbers, of the
\* ledger below.
VerifieUneFois ==
  \A r \in References : reclames[r] <= 1 /\ periodes[r] <= reclames[r] + renvois[r]

\* A ticket that a declaration reserved is sold for the payment that reserved it
\* and for no other, to the customer who declared it (findAvailableForPlan).
ReserveAuSien ==
  \A r \in References, v \in Noms :
    v \in vendus[r] => paiement[r].voucherId = v /\ ticket[v].customerId = paiement[r].customerId

\* A payment that was verified has a ticket that was sold for it and that has an
\* account on a router: the order "account, sale, claim" of verifyPayment, whatever
\* stops, fails or is retired in between.
VerifieOuvert ==
  \A r \in References :
    LET v == paiement[r].voucherId IN
    paiement[r].status = "VERIFIED" /\ v # SansCode =>
      v \in vendus[r] /\ Comptes(v) # {}

\* A declared payment that waits can be verified: its ticket is still CREATED and
\* its account does not stand in the way, or a verification is about to claim it.
\* Three things leave it PENDING for ever: an interruption after the account was
\* created (the router refuses a second creation, and activate a ticket that is
\* SOLD), a ticket cancelled, or one disabled by an operator.
EnAttenteReglable ==
  \A r \in References :
    LET v == paiement[r].voucherId IN
    paiement[r].status = "PENDING" /\ v # SansCode =>
      \/ ticket[v].status \in {"CANCELLED", "DISABLED"}
      \/ /\ ticket[v].status = "CREATED"
         /\ \/ ticket[v].um \/ Comptes(v) = {}
            \/ \E q \in Requetes : requete[q].v = v /\ requete[q].etape = "inscription"
      \/ \E q \in Requetes : requete[q].r = r /\ requete[q].etape \in {"vente", "reclamation"}
      \/ r \in rompus

\* A verified payment that buys time back adds a period, unless its verification
\* was interrupted.  ("Il rachete du temps sur l'acces qu'il a deja.")
ReabonnementHonore ==
  \A r \in References :
    paiement[r].status = "VERIFIED" /\ paiement[r].renews # SansCode =>
      \/ periodes[r] > 0
      \/ \E q \in Requetes : requete[q].r = r /\ requete[q].etape = "prolongation"
      \/ r \in rompus

-----------------------------------------------------------------------------
\* The sale keeps the ledger: a period is owed while a request is about to add it.
Etat == [r \in References |-> paiement[r].status]
Objet == [r \in References |-> paiement[r].voucherId]
Rachats == {r \in References : paiement[r].renews # SansCode}
PeriodesDues == {r \in References : \E q \in Requetes : En(q, "prolongation") /\ requete[q].r = r}

GrandLivre == INSTANCE PaymentLedger WITH
  etat <- Etat, objet <- Objet, rachats <- Rachats, servis <- vendus, dus <- PeriodesDues

\* However many requests verify, reject, retire and are cut short at the same time,
\* a payment is an entry of the ledger: it never waits again, it is honoured once, by
\* a ticket sold for it that honours no other payment and never changes, or by one
\* period, owed after the claim and added at most once, with one more per answer of the
\* router that was lost (the conditional updateMany, the unique voucherId, the order of
\* verifyPayment).
TientLeGrandLivre == GrandLivre!Spec
=============================================================================
